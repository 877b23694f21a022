--------------------------- MODULE Conversation ----------------------------
(* A conversation that Codex keeps and that the bridge sends, turn by turn, *)
(* to Grok or to a Native model (protocol.rs).  Codex appends what its user *)
(* says, what the models answer and what the tools return, and may declare  *)
(* other tools in every turn.                                               *)
EXTENDS HistoryProjection, ToolProjection

CONSTANTS
  Scenarios,   \* by name, the conversations to look at: what may happen in each
  MaxTurns     \* model turns

IsSequence(s) == s \in Seq({s[k] : k \in DOMAIN s})

IsToolList(list) ==
  /\ IsSequence(list)
  /\ \A k \in DOMAIN list : list[k].type = "namespace" => IsSequence(list[k].members)

\* What an item says of itself is true: reasoning is Grok's if it is in the
\* envelope of this bridge or empty, and a call names what the model called.
Genuine(i) ==
  /\ "type" \in DOMAIN i
  /\ i.type \in CallTypes \cup OutputTypes => "call" \in DOMAIN i
  /\ i.type = "reasoning" =>
       i.id = IF i.cipher \in {"null", "grok", "bare"} THEN "grok" ELSE "native"
  /\ i.type = "function_call" => i.made.name = Flat(i.namespace, i.name)
  /\ i.type = "tool_search_call" =>
       i.made.name = SearchName /\ i.id \in {"none", "grok", "native"}
  /\ i.type = "tool_search_output" => IsToolList(i.tools)

\* A conversation begins with a sequence of genuine items, gets no others from
\* outside, and its lists of tools are sequences.
ASSUME ScenariosAssumption ==
  \A s \in DOMAIN Scenarios :
    LET c == Scenarios[s] IN
    /\ \A h \in c.seeds : IsSequence(h) /\ \A k \in DOMAIN h : Genuine(h[k])
    /\ \A i \in c.odd : Genuine(i)
    /\ \A d \in c.catalogs : IsToolList(d.list)
    /\ \A found \in c.finds : IsToolList(found)
    /\ c.ciphers \subseteq {"raw", "null"} /\ c.numbers # {}

VARIABLES
  scenario,
  history,     \* what Codex has recorded
  turn,        \* "codex", "grok" (a request is projected), "answer" or "native"
  turns,
  tools,       \* the tools admitted for the running request
  refused,     \* a request was refused
  asked,       \* how much of the history the running Native request saw,
  native,      \* and what it carried of it
  anchors      \* what the conversation ids were derived from

codexVars == <<scenario, history, turns>>
conversationVars ==
  <<historyVars, scenario, history, turn, turns, tools, refused, asked, native, anchors>>

-----------------------------------------------------------------------------
(* What Codex records.  `id` is who named the item; ids of calls are fresh. *)

UserMessage ==
  [type |-> "message", valid |-> TRUE, role |-> "user", phase |-> "absent",
   parts |-> {"input_text"}, id |-> "none"]
AssistantMessage(by) ==
  [type |-> "message", valid |-> TRUE, role |-> "assistant", phase |-> "absent",
   parts |-> {"output_text"}, id |-> by]
Reasoning(by, cipher) ==
  [type |-> "reasoning", valid |-> TRUE, cipher |-> cipher, id |-> by]
\* `made` is the call as the model made it.
Call(by, named, made, call) ==
  [type |-> "function_call", valid |-> TRUE, namespace |-> named.namespace,
   name |-> named.name, number |-> Canonical(made.number), call |-> call, id |-> by,
   made |-> made]
SearchCall(by, made, call) ==
  [type |-> "tool_search_call", valid |-> TRUE, number |-> Canonical(made.number),
   call |-> call, id |-> by, made |-> made]
Output(call) ==
  [type |-> "function_call_output", valid |-> TRUE, call |-> call, id |-> "none"]
SearchOutput(call, found) ==
  [type |-> "tool_search_output", valid |-> TRUE, call |-> call, tools |-> found, id |-> "none"]
WebSearchCall(by) == [type |-> "web_search_call", valid |-> TRUE, id |-> by]
CustomCall(call) ==
  [type |-> "custom_tool_call", valid |-> TRUE, call |-> call, id |-> "native"]
CustomOutput(call) ==
  [type |-> "custom_tool_call_output", valid |-> TRUE, call |-> call, id |-> "none"]

Case == Scenarios[scenario]

Fresh == Len(history) + 1
Room == Len(history) < Case.items

Recorded(type, call) ==
  \E k \in DOMAIN history : history[k].type = type /\ history[k].call = call

\* Codex answers a call once; some histories hold a second answer.
MayAnswer(type, call) == Case.repeats \/ ~Recorded(type, call)

UserSays == history' = Append(history, UserMessage)

ToolReturns ==
  \E k \in DOMAIN history :
    LET c == history[k] IN
    \/ /\ c.type = "function_call" /\ MayAnswer("function_call_output", c.call)
       /\ history' = Append(history, Output(c.call))
    \/ /\ c.type = "tool_search_call" /\ MayAnswer("tool_search_output", c.call)
       /\ \E found \in Case.finds :
            history' = Append(history, SearchOutput(c.call, found))
    \/ /\ c.type = "custom_tool_call" /\ MayAnswer("custom_tool_call_output", c.call)
       /\ history' = Append(history, CustomOutput(c.call))

\* Items other versions of Codex, or other clients, may put into a history.
OddItem == \E i \in Case.odd : history' = Append(history, i)

CodexRecords ==
  /\ turn = "codex" /\ Room /\ turns < MaxTurns
  /\ UserSays \/ ToolReturns \/ OddItem
  /\ UNCHANGED <<historyVars, scenario, turn, turns, tools, refused, asked, native, anchors>>

-----------------------------------------------------------------------------
(* A Grok turn: NormalizedResponsesRequest::parse and to_xai_value.         *)

StartGrok ==
  /\ turn = "codex" /\ turns < MaxTurns /\ history # <<>>
  /\ \E c \in Case.catalogs :
       LET t == AdmittedTools(c.field, c.list, history)
       IN  IF t.ok /\ ChoiceAdmitted(c.choice, t.list)
           THEN /\ tools' = t
                /\ Begin(history, t.map)
                /\ turn' = "grok"
                /\ UNCHANGED <<turns, refused>>
           ELSE /\ refused' = TRUE
                /\ turns' = turns + 1
                /\ UNCHANGED <<historyVars, tools, turn>>
  /\ UNCHANGED <<scenario, history, asked, native, anchors>>

Prepare ==
  /\ turn = "grok" /\ HistoryStep
  /\ UNCHANGED <<codexVars, turn, tools, refused, asked, native, anchors>>

RefuseHistory ==
  /\ turn = "grok" /\ phase = "rejected"
  /\ turn' = "codex" /\ turns' = turns + 1
  /\ refused' = TRUE /\ tools' = NoTools
  /\ Drop
  /\ UNCHANGED <<scenario, history, asked, native, anchors>>

\* Faulty variant: from the first item that is sent.
AnchorSent == {projected[k] : k \in {j \in DOMAIN projected : j = 1}}

\* derived_conversation_id: from the opening of the history, never its tail
\* (and from the instructions, which do not change here).
Anchor ==
  LET opening == {k \in DOMAIN parsed : Projectable(parsed[k])}
  IN  {GrokValue(parsed[k]) : k \in {j \in opening : \A o \in opening : j <= o}}

SendToGrok ==
  /\ turn = "grok" /\ phase = "ready"
  /\ turn' = "answer"
  /\ anchors' = anchors \cup Anchor
  /\ UNCHANGED <<historyVars, codexVars, tools, refused, asked, native>>

\* restore_response_event: a call of an offered tool as Codex is told of it.
RestoredCall(made) ==
  IF tools.search /\ made.name = SearchName THEN SearchCall("none", made, Fresh)
  ELSE Call("grok", Restored(map, made.name), made, Fresh)

\* Faulty variant: the ciphertext of a completed response is not marked.
MarkedNever(cipher) == IF cipher = "raw" THEN "foreign" ELSE cipher

\* mark_reasoning_ciphertext: what Grok encrypted gets the bridge's envelope.
Marked(cipher) == IF cipher = "raw" THEN "grok" ELSE cipher

GrokAnswers ==
  /\ turn = "answer" /\ Room
  /\ \/ history' = Append(history, AssistantMessage("grok"))
     \/ \E cipher \in Case.ciphers :
          history' = Append(history, Reasoning("grok", Marked(cipher)))
     \/ \E k \in DOMAIN OfferedTools(tools.list), n \in Case.numbers :
          LET tool == OfferedTools(tools.list)[k]
          IN  history' = Append(history, IF tool.kind = "function"
                                         THEN RestoredCall([name |-> tool.name, number |-> n])
                                         ELSE WebSearchCall("grok"))
  /\ UNCHANGED <<historyVars, scenario, turn, turns, tools, refused, asked, native, anchors>>

-----------------------------------------------------------------------------
(* A Native turn: sanitize_unreplayable_history_for_native.                 *)

ContainsGrokReasoning(items) ==
  \E k \in DOMAIN items :
    items[k].type = "reasoning" /\ items[k].cipher \in {"null", "grok", "bare"}

\* Ids of tool searches are Native's if they have Codex's prefix.
LosesId(i, mixed) ==
  \/ mixed /\ i.type \in {"message", "function_call", "function_call_output"}
  \/ i.type = "tool_search_call" /\ i.id # "native"

\* Reasoning and hosted searches are the provider's own.
WithoutReasoning(items) ==
  FoldLeft(LAMBDA kept, i : IF i.type \in {"reasoning", "web_search_call"} THEN kept
                            ELSE Append(kept, i),
           <<>>, items)

\* Faulty variant: every history is taken for a mixed one.
SanitizedAlways(items) ==
  LET kept == WithoutReasoning(items)
  IN  [k \in DOMAIN kept |-> [kept[k] EXCEPT !.id = "none"]]

\* What a Native request of Codex carries: it says store: false and is a Responses
\* request.  Any other is passed through as it is.
Sanitized(items) ==
  LET mixed == ContainsGrokReasoning(items)
      kept == IF mixed THEN WithoutReasoning(items) ELSE items
  IN  [k \in DOMAIN kept |->
         IF LosesId(kept[k], mixed) THEN [kept[k] EXCEPT !.id = "none"] ELSE kept[k]]

\* A Native model's calls are recorded with the numbers it wrote.
Made(name) == [name |-> name, number |-> CHOOSE n \in Case.numbers : TRUE]
NativeCall(i) == [i EXCEPT !.number = i.made.number]

StartNative ==
  /\ turn = "codex" /\ turns < MaxTurns /\ history # <<>> /\ Case.native
  /\ native' = Sanitized(history) /\ asked' = Len(history)
  /\ turn' = "native"
  /\ UNCHANGED <<historyVars, codexVars, tools, refused, anchors>>

NativeAnswers ==
  /\ turn = "native" /\ Room
  /\ \E i \in {AssistantMessage("native"), Reasoning("native", "foreign"),
               WebSearchCall("native"), CustomCall(Fresh),
               NativeCall(SearchCall("native", Made(SearchName), Fresh))} \cup
              {NativeCall(Call("native", n, Made(Flat(n.namespace, n.name)), Fresh)) :
                 n \in Case.names} :
       history' = Append(history, i)
  /\ UNCHANGED <<historyVars, scenario, turn, turns, tools, refused, asked, native, anchors>>

EndTurn ==
  /\ turn \in {"answer", "native"}
  /\ turn' = "codex" /\ turns' = turns + 1
  /\ tools' = NoTools /\ native' = <<>> /\ asked' = 0
  /\ Drop
  /\ UNCHANGED <<scenario, history, refused, anchors>>

-----------------------------------------------------------------------------

ConversationInit ==
  /\ HistoryInit
  /\ scenario \in DOMAIN Scenarios
  /\ history \in Case.seeds
  /\ turn = "codex" /\ turns = 0
  /\ tools = NoTools /\ refused = FALSE /\ asked = 0 /\ native = <<>> /\ anchors = {}

ConversationNext ==
  \/ CodexRecords \/ StartGrok \/ Prepare \/ RefuseHistory \/ SendToGrok
  \/ GrokAnswers \/ StartNative \/ NativeAnswers \/ EndTurn

ConversationSpec == ConversationInit /\ [][ConversationNext]_conversationVars

-----------------------------------------------------------------------------
(* Properties.                                                              *)

\* Encrypted reasoning only goes back to who made it: Grok gets what Grok
\* encrypted, Native what Native did (mark_reasoning_ciphertext on the way in,
\* parse_input and the sanitizer on the way out).
StateStaysHome ==
  /\ turn = "answer" =>
       \A k \in DOMAIN projected :
         projected[k].kind = "reasoning" => input[projected[k].at].id = "grok"
  /\ \A k \in DOMAIN native : native[k].type = "reasoning" => native[k].id = "native"

\* A call a model made is replayed to Grok under the name it made it by, and
\* with arguments of the same value, whatever became of the tool since
\* (restore_response_event and FunctionCall::parse; README.md:125).
CallsReplayed ==
  turn = "answer" =>
    \A k \in DOMAIN projected : projected[k].kind = "function_call" =>
      LET made == input[projected[k].at].made
      IN  /\ projected[k].name = made.name
          /\ projected[k].number.halves = made.number.halves

\* Native gets every call and every result, in order and with the ids that pair
\* them; and a history no Grok model wrote in, as it is (the comment at
\* protocol.rs:932).
Pairs(items) ==
  FoldLeft(LAMBDA pairs, i : IF i.type \in CallTypes \cup OutputTypes
                             THEN Append(pairs, [type |-> i.type, call |-> i.call])
                             ELSE pairs,
           <<>>, items)

\* Grok's tool searches lose their id where they are restored.
ByGrok(i) == i.id = "grok" \/ (i.type = "tool_search_call" /\ i.id = "none")

NativeKept ==
  turn = "native" =>
    LET recorded == SubSeq(history, 1, asked)
    IN  /\ Pairs(native) = Pairs(recorded)
        /\ native = recorded \/ \E k \in DOMAIN recorded : ByGrok(recorded[k])

\* All Grok turns of a conversation have one conversation id, whatever is added
\* to its history (derived_conversation_id, protocol.rs:374).
ConversationKept == Cardinality(anchors) <= 1

-----------------------------------------------------------------------------
(* Conversations a Grok request can always be made of.                      *)

\* What a conversation `c` gets from outside of it, and what its searches find.
Outside(c) == c.odd \cup UNION {{h[k] : k \in DOMAIN h} : h \in c.seeds}
FoundLists(c) == c.finds \cup {i.tools : i \in {o \in Outside(c) : o.type = "tool_search_output"}}
Found(c) == UNION {{found[k] : k \in DOMAIN found} : found \in FoundLists(c)}

\* Under a catalog `d`: what is parsed, each list by itself.
DeclaredList(d) == IF d.field = "list" THEN d.list ELSE <<>>
Parses(c, d) == {ParsedTools(<<spec>>) : spec \in Found(c)} \cup {ParsedTools(DeclaredList(d))}

\* What a tool means to Grok and, by the map, to Codex.
Meaning(t, tool) ==
  IF tool.kind # "function" THEN [tool |-> tool]
  ELSE [tool |-> tool, entries |-> {e \in t.map : e.provider = tool.name},
        search |-> t.search /\ tool.name = SearchName]
Meanings(t) == {Meaning(t, t.list[k]) : k \in DOMAIN t.list}

\* A name means one tool, and all tools are not too many.
MeaningsAgree(all) ==
  /\ \A m, n \in all : m.tool.kind = "function" /\ n.tool.kind = "function"
                       /\ m.tool.name = n.tool.name => m = n
  /\ IsFiniteSet(all) /\ Cardinality(all) <= MaxTools

\* Each list is in order, and all of them agree.
Compatible(parses) ==
  /\ \A t \in parses : t.ok
  /\ MeaningsAgree(UNION {Meanings(t) : t \in parses})

\* The pairs of namespace and name anything in the conversation may call.
NamesUsed(c) ==
  {[namespace |-> i.namespace, name |-> i.name] :
     i \in {n \in c.names \cup {o \in Outside(c) : o.type = "function_call"} :
              n.namespace # NoNamespace}}
  \cup UNION {{[namespace |-> e.namespace, name |-> e.name] : e \in t.map} :
                t \in UNION {Parses(c, d) : d \in c.catalogs}}

\* Every result stands behind its call.
Answered(h) ==
  \A k \in DOMAIN h : h[k].type \in OutputTypes =>
    \E j \in 1 .. k - 1 : h[j].type \in CallTypes /\ h[j].call = h[k].call

\* Nothing that goes into the conversation is wrong by itself: items are well
\* formed, results follow their calls, tools are compatible, choices can be met
\* by the declared tools, and no two pairs have one flat name.
Legal(c) ==
  /\ \A i \in Outside(c) : i.type \in KnownTypes => WellFormed(i)
  /\ \A h \in c.seeds : Answered(h)
  /\ \A i \in c.odd : i.type \notin OutputTypes
  /\ \A d \in c.catalogs :
       /\ Compatible(Parses(c, d))
       /\ ChoiceAdmitted(d.choice, ParsedTools(DeclaredList(d)).list)
       /\ Found(c) # {} => d.field = "list"
  /\ \A m, n \in NamesUsed(c) : Flat(m.namespace, m.name) = Flat(n.namespace, n.name) => m = n

LegalScenarios == {s \in DOMAIN Scenarios : Legal(Scenarios[s])}

\* A conversation Codex recorded with the answers of both models, with tools
\* declared, found and dropped again, is never refused if nothing in it is wrong
\* by itself (protocol.rs:1566, 3427).
LegalAccepted == scenario \in LegalScenarios => ~refused

=============================================================================
