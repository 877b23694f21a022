-------------------------- MODULE ToolProjection ---------------------------
(* The tools of one request (protocol.rs): parse_tools reads what Codex     *)
(* declares, merge_discovered_tool_search_specs adds what earlier tool      *)
(* searches found, and project_tools_for_xai says what Grok is offered.     *)
(*                                                                          *)
(* A declared tool is a record with its type; a function has a name and a   *)
(* `spec` (its description and its parameter schema), a namespace a name    *)
(* and its functions; `valid` says that the other fields are as the parser  *)
(* wants them.                                                              *)
(*                                                                          *)
(* What becomes of a parameter schema is SchemaProjection: nothing here     *)
(* depends on it but which functions are offered.                           *)
EXTENDS NamespaceProjection, SequencesExt

CONSTANTS
  MaxTools,           \* MAX_XAI_TOOLS
  OfferedSchema(_),   \* provider_tool_schema
  TakenSchema(_)      \* not xai_incompatible_tool_schema

ASSUME MaxToolsAssumption == MaxTools \in Nat

\* What parse_tools builds; `ok` is false once it has returned an error.
NoTools == [ok |-> TRUE, list |-> <<>>, map |-> {}, search |-> FALSE]

Refused(t) == [t EXCEPT !.ok = FALSE]

FunctionNames(list) == {list[k].name : k \in {j \in DOMAIN list : list[j].kind = "function"}}
HasWebSearch(list) == \E k \in DOMAIN list : list[k].kind = "web_search"

Function(name, spec) == [kind |-> "function", name |-> name, spec |-> spec]

\* FunctionTool::parse and the check that its name is new.
WithFunction(t, name, tool) ==
  IF ~t.ok \/ ~tool.valid \/ tool.type # "function" \/ name \in FunctionNames(t.list)
  THEN Refused(t)
  ELSE [t EXCEPT !.list = Append(@, Function(name, tool.spec))]

\* The search tool's schema is projected where it is parsed.
WithSearch(t, tool) ==
  IF ~t.ok \/ ~tool.valid \/ SearchName \in FunctionNames(t.list)
  THEN Refused(t)
  ELSE [t EXCEPT !.search = TRUE,
                 !.list = Append(@, Function(SearchName,
                            [tool.spec EXCEPT !.schema = OfferedSchema(@)]))]

WithWebSearch(t, tool) ==
  IF ~t.ok \/ ~tool.valid \/ HasWebSearch(t.list) THEN Refused(t)
  ELSE [t EXCEPT !.list = Append(@, [kind |-> "web_search"])]

WithMember(t, namespace, tool) ==
  LET added == WithFunction(t, Flat(namespace, tool.name), tool)
  IN  IF ~added.ok \/ ~Insertable(t.map, namespace, tool.name) THEN Refused(t)
      ELSE [added EXCEPT !.map = @ \cup {Entry(namespace, tool.name)}]

WithTool(t, tool) ==
  CASE tool.type = "function" -> WithFunction(t, tool.name, tool)
    [] tool.type = "tool_search" -> WithSearch(t, tool)
    [] tool.type = "web_search" -> WithWebSearch(t, tool)
    [] tool.type = "namespace" /\ tool.valid ->
         FoldLeft(LAMBDA s, m : WithMember(s, tool.name, m), t, tool.members)
    [] OTHER -> Refused(t)

ParsedTools(list) ==
  LET t == FoldLeft(WithTool, NoTools, list)
  IN  IF Len(t.list) > MaxTools THEN Refused(t) ELSE t

-----------------------------------------------------------------------------
(* What earlier tool searches of the same history found.                    *)

\* merge_discovered_tool for a function: the same tool again changes nothing,
\* another tool of its name, or a name the map has without a tool, is an error.
WithDiscoveredFunction(t, tool, found) ==
  LET here == {e \in t.map : e.provider = tool.name}
      there == {e \in found.map : e.provider = tool.name}
      searchHere == t.search /\ tool.name = SearchName
      searchThere == found.search /\ tool.name = SearchName
      known == tool.name \in FunctionNames(t.list)
      same == /\ \E k \in DOMAIN t.list : t.list[k] = tool
              /\ here = there /\ searchHere = searchThere
      clash == \/ here # {} \/ searchHere \/ Len(t.list) >= MaxTools
               \/ \E e \in there : ~Insertable(t.map, e.namespace, e.name)
               \/ searchThere /\ t.search
  IN  IF known /\ same THEN t
      ELSE IF known \/ clash THEN Refused(t)
      ELSE [t EXCEPT !.list = Append(@, tool), !.map = @ \cup there,
                     !.search = @ \/ searchThere]

WithDiscovered(t, tool, found) ==
  IF ~t.ok THEN t
  ELSE IF tool.kind = "function" THEN WithDiscoveredFunction(t, tool, found)
  ELSE IF HasWebSearch(t.list) THEN t
  ELSE IF Len(t.list) >= MaxTools THEN Refused(t)
  ELSE [t EXCEPT !.list = Append(@, tool)]

\* Each found specification is parsed alone, then merged tool by tool, if the
\* request has a list of tools: its `field` is "absent", "null" or "list".
WithFound(t, spec, field) ==
  LET found == ParsedTools(<<spec>>)
  IN  IF ~t.ok \/ ~found.ok \/ field # "list" THEN Refused(t)
      ELSE FoldLeft(LAMBDA s, tool : WithDiscovered(s, tool, found), t, found.list)

WithOutput(t, item, field) ==
  IF item.type # "tool_search_output" THEN t
  ELSE IF ~item.valid THEN Refused(t)
  ELSE FoldLeft(LAMBDA s, spec : WithFound(s, spec, field), t, item.tools)

AdmittedTools(field, declared, items) ==
  FoldLeft(LAMBDA t, item : WithOutput(t, item, field),
           IF field = "list" THEN ParsedTools(declared) ELSE NoTools, items)

-----------------------------------------------------------------------------
(* What is sent.                                                            *)

\* validate_tool_choice
ChoiceAdmitted(choice, list) ==
  /\ choice.kind = "required" => list # <<>>
  /\ choice.kind = "function" => choice.name \in FunctionNames(list)

\* project_tool_for_xai: the search tool is always sent, another function only
\* with a schema Grok takes.
Sendable(tool) ==
  \/ tool.kind = "web_search"
  \/ tool.name = SearchName
  \/ TakenSchema(OfferedSchema(tool.spec.schema))

OfferedTool(tool) ==
  IF tool.kind = "web_search" THEN tool
  ELSE [tool EXCEPT !.spec.schema = OfferedSchema(@)]

OfferedTools(list) ==
  LET sent == SelectSeq(list, Sendable)
  IN  [k \in DOMAIN sent |-> OfferedTool(sent[k])]

=============================================================================
