--------------------------- MODULE MCConversation --------------------------
(* Conversation on small instances: each scenario has the items, the tools  *)
(* and the models one part of the projection is about.                      *)
EXTENDS ToolSchemas, TLC

Text(text) == [text |-> text, schema |-> [Schema EXCEPT !.types = {"object"}]]
Plain(name, spec) == [type |-> "function", valid |-> TRUE, name |-> name, spec |-> spec]
Namespace(name, members) ==
  [type |-> "namespace", valid |-> TRUE, name |-> name, members |-> members]
Search == [type |-> "tool_search", valid |-> TRUE, spec |-> Text("find tools")]
WebSearch == [type |-> "web_search", valid |-> TRUE]

Catalog(list) == [field |-> "list", list |-> list, choice |-> [kind |-> "auto"]]

Run == Plain(<<"run">>, Text("run"))
Mail == Namespace(<<"mail">>, <<Plain(<<"read">>, Text("read"))>>)
Integer(n) == [float |-> FALSE, halves |-> 2 * n]
Float(halves) == [float |-> TRUE, halves |-> halves]
MadeOf(name) == [name |-> name, number |-> Integer(1)]
NamedCall(namespace, name) ==
  Call("none", [namespace |-> namespace, name |-> name], MadeOf(Flat(namespace, name)), 1)

MailRead == [namespace |-> <<"mail">>, name |-> <<"read">>]

Quiet == [items |-> 5, seeds |-> {<<UserMessage>>}, catalogs |-> {Catalog(<<>>)},
          finds |-> {<<>>}, odd |-> {}, repeats |-> FALSE, ciphers |-> {"raw"},
          names |-> {}, numbers |-> {Integer(1)}, native |-> FALSE, values |-> {}]

\* Parallel calls, comments, and results in any order, some twice.
Batches == [Quiet EXCEPT !.items = 7, !.catalogs = {Catalog(<<Run>>)}, !.repeats = TRUE]

\* A history cut so that it begins in the middle of a batch.
Cut == [Batches EXCEPT !.seeds = {<<NamedCall(<<"mail">>, <<"read">>)>>}, !.items = 6]

\* Turns of both models, with a namespace that is declared or not.
Switching == [Quiet EXCEPT !.catalogs = {Catalog(<<Mail, WebSearch>>), Catalog(<<>>)},
                           !.ciphers = {"raw", "null"}, !.names = {MailRead},
                           !.native = TRUE]

\* Tool searches that find a namespace, again and again, declared or not.
Searching == [Quiet EXCEPT !.catalogs = {Catalog(<<Search>>), Catalog(<<Search, Mail>>)},
                           !.finds = {<<>>, <<Mail>>, <<Mail, WebSearch>>}, !.native = TRUE]

\* Arguments of every size an integer can have, as integers, floats and between.
Numbers == [Quiet EXCEPT
  !.catalogs = {Catalog(<<Run, Search, Mail>>)}, !.names = {MailRead}, !.items = 2, !.native = TRUE,
  !.numbers = {Integer(n) : n \in {0, MaxInt}} \cup {Float(h) : h \in -2 * MaxInt - 2 .. 2 * MaxInt}]

\* Items of agents, of newer versions, and of Native models before this bridge.
AgentMessage(parts) ==
  [type |-> "agent_message", valid |-> TRUE, parts |-> parts, id |-> "none"]
Newer == [type |-> "compaction", valid |-> TRUE, id |-> "none"]
Foreign == [Quiet EXCEPT
  !.odd = {AgentMessage({"input_text"}), AgentMessage({"encrypted_content"}), Newer,
           Reasoning("native", "foreign"), CustomCall(1), CustomOutput(1)},
  !.items = 4]

\* Items the parser refuses, each for a reason of its own.
Malformed == [Quiet EXCEPT
  !.odd = {[UserMessage EXCEPT !.role = "system"],
           [UserMessage EXCEPT !.phase = "commentary"],
           [UserMessage EXCEPT !.parts = {"output_text"}],
           [AssistantMessage("grok") EXCEPT !.phase = "null"],
           Reasoning("grok", "bare"), AgentMessage({"input_image"}),
           [SearchCall("none", MadeOf(SearchName), 1) EXCEPT !.valid = FALSE],
           [SearchOutput(1, <<>>) EXCEPT !.valid = FALSE],
           [SearchOutput(1, <<Mail>>) EXCEPT !.tools = <<[Mail EXCEPT !.valid = FALSE]>>],
           NamedCall(<<"mail", "read">>, <<"all">>),
           NamedCall(<<"mail">>, <<"read", "all">>),
           Output(9)},
  !.items = 3]

\* Lists of tools that are refused, or at the limit, and choices of a tool.
Unsendable == Plain(<<"odd">>, [Text("odd") EXCEPT !.schema.quirks = {"tuple_items"}])
Lists == {<<Run, Run>>, <<Search, Search>>, <<WebSearch, WebSearch>>, <<Mail, Mail>>,
          <<Plain(<<"mail", "read">>, Text("plain")), Mail>>,
          <<[WebSearch EXCEPT !.valid = FALSE]>>, <<[type |-> "other", valid |-> TRUE]>>,
          <<Run, Mail, Search, WebSearch>>, <<Run, Mail, Search>>, <<Unsendable>>,
          <<Unsendable, Search, Mail>>, <<Search, Plain(<<"mail", "read">>, Text("plain"))>>}
Declared == [Quiet EXCEPT
  !.catalogs = {[field |-> f, list |-> l, choice |-> c] :
                  f \in {"list"}, l \in Lists,
                  c \in {[kind |-> "auto"], [kind |-> "required"],
                         [kind |-> "function", name |-> <<"odd">>]}}
               \cup {[field |-> f, list |-> <<>>, choice |-> c] :
                  f \in {"absent", "null"}, c \in {[kind |-> "auto"], [kind |-> "required"]}},
  !.seeds = {<<UserMessage>>, <<SearchCall("native", MadeOf(SearchName), 1)>>},
  !.finds = {<<Mail>>, <<Run>>, <<WebSearch>>, <<Search>>,
             <<Plain(<<"run">>, Text("other"))>>, <<Plain(<<"mail", "read">>, Text("read"))>>},
  !.items = 3]

\* Schemas of one function: objects, unions of branches, references.
AnyText == [Schema EXCEPT !.types = {"string"}]
One(l) == [AnyText EXCEPT !.literals = {l}]
Object(properties, required) ==
  [Schema EXCEPT !.types = {"object"}, !.properties = properties, !.required = required]
Loose == [Schema EXCEPT !.required = {"b"}]
Base == {Object([a |-> One(<<"string", "x">>)], {"a"}),
         Object([b |-> AnyText], {"b"}), Object([b |-> AnyText], {}),
         Object([a |-> One(<<"string", "y">>), b |-> AnyText], {"a", "b"}),
         [Schema EXCEPT !.ref = "d"], [Schema EXCEPT !.ref = "gone"], Loose, AnyText}
Branch == Base \cup {[Schema EXCEPT !.union = <<p, q>>] : p, q \in Base}
Root == [Object([c |-> [AnyText EXCEPT !.literals = {<<"string", "x">>, <<"integer", "1">>}]], {})
           EXCEPT !.defs = [d |-> Object([a |-> AnyText, c |-> AnyText], {"a"})]]
Schemas ==
  {[Root EXCEPT !.union = <<p, q>>, !.required = r, !.open = o] :
     p \in Base, q \in Branch, r \in {{}, {"c"}}, o \in {Nothing, FALSE}}
  \cup {[Root EXCEPT !.listed = TRUE, !.types = {"object", "null"}], Root,
        [Root EXCEPT !.properties = [c |-> One(<<"integer", "1">>)]],
        [Root EXCEPT !.quirks = {"minContains"}], [Root EXCEPT !.union = <<>>],
        [Root EXCEPT !.properties = [c |-> [Schema EXCEPT !.quirks = {"boolean"}]]]}
Literals == {<<"string", "x">>, <<"string", "y">>, <<"integer", "1">>}
Values == UNION {[d -> Literals] : d \in SUBSET {"a", "b", "c"}}
Shapes == [Quiet EXCEPT
  !.catalogs = {Catalog(<<Plain(<<"f">>, [text |-> "f", schema |-> s])>>) : s \in Schemas},
  !.items = 1, !.values = Values]

Scenarios0 ==
  [batches |-> Batches, cut |-> Cut, switching |-> Switching, searching |-> Searching,
   numbers |-> Numbers,
   foreign |-> Foreign, malformed |-> Malformed, declared |-> Declared, shapes |-> Shapes]

\* All of them are legal, except the two that are made of what is refused.
ASSUME LegalScenariosAssumption ==
  LegalScenarios = DOMAIN Scenarios \ {"malformed", "declared"}
=============================================================================
