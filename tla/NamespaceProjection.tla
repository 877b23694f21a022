------------------------ MODULE NamespaceProjection ------------------------
(* NamespaceToolProjection of protocol.rs: the map, kept for one request,   *)
(* between the tools of a namespace as Codex names them and the flat        *)
(* function names Grok accepts.                                             *)
(*                                                                          *)
(* A name is the sequence of its parts between the delimiters "__", which   *)
(* namespaces and names may contain themselves: joining is concatenation,   *)
(* and different pairs may have the same flat name.                         *)
EXTENDS Integers, Sequences, FiniteSets

NoNamespace == <<>>
SearchName == <<"tool_search">>

\* The flat name of a pair; what has no namespace keeps its name (FunctionCall::parse).
Flat(namespace, name) ==
  IF namespace = NoNamespace THEN name ELSE namespace \o name

\* The map is the set of its entries: both hash maps of the code hold the same.
Entry(namespace, name) ==
  [provider |-> Flat(namespace, name), namespace |-> namespace, name |-> name]

Known(map, namespace, name) ==
  \E e \in map : e.namespace = namespace /\ e.name = name
Taken(map, provider) == \E e \in map : e.provider = provider

\* insert refuses a pair or a flat name it has.
Insertable(map, namespace, name) ==
  ~Known(map, namespace, name) /\ ~Taken(map, Flat(namespace, name))

\* Faulty variant: a call of a namespace that is gone is refused.
EnsurableDeclared(map, namespace, name) == Known(map, namespace, name)

\* ensure_provider_name: a replayed call of a namespace that is not declared
\* any more is entered, unless another pair has its flat name.
Ensurable(map, namespace, name) ==
  Known(map, namespace, name) \/ ~Taken(map, Flat(namespace, name))
Ensured(map, namespace, name) ==
  IF Known(map, namespace, name) THEN map ELSE map \cup {Entry(namespace, name)}

\* restore_function_item: what Codex is told a flat name stands for.
Restored(map, provider) ==
  IF Taken(map, provider)
  THEN LET e == CHOOSE x \in map : x.provider = provider
       IN  [namespace |-> e.namespace, name |-> e.name]
  ELSE [namespace |-> NoNamespace, name |-> provider]

=============================================================================
