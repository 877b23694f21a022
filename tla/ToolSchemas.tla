---------------------------- MODULE ToolSchemas ----------------------------
(* What the tools of a conversation keep of their parameter schemas on the  *)
(* way to Grok (provider_tool_schema of protocol.rs).                       *)
EXTENDS Conversation, SchemaProjection

\* Arguments a schema accepts, that use only properties it declares on the way
\* to one branch; `names` are those declared so far.
RECURSIVE Accepts(_, _, _, _)
Accepts(s, root, value, names) ==
  LET declared == names \cup DOMAIN s.properties IN
  /\ s.types = {} \/ "object" \in s.types
  /\ s.required \subseteq DOMAIN value
  /\ \A n \in DOMAIN value \cap DOMAIN s.properties :
       LET p == s.properties[n] IN
       /\ p.types = {} \/ Fits(value[n], p.types)
       /\ p.literals = Nothing \/ value[n] \in p.literals
  /\ s.open = FALSE => DOMAIN value \subseteq DOMAIN s.properties
  /\ IF s.ref # Nothing
     THEN s.ref \in DOMAIN root.defs /\ Accepts(root.defs[s.ref], root, value, declared)
     ELSE IF s.union = Nothing THEN DOMAIN value \subseteq declared
     ELSE \E k \in DOMAIN s.union : Accepts(s.union[k], root, value, declared)

\* The merge sees every branch of every union, and finds one schema for each
\* property.
RECURSIVE Visible(_, _, _)
Visible(s, root, depth) ==
  /\ depth <= MaxSchemaDepth
  /\ IF s.ref # Nothing
     THEN s.ref \in DOMAIN root.defs /\ Visible(root.defs[s.ref], root, depth + 1)
     ELSE IF s.union = Nothing THEN IsObject(s)
     ELSE \A k \in DOMAIN s.union : Visible(s.union[k], root, depth + 1)

Agreeing(s) ==
  LET branches == Branches(s, s, 0, [refs |-> {}, seq |-> <<>>]).seq
  IN  \A i, j \in DOMAIN branches :
        \A n \in DOMAIN branches[i].schema.properties \cap DOMAIN branches[j].schema.properties :
          branches[i].schema.properties[n] = branches[j].schema.properties[n]

\* Arguments the declared schema accepts, the schema Grok is offered accepts,
\* as long as the branches of its unions are objects that agree on their
\* properties (provider_tool_schema, protocol.rs:1978).
CallsStayValid ==
  turn = "answer" =>
    \A k \in DOMAIN tools.list :
      tools.list[k].kind = "function" =>
        LET s == tools.list[k].spec.schema
            offered == ProviderSchema(s)
        IN  (s.union = Nothing \/ (Visible(s, s, 0) /\ Agreeing(s))) =>
              \A v \in Case.values : Accepts(s, s, v, {}) => Accepts(offered, offered, v, {})

=============================================================================
