------------------------- MODULE SchemaProjection --------------------------
(* What protocol.rs does with the parameter schema of a function before it  *)
(* is sent to Grok: literals that contradict their declared type go, a      *)
(* union or a nullable object at the root becomes one object, and a         *)
(* function whose schema Grok would still refuse is left out.               *)
(*                                                                          *)
(* A schema is a record: the declared types and whether they are a list;    *)
(* the literals of enum or const (pairs of type and value); the schemas of  *)
(* properties; the required names; the branches of anyOf or oneOf (those of  *)
(* an allOf are merged like them, but an empty allOf is no defect);         *)
(* a reference and the definitions it may name; whether other properties    *)
(* are accepted; and, in `quirks`, keywords and values Grok refuses.        *)
EXTENDS Integers, Sequences, SequencesExt

CONSTANTS
  Nothing,                \* an absent keyword
  MaxSchemaDepth,         \* MAX_TOOL_SCHEMA_DEPTH
  MaxSchemaLiteralDepth   \* MAX_TOOL_SCHEMA_LITERAL_DEPTH

Schema == [types |-> {}, listed |-> FALSE, literals |-> Nothing,
           properties |-> <<>>, required |-> {}, union |-> Nothing,
           ref |-> Nothing, defs |-> <<>>, open |-> Nothing, quirks |-> {}]

-----------------------------------------------------------------------------
(* normalize_schema_literals                                                *)

Fits(literal, types) ==
  literal[1] \in types \/ (literal[1] = "integer" /\ "number" \in types)

LiteralsKept(s) ==
  IF s.types = {} \/ s.literals = Nothing \/ s.literals = {} THEN s.literals
  ELSE LET kept == {l \in s.literals : Fits(l, s.types)}
       IN  IF kept = {} THEN Nothing ELSE kept

RECURSIVE Normalized(_, _)
Normalized(s, depth) ==
  IF depth > MaxSchemaLiteralDepth THEN s
  ELSE [s EXCEPT
    !.literals = LiteralsKept(s),
    !.properties = [n \in DOMAIN @ |-> Normalized(@[n], depth + 1)],
    !.defs = [n \in DOMAIN @ |-> Normalized(@[n], depth + 1)],
    !.union = IF @ = Nothing THEN Nothing
              ELSE [k \in DOMAIN @ |-> Normalized(@[k], depth + 1)]]

-----------------------------------------------------------------------------
(* object_root_tool_schema                                                  *)

HasRootUnion(s) == s.union # Nothing
HasNullableObjectRoot(s) == s.listed /\ "object" \in s.types

IsObject(s) == (~s.listed /\ s.types = {"object"}) \/ s.properties # <<>>

\* collect_object_schema_branches: the schemas in the order they are found,
\* and the references followed; a reference is followed once.
RECURSIVE Branches(_, _, _, _)
Branches(s, root, depth, found) ==
  IF depth > MaxSchemaDepth THEN found
  ELSE IF s.ref # Nothing
  THEN IF s.ref \in found.refs THEN found
       ELSE LET entered == [found EXCEPT !.refs = @ \cup {s.ref}]
            IN  IF s.ref \in DOMAIN root.defs
                THEN Branches(root.defs[s.ref], root, depth + 1, entered)
                ELSE entered
  ELSE LET children == IF s.union = Nothing THEN <<>> ELSE s.union
           below == FoldLeft(LAMBDA f, c : Branches(c, root, depth + 1, f),
                             found, children)
       IN  IF IsObject(s) THEN [below EXCEPT !.seq = Append(@, [schema |-> s, root |-> depth = 0])]
           ELSE below

\* A property keeps the schema of the first branch that has it.
PropertiesMerged(own, branches) ==
  FoldLeft(LAMBDA props, b :
             [n \in DOMAIN props \cup DOMAIN b.schema.properties |->
                IF n \in DOMAIN props THEN props[n] ELSE b.schema.properties[n]],
           own, branches)

\* Faulty variant: what one branch requires is required.
RequiredOfAny(own, united) ==
  own \cup UNION {united[k].schema.required : k \in DOMAIN united}

\* Required is what the root requires, and what every branch requires.
RequiredMerged(own, united) ==
  own \cup (IF united = <<>> THEN {}
            ELSE {n \in united[1].schema.required :
                    \A k \in DOMAIN united : n \in united[k].schema.required})

ObjectRoot(s) ==
  LET branches == Branches(s, s, 0, [refs |-> {}, seq |-> <<>>]).seq
      united == SelectSeq(branches, LAMBDA b : ~b.root)
  IN [Schema EXCEPT
        !.types = {"object"},
        !.properties = PropertiesMerged(s.properties, branches),
        !.required = RequiredMerged(s.required, united),
        !.defs = s.defs,
        !.open = IF united # <<>> \/ s.open = Nothing THEN TRUE ELSE s.open]

\* provider_tool_schema
ProviderSchema(s) ==
  LET n == Normalized(s, 0)
  IN  IF HasRootUnion(n) \/ HasNullableObjectRoot(n) THEN ObjectRoot(n) ELSE n

-----------------------------------------------------------------------------
(* xai_incompatible_tool_schema                                             *)

Defective(s, root, isProperty) ==
  \/ s.ref # Nothing /\ s.ref \notin DOMAIN root.defs
  \/ s.union = <<>> \/ s.literals = {}
  \/ s.quirks \cap {"maxContains", "minContains", "tuple_items"} # {}
  \/ isProperty /\ "boolean" \in s.quirks

RECURSIVE Incompatible(_, _, _, _)
Incompatible(s, root, depth, isProperty) ==
  /\ depth <= MaxSchemaLiteralDepth
  /\ \/ Defective(s, root, isProperty)
     \/ \E n \in DOMAIN s.properties : Incompatible(s.properties[n], root, depth + 1, TRUE)
     \/ \E n \in DOMAIN s.defs : Incompatible(s.defs[n], root, depth + 1, FALSE)
     \/ s.union # Nothing /\
          \E k \in DOMAIN s.union : Incompatible(s.union[k], root, depth + 1, FALSE)

\* Whether Grok takes a function with this schema.
GrokTakes(s) == ~Incompatible(s, s, 0, FALSE)

=============================================================================
