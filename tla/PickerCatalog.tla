---------------------------- MODULE PickerCatalog ----------------------------
(* What a picker is made of (picker.rs, native.rs and the two callers in    *)
(* lifecycle.rs): the merged catalog lists Native's rows and one row per    *)
(* Grok model; the compatibility catalog lists Native's rows and hides a    *)
(* copy of the fallback's row for every Grok model, which saved tasks name. *)
(* The route published with it admits exactly Native's slugs.               *)
(*                                                                          *)
(* A row of Native's catalog is its slug, its visibility and whether it     *)
(* passes validate_model_entry and NativeRouteState::validate; what else it *)
(* holds is copied.                                                         *)
EXTENDS Naturals, Sequences

CONSTANTS
  Absent,      \* no fallback, no Native route
  Models,      \* model identifiers
  Upstreams    \* ChatGptCodex and OpenAiApi

\* What install_picker and the sync read: Native's rows, the admitted Grok
\* models, the overlay for their rows, the mode, and the model of config.toml.
Inputs ==
  [native : Seq([slug : Models, visibility : {"list", "hide", "none"}, valid : BOOLEAN]),
   grok : (SUBSET Models) \ {{}}, overlay : BOOLEAN,
   mode : {"merged", "compatibility"}, model : Models, upstream : Upstreams]

NativeSlugs(p) == {p.native[k].slug : k \in DOMAIN p.native}

\* validate_model_entry for every row, and no slug twice.
NativeAdmitted(p) ==
  /\ p.native # <<>>
  /\ \A i \in DOMAIN p.native :
       /\ p.native[i].valid
       /\ \A j \in DOMAIN p.native : p.native[i].slug = p.native[j].slug => i = j

\* native_compatibility_fallback: the configured model, if Native has it.
Fallback(p) == IF p.mode = "compatibility" THEN p.model ELSE Absent

\* generate_picker_catalog; or generate_native_compatibility_catalog, its
\* fallback, and with_hidden_grok_compatibility.
Admitted(p) ==
  /\ NativeAdmitted(p)
  /\ IF p.mode = "merged" THEN p.overlay ELSE p.model \in NativeSlugs(p)
  /\ p.grok \cap NativeSlugs(p) = {}

\* grok_picker_entry, or the copy of the fallback's row.
GrokRow(p, id) ==
  [slug |-> id, visibility |-> IF p.mode = "merged" THEN "list" ELSE "hide", valid |-> TRUE]

Rows(p) == {p.native[k] : k \in DOMAIN p.native} \cup {GrokRow(p, id) : id \in p.grok}

\* NativeRouteState::new and new_native_compatibility.
RouteOf(p) == [models |-> NativeSlugs(p), fallback |-> Fallback(p), upstream |-> p.upstream]

\* The allowlist and the route that come into force with the picker.
TableOf(p) == [grok |-> p.grok, route |-> RouteOf(p)]

=============================================================================
