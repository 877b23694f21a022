-------------------------- MODULE MCRoutePublication --------------------------
(* RoutePublication with pickers in both modes and for both upstreams, with a  *)
(* model that moves from one catalog to the other, with inputs no picker can   *)
(* be made of, and without a picker.                                           *)
EXTENDS RoutePublication

CONSTANTS n, g, h, chatgpt, openai

Row(slug, visibility, valid) == [slug |-> slug, visibility |-> visibility, valid |-> valid]
Listed(slug) == Row(slug, "list", TRUE)

First ==
  [native |-> <<Listed(n)>>, grok |-> {g}, overlay |-> TRUE, mode |-> "merged",
   model |-> n, upstream |-> chatgpt]
Moved == [First EXCEPT !.native = <<Listed(n), Row(g, "hide", TRUE)>>, !.grok = {h}]
Compatible == [First EXCEPT !.mode = "compatibility"]

MCPickers ==
  {First, Moved, Compatible, [First EXCEPT !.upstream = openai],
   [Moved EXCEPT !.grok = {g}], [First EXCEPT !.overlay = FALSE],
   [Compatible EXCEPT !.model = g], [First EXCEPT !.native = <<>>],
   [First EXCEPT !.native = <<Listed(n), Listed(n)>>],
   [First EXCEPT !.native = <<Row(n, "list", FALSE)>>]}

MCAllowlists == {{g}}

=============================================================================
