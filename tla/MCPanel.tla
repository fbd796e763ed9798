------------------------------- MODULE MCPanel ------------------------------
(* The pages of the panel.  The models share no state, so that it is enough to  *)
(* run each while the others are at rest.  Three clicks at a time on lists,     *)
(* detail pages and previews, two in dialogs and forms; two of everything they  *)
(* handle.                                                                      *)
EXTENDS ListPages, Viewers, Previews, Dialogs, ProviderForm, TLC

CONSTANTS a, b, c1, c2, k1, k2, k3, mount, app

Symmetry == Permutations({a, b}) \cup Permutations({k1, k2, k3})

VARIABLE part   \* the part that runs
Parts == {"lists", "viewers", "previews", "dialogs", "form"}

\* One initial state of each part that has several, for when it does not run;
\* the same under every permutation of Symmetry.
ListRest == ListInit /\ page = "users" /\ rows = Nothing
ViewRest == ViewInit /\ view = "slack"
DialogRest == DialogInit /\ where = "connections" /\ \A t \in Service : saved[t] = {}
FormRest == ProviderInit /\ pform.kind = "openai"

PanelInit ==
  /\ part \in Parts
  /\ IF part = "lists" THEN ListInit ELSE ListRest
  /\ IF part = "viewers" THEN ViewInit ELSE ViewRest
  /\ PreviewInit
  /\ IF part = "dialogs" THEN DialogInit ELSE DialogRest
  /\ IF part = "form" THEN ProviderInit ELSE FormRest

PanelNext ==
  \/ /\ part = "lists" /\ ListNext
     /\ UNCHANGED <<part, viewVars, previewVars, dialogVars, providerVars>>
  \/ /\ part = "viewers" /\ ViewNext
     /\ UNCHANGED <<part, listVars, previewVars, dialogVars, providerVars>>
  \/ /\ part = "previews" /\ PreviewNext
     /\ UNCHANGED <<part, listVars, viewVars, dialogVars, providerVars>>
  \/ /\ part = "dialogs" /\ DialogNext
     /\ UNCHANGED <<part, listVars, viewVars, previewVars, providerVars>>
  \/ /\ part = "form" /\ ProviderNext
     /\ UNCHANGED <<part, listVars, viewVars, previewVars, dialogVars>>

PanelSpec == PanelInit /\ [][PanelNext]_<<part, listVars, viewVars, previewVars, dialogVars, providerVars>>
=============================================================================
