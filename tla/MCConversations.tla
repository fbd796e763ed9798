--------------------------- MODULE MCConversations --------------------------
(* The chat: the routes of the API, the page's messages and model selector, the *)
(* session, the tabs that share it, and the settings of all pages.  The models  *)
(* share no state, so that it is enough to run each while the others are at     *)
(* rest.  Two calls, two loads, two requests with four tokens, two handlers,    *)
(* two tabs; two conversations, providers, persons.                             *)
EXTENDS Conversations, ChatPage, PanelSession, ChatModel, PanelShell, SettingsPages

CONSTANTS a, b, x, y, c1, c2, boot, mount

Symmetry == Permutations({a, b}) \cup Permutations({c1, c2})

VARIABLE part   \* the part that runs
Parts == {"routes", "page", "session", "model", "shell", "settings"}

\* One early state of each part that may begin in several, for when it does not run;
\* the same under every permutation of Symmetry.
RoutesRest == Init /\ \A r \in Call : conv[r] = x /\ ~stream[r] /\ ~image[r]
ModelRest ==     \* the loads on mount are over
  /\ usable = {} /\ provider = [t \in Talk |-> Unset] /\ providers = {}
  /\ conversations = [t \in Talk |-> Unset] /\ activeTalk = Unset /\ selectedProvider = Unset
  /\ work = [c \in MClick |-> NoWork] /\ behind = FALSE /\ upset = FALSE
ShellRest == ShellInit /\ \A p \in Person : ~must[p] /\ rank[p] = "member"
SettingsRest == SettingsInit /\ site = "policy" /\ masked /\ tint = 0

\* The settings start with the defaults, and another theme in the tab.
SettingsStart == SettingsInit /\ tint = 1 /\ server = SETTING_DEFAULTS

ChatInit ==
  /\ part \in Parts
  /\ IF part = "routes" THEN Init ELSE RoutesRest
  /\ PageInit
  /\ SessionInit
  /\ IF part = "model" THEN ModelInit ELSE ModelRest
  /\ IF part = "shell" THEN ShellInit ELSE ShellRest
  /\ IF part = "settings" THEN SettingsStart ELSE SettingsRest

ChatNext ==
  \/ /\ part = "routes" /\ Next
     /\ UNCHANGED <<part, pageVars, sessionVars, modelVars, shellVars, settingsVars>>
  \/ /\ part = "page" /\ PageNext
     /\ UNCHANGED <<part, vars, sessionVars, modelVars, shellVars, settingsVars>>
  \/ /\ part = "session" /\ SessionNext
     /\ UNCHANGED <<part, vars, pageVars, modelVars, shellVars, settingsVars>>
  \/ /\ part = "model" /\ ModelNext
     /\ UNCHANGED <<part, vars, pageVars, sessionVars, shellVars, settingsVars>>
  \/ /\ part = "shell" /\ ShellNext
     /\ UNCHANGED <<part, vars, pageVars, sessionVars, modelVars, settingsVars>>
  \/ /\ part = "settings" /\ SettingsNext
     /\ UNCHANGED <<part, vars, pageVars, sessionVars, modelVars, shellVars>>

ChatSpec == ChatInit /\ [][ChatNext]_<<part, vars, pageVars, sessionVars, modelVars, shellVars, settingsVars>>
=============================================================================
