----------------------------- MODULE ChatModel -----------------------------
(***************************************************************************)
(* The model selector of the chat page: the provider it shows, the one the     *)
(* open conversation is stored with, which the gateway will be asked for, and  *)
(* the answers that change either: providers loaded on mount and on every      *)
(* focus, conversations opened, created and moved to another provider.         *)
(* A conversation whose provider was deleted is left out.  Messages and        *)
(* attachments are in module ChatPage.                                         *)
(***************************************************************************)
EXTENDS Naturals

CONSTANTS Prov, Talk, MClick, Mounts, Unset   \* Mounts: the two loads of the page's effect
ASSUME ModelAssumption == Unset \notin Prov \cup Talk

VARIABLES usable,     \* the API: providers this user can use
          provider,   \* the API: each conversation's; Unset for one that is not there
          providers,  \* the page: usableProviders
          conversations, activeTalk, selectedProvider,
          work,       \* what each handler has reached
          behind,     \* history: a reload of the list failed, no later one came
          upset     \* history: handlers overlapped, one failed, or a load took the model away
pageState == <<providers, conversations, activeTalk, selectedProvider>>
modelVars == <<usable, provider, pageState, work, behind, upset>>

NoWork == [at |-> "none"]
Steady == \A c \in MClick : work[c] = NoWork
Does(c, w) == work[c] = NoWork /\ work' = [work EXCEPT ![c] = w]
Then(c, w) == work' = [work EXCEPT ![c] = w]

\* The effect on mount loads the providers and the conversations.
ModelInit ==
  /\ usable \in SUBSET Prov /\ provider \in [Talk -> Prov \cup {Unset}]
  /\ providers = {} /\ conversations = [t \in Talk |-> Unset]
  /\ activeTalk = Unset /\ selectedProvider = Unset
  /\ \E l \in Mounts :
       work = [c \in MClick |-> IF c \notin Mounts THEN NoWork
                                ELSE [at |-> IF c = l THEN "list" ELSE "providers"]]
  /\ behind = TRUE /\ upset = FALSE

-----------------------------------------------------------------------------
(* loadProviders *)

onFocus(c) == /\ Does(c, [at |-> "providers"])
              /\ UNCHANGED <<usable, provider, pageState, behind, upset>>

ProvidersRead(c) ==
  /\ work[c].at = "providers" /\ Then(c, [at |-> "providersRead", got |-> usable])
  /\ UNCHANGED <<usable, provider, pageState, behind, upset>>

\* The selection stays if it can still be used, or is the first that can.
Kept(ps) == IF selectedProvider \in ps THEN {selectedProvider}
            ELSE IF ps = {} THEN {Unset} ELSE ps

Creating == \E c \in MClick : work[c].at \in {"create", "created"}
ProvidersLoaded(c) ==
  /\ work[c].at = "providersRead" /\ Then(c, NoWork)
  /\ providers' = work[c].got /\ selectedProvider' \in Kept(work[c].got)
  /\ upset' = (upset \/ (selectedProvider' # selectedProvider /\ (activeTalk # Unset \/ Creating)))
  /\ UNCHANGED <<usable, provider, conversations, activeTalk, behind>>

\* An administrator, or the user's own key, makes a provider usable or not.
UsableChanges(p) ==
  /\ usable' = IF p \in usable THEN usable \ {p} ELSE usable \cup {p}
  /\ UNCHANGED <<provider, pageState, work, behind, upset>>

-----------------------------------------------------------------------------
(* refreshConversations, the tail of every handler that changes one *)

ListRead(c) ==
  /\ work[c].at = "list" /\ Then(c, [at |-> "listRead", got |-> provider])
  /\ UNCHANGED <<usable, provider, pageState, behind, upset>>

ListShown(c) ==
  /\ work[c].at = "listRead" /\ Then(c, NoWork)
  /\ conversations' = work[c].got /\ behind' = (conversations' # provider)
  /\ UNCHANGED <<usable, provider, providers, activeTalk, selectedProvider, upset>>

-----------------------------------------------------------------------------
(* Conversations *)

Rows == {t \in Talk : conversations[t] # Unset}

\* The provider is looked up, when the messages have come, in the list of the click.
openTalk(c, t) ==
  /\ t \in Rows /\ Does(c, [at |-> "open", talk |-> t, prov |-> conversations[t]])
  /\ activeTalk' = t /\ upset' = (behind \/ ~Steady)
  /\ UNCHANGED <<usable, provider, providers, conversations, selectedProvider, behind>>

\* Mutant: the selector stays as it is.
OpenedKeeping(c) ==
  /\ work[c].at = "open" /\ Then(c, NoWork)
  /\ UNCHANGED <<usable, provider, pageState, behind, upset>>

Opened(c) ==
  /\ work[c].at = "open" /\ Then(c, NoWork) /\ selectedProvider' = work[c].prov
  /\ UNCHANGED <<usable, provider, providers, conversations, activeTalk, behind, upset>>

newTalk ==
  /\ activeTalk # Unset /\ activeTalk' = Unset /\ upset' = ~Steady
  /\ UNCHANGED <<usable, provider, providers, conversations, selectedProvider, work, behind>>

\* send and attachFile, without an open conversation: one is created with the
\* provider selected at the click.
Create(c) ==
  /\ activeTalk = Unset /\ selectedProvider # Unset
  /\ Does(c, [at |-> "create", prov |-> selectedProvider])
  /\ upset' = (upset \/ ~Steady)
  /\ UNCHANGED <<usable, provider, pageState, behind>>

TalkStored(c, t) ==
  /\ work[c].at = "create" /\ provider[t] = Unset
  /\ provider' = [provider EXCEPT ![t] = work[c].prov] /\ Then(c, [at |-> "created", talk |-> t])
  /\ UNCHANGED <<usable, pageState, behind, upset>>

TalkCreated(c) ==
  /\ work[c].at = "created" /\ activeTalk' = work[c].talk /\ Then(c, [at |-> "list"])
  /\ UNCHANGED <<usable, provider, providers, conversations, selectedProvider, behind, upset>>

\* The menu offers the usable providers; an open conversation is moved.
Menu == providers

switchProvider(c, p) ==
  /\ p \in Menu /\ selectedProvider' = p
  /\ IF activeTalk = Unset THEN UNCHANGED work
     ELSE Does(c, [at |-> "patch", talk |-> activeTalk, prov |-> p])
  /\ upset' = (upset \/ ~Steady)
  /\ UNCHANGED <<usable, provider, providers, conversations, activeTalk, behind>>

\* patch_conversation; the list is loaded again (twice, with one effect).
Patched(c) ==
  /\ work[c].at = "patch" /\ Then(c, [at |-> "list"])
  /\ provider' = [provider EXCEPT ![work[c].talk] = work[c].prov]
  /\ UNCHANGED <<usable, pageState, behind, upset>>

\* Any call fails, before or after it took effect; nothing is undone.
WorkFails(c) ==
  /\ work[c] # NoWork /\ Then(c, NoWork)
  /\ behind' = (behind \/ conversations # provider \/ work[c].at \in {"list", "listRead"})
  /\ upset' = (upset \/ work[c].at \in {"open", "create", "created", "patch"})
  /\ UNCHANGED <<usable, provider, pageState>>

ModelNext ==
  \/ newTalk \/ \E p \in Prov : UsableChanges(p)
  \/ \E c \in MClick : \/ onFocus(c) \/ ProvidersRead(c) \/ ProvidersLoaded(c)
                       \/ ListRead(c) \/ ListShown(c) \/ Opened(c) \/ Create(c) \/ TalkCreated(c)
                       \/ Patched(c) \/ WorkFails(c)
                       \/ \E t \in Talk : openTalk(c, t) \/ TalkStored(c, t)
                       \/ \E p \in Prov : switchProvider(c, p)
ModelSpec == ModelInit /\ [][ModelNext]_modelVars

-----------------------------------------------------------------------------
(* Properties *)

\* When nothing is under way the selector shows the provider that the open
\* conversation is stored with, which is the one that answers, whatever was
\* opened, created and switched before, unless handlers overlapped, one failed,
\* or a load found the model unusable (openTalk, switchProvider).
ModelShown ==
  Steady /\ ~upset /\ activeTalk # Unset => selectedProvider = provider[activeTalk]
=============================================================================
