------------------------------ MODULE Dialogs ------------------------------
(***************************************************************************)
(* The two dialogs of the panel that take secrets: "connect your account" on   *)
(* the connections page and the configuration of a marketplace app.  Each page *)
(* has one dialog and one input, whatever it is opened for, and calls of       *)
(* earlier openings and saves that end while it is open.  The reload of the    *)
(* cards after a change is in module ListPages.                                *)
(*                                                                             *)
(* A text is the set of what it was typed for: {} is empty, {a, b} a mixture.  *)
(* The form of an app is one text, though it may have several fields; a stored *)
(* secret comes back as a placeholder, which install leaves as it was stored.  *)
(***************************************************************************)
EXTENDS Naturals

CONSTANTS Service,   \* provider types, apps
          Guided,   \* apps with a step-by-step guide
          DClick,   \* runs of the handlers that make a call
          NoService
ASSUME DialogAssumption == Guided \subseteq Service /\ NoService \notin Service

VARIABLES where,      \* "connections", "marketplace"; "left" after connectOAuth
          open,       \* editType, configuring
          step, input,
          saving, saveError, notice,
          call,
          saved,     \* the API's keys and configurations
          mixed       \* history: a load failed with another app's text in the form
dialogVars == <<where, open, step, input, saving, saveError, notice, call, saved, mixed>>
formVars == <<open, step, input>>
signVars == <<saving, saveError, notice>>

NoCall == [at |-> "idle"]
Started(c, do, t) == /\ call[c] = NoCall
                     /\ call' = [call EXCEPT ![c] = [at |-> do, for |-> t, text |-> input]]
Reaches(c, at) == call' = [call EXCEPT ![c].at = at]
Finished(c) == call' = [call EXCEPT ![c] = NoCall]

DialogTypeOK ==
  /\ where \in {"connections", "marketplace", "left"}
  /\ open \in Service \cup {NoService} /\ step \in {"guide", "form"} /\ input \subseteq Service
  /\ saving \in BOOLEAN /\ saveError \in Service \cup {NoService} /\ notice \in Service \cup {NoService}
  /\ saved \in [Service -> SUBSET Service] /\ mixed \in BOOLEAN

DialogInit ==
  /\ where \in {"connections", "marketplace"}
  /\ open = NoService /\ step = (IF where = "connections" THEN "guide" ELSE "form") /\ input = {}
  /\ saving = FALSE /\ saveError = NoService /\ notice = NoService
  /\ call = [c \in DClick |-> NoCall]
  /\ saved \in {f \in [Service -> SUBSET Service] : \A t \in Service : f[t] \subseteq {t}}
  /\ mixed = FALSE

\* The dialog covers the page: no card can be clicked behind it.  Whether a card
\* has a delete button, or shows its app as installed, is what the last load said,
\* which may be anything by now.
CardButtons == IF open # NoService \/ where # "connections" THEN {} ELSE {"connect", "delete"}
OauthButtons == IF open = NoService /\ where = "connections" THEN {"oauth"} ELSE {}
AppButtons == IF open # NoService \/ where # "marketplace" THEN {} ELSE {"openConfig"}

\* What can be done in the dialog, step by step.
Controls ==
  IF open = NoService \/ where = "left" THEN {}
  ELSE IF step = "guide" THEN {"close", "next"}
  ELSE {"close", "type"} \cup (IF where = "connections" \/ open \in Guided THEN {"back"} ELSE {})
       \cup (IF where = "marketplace" THEN {"install"} ELSE {"saveKey"})

-----------------------------------------------------------------------------
(* Connections *)

openConnect(t) ==
  /\ "connect" \in CardButtons
  /\ open' = t /\ step' = "guide" /\ input' = {} /\ saveError' = NoService
  /\ UNCHANGED <<where, saving, notice, call, saved, mixed>>

closeConnect == open' = NoService /\ input' = {} /\ saveError' = NoService /\ UNCHANGED step

CloseConnect == /\ where = "connections" /\ "close" \in Controls /\ closeConnect
                /\ UNCHANGED <<where, saving, notice, call, saved, mixed>>

\* The button waits for `saving`, Enter does not.
saveKey(c) ==
  /\ "saveKey" \in Controls /\ input # {} /\ Started(c, "put", open)
  /\ saving' = TRUE /\ saveError' = NoService
  /\ UNCHANGED <<where, formVars, notice, saved, mixed>>

\* upsert_own_key stores a key that the provider accepts.
KeyStored(c) ==
  /\ call[c].at = "put" /\ saved' = [saved EXCEPT ![call[c].for] = call[c].text]
  /\ Reaches(c, "saved") /\ UNCHANGED <<where, formVars, signVars, mixed>>

\* Whatever dialog is open by now is closed; the notice names the saved type.
KeySaved(c) ==
  /\ call[c].at = "saved" /\ closeConnect /\ notice' = call[c].for
  /\ Reaches(c, "reload") /\ UNCHANGED <<where, saving, saved, mixed>>

\* The key is refused, an answer is lost or the reload fails.
KeyFails(c) ==
  /\ call[c].at \in {"put", "saved", "reload"} /\ saveError' = call[c].for
  /\ saving' = FALSE /\ Finished(c) /\ UNCHANGED <<where, formVars, notice, saved, mixed>>

KeyDone(c) == /\ call[c].at = "reload" /\ saving' = FALSE /\ Finished(c)
              /\ UNCHANGED <<where, formVars, saveError, notice, saved, mixed>>

\* Some save's timer of 10 seconds.
NoticeOver == /\ notice # NoService /\ notice' = NoService
              /\ UNCHANGED <<where, formVars, saving, saveError, call, saved, mixed>>

deleteOwnKey(c, t) == /\ "delete" \in CardButtons /\ Started(c, "delete", t)
                      /\ UNCHANGED <<where, formVars, signVars, saved, mixed>>

KeyDeleted(c) == /\ call[c].at = "delete" /\ saved' = [saved EXCEPT ![call[c].for] = {}]
                 /\ Finished(c) /\ UNCHANGED <<where, formVars, signVars, mixed>>

\* The page is left for the provider's consent page.
connectOAuth(c, t) == /\ "oauth" \in OauthButtons /\ Started(c, "start", t)
                      /\ UNCHANGED <<where, formVars, signVars, saved, mixed>>
Redirected(c) == /\ call[c].at = "start" /\ where' = "left" /\ call' = [d \in DClick |-> NoCall]
                 /\ UNCHANGED <<formVars, signVars, saved, mixed>>

CallFails(c) == /\ call[c].at \in {"delete", "start", "install", "installed"} /\ Finished(c)
                /\ UNCHANGED <<where, formVars, signVars, saved, mixed>>

-----------------------------------------------------------------------------
(* Marketplace *)

Shown(t) == open' = t /\ step' = IF t \in Guided THEN "guide" ELSE "form"

\* The form is emptied; the configuration of an app shown as installed is loaded
\* before the dialog opens.
openConfig(c, t) ==
  /\ AppButtons # {} /\ input' = {}
  /\ \/ Shown(t) /\ UNCHANGED call
     \/ /\ call[c] = NoCall /\ UNCHANGED <<open, step>>
        /\ call' = [call EXCEPT ![c] = [at |-> "load", for |-> t, text |-> {}]]
  /\ UNCHANGED <<where, signVars, saved, mixed>>

\* Mutant: the configuration goes into whatever dialog is open.
ConfigLoadedForm(c) ==
  /\ call[c].at = "load" /\ input' = saved[call[c].for] /\ UNCHANGED <<open, step>>
  /\ Finished(c) /\ UNCHANGED <<where, signVars, saved, mixed>>

ConfigLoaded(c) ==
  /\ call[c].at = "load" /\ input' = saved[call[c].for] /\ Shown(call[c].for)
  /\ Finished(c) /\ UNCHANGED <<where, signVars, saved, mixed>>

\* The failure is ignored: the dialog opens with the form as it is.
ConfigFails(c) ==
  /\ call[c].at = "load" /\ Shown(call[c].for) /\ mixed' = (mixed \/ ~(input \subseteq {call[c].for}))
  /\ Finished(c) /\ UNCHANGED <<where, input, signVars, saved>>

closeConfig == open' = NoService /\ input' = {} /\ UNCHANGED step

CloseConfig == /\ where = "marketplace" /\ "close" \in Controls /\ closeConfig
               /\ UNCHANGED <<where, signVars, call, saved, mixed>>

install(c) == /\ "install" \in Controls /\ Started(c, "install", open)
              /\ UNCHANGED <<where, formVars, signVars, saved, mixed>>

\* The API merges the configurations and refuses one that lacks a field.
Installed(c) ==
  LET t == call[c].for IN
  /\ call[c].at = "install" /\ saved[t] \cup call[c].text # {}
  /\ saved' = [saved EXCEPT ![t] = @ \cup call[c].text]
  /\ Reaches(c, "installed") /\ UNCHANGED <<where, formVars, signVars, mixed>>

InstallAnswered(c) == /\ call[c].at = "installed" /\ closeConfig /\ Finished(c)
                      /\ UNCHANGED <<where, signVars, saved, mixed>>

\* A DELETE of uninstall is served, whatever has been opened since the click.
Uninstalled(t) == /\ where = "marketplace" /\ saved[t] # {} /\ saved' = [saved EXCEPT ![t] = {}]
                  /\ UNCHANGED <<where, formVars, signVars, call, mixed>>

-----------------------------------------------------------------------------
(* Both dialogs *)

SetStep == /\ \/ "next" \in Controls /\ step' = "form"
              \/ "back" \in Controls /\ step' = "guide"
           /\ UNCHANGED <<where, open, input, signVars, call, saved, mixed>>

Type == /\ "type" \in Controls /\ input' = input \cup {open}
        /\ UNCHANGED <<where, open, step, signVars, call, saved, mixed>>

DialogNext ==
  \/ CloseConnect \/ NoticeOver \/ CloseConfig \/ SetStep \/ Type
  \/ \E t \in Service : openConnect(t) \/ Uninstalled(t)
  \/ \E c \in DClick : \/ saveKey(c) \/ KeyStored(c) \/ KeySaved(c) \/ KeyFails(c) \/ KeyDone(c)
                       \/ KeyDeleted(c) \/ Redirected(c) \/ CallFails(c)
                       \/ ConfigLoaded(c) \/ ConfigFails(c)
                       \/ install(c) \/ Installed(c) \/ InstallAnswered(c)
                       \/ \E t \in Service : deleteOwnKey(c, t) \/ connectOAuth(c, t) \/ openConfig(c, t)
DialogSpec == DialogInit /\ [][DialogNext]_dialogVars

-----------------------------------------------------------------------------
(* Properties *)

\* A key or configuration is saved for nothing but what it was typed for, or
\* loaded from, however openings, answers and saves interleave, unless the load
\* of an app's configuration failed while another app's was in the form
\* (saveKey, openConfig, install); and the save button is not left disabled.
DialogsSound ==
  /\ mixed \/ \A t \in Service : saved[t] \subseteq {t}
  /\ saving => where = "left" \/ \E c \in DClick : call[c].at \in {"put", "saved", "reload"}
=============================================================================
