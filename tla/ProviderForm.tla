---------------------------- MODULE ProviderForm ----------------------------
(***************************************************************************)
(* The form for a new LLM provider: choosing the type replaces the preset      *)
(* values that the user has left alone, submitting sends the credentials of    *)
(* the chosen mode only, and the answer puts the form of the submission back.  *)
(* The list below the form is in module ListPages.                             *)
(*                                                                             *)
(* The preset of a type is the type itself; "typed" is any other text of the   *)
(* user's, "" an emptied field.  A credential is the number of the keystroke   *)
(* that entered it, 0 if there is none.                                        *)
(***************************************************************************)
EXTENDS Naturals

CONSTANTS Kind,      \* types: openai, anthropic, gemini
          Preset,    \* fields with a preset: name and the three models
          Required,  \* those that must not be empty: name, default_model
          FClick,
          MaxKeys    \* bound: credentials entered
ASSUME FormAssumption == Required \subseteq Preset /\ Kind \cap {"", "typed"} = {}

VARIABLES pform,     \* the form
          submits,    \* what each run of create has reached, with its form
          used,      \* keys of the providers the API has stored
          reused,    \* history: a key was stored for a second one
          touched,   \* fields the user typed in since their preset was put there
          keys, overlapped
providerVars == <<pform, submits, used, reused, touched, keys, overlapped>>

Presets(k) == [f \in Preset |-> k]
NoSubmit == [at |-> "none"]
Free == \A c \in FClick : submits[c] = NoSubmit

ProviderInit ==
  /\ \E k \in Kind :
       pform = [kind |-> k, mode |-> "api_key", text |-> Presets(k), api_key |-> 0, oauth |-> 0]
  /\ submits = [c \in FClick |-> NoSubmit]
  /\ used = {} /\ reused = FALSE /\ touched = {} /\ keys = 0 /\ overlapped = FALSE

-----------------------------------------------------------------------------
(* set *)

\* Mutant: compared with the preset of the new type.
ReplacedNew(k) == [f \in Preset |-> IF pform.text[f] = k THEN k ELSE pform.text[f]]

\* A field that holds the preset of the old type gets that of the new one.
Replaced(k) == [f \in Preset |-> IF pform.text[f] = pform.kind THEN k ELSE pform.text[f]]

setType(k) ==
  /\ k # pform.kind /\ pform' = [pform EXCEPT !.kind = k, !.text = Replaced(k)]
  /\ touched' = {f \in touched : pform.text[f] # pform.kind}
  /\ UNCHANGED <<submits, used, reused, keys, overlapped>>

setText(f, v) ==
  /\ v # pform.text[f] /\ pform' = [pform EXCEPT !.text[f] = v] /\ touched' = touched \cup {f}
  /\ UNCHANGED <<submits, used, reused, keys, overlapped>>

setMode == /\ pform' = [pform EXCEPT !.mode = IF @ = "api_key" THEN "oauth2" ELSE "api_key"]
           /\ UNCHANGED <<submits, used, reused, touched, keys, overlapped>>

\* The form shows the fields of its mode.
setCredential ==
  /\ keys < MaxKeys /\ keys' = keys + 1
  /\ pform' = IF pform.mode = "api_key" THEN [pform EXCEPT !.api_key = keys + 1]
              ELSE [pform EXCEPT !.oauth = keys + 1]
  /\ UNCHANGED <<submits, used, reused, touched, overlapped>>

-----------------------------------------------------------------------------
(* create *)

\* Inputs marked required; the client secret is not.
Submittable == /\ \A f \in Required : pform.text[f] # ""
               /\ pform.mode = "api_key" => pform.api_key # 0

\* Empty optional fields are left out, and so are the credentials of the other mode.
Payload(f) == [f EXCEPT !.api_key = IF f.mode = "api_key" THEN @ ELSE 0,
                        !.oauth = IF f.mode = "oauth2" THEN @ ELSE 0]

\* Nothing keeps the button from being pressed again.  The texts sent are not kept:
\* no answer shows them again.
create(c) ==
  /\ Submittable /\ submits[c] = NoSubmit
  /\ submits' = [submits EXCEPT ![c] = [at |-> "sent", form |-> [pform EXCEPT !.text = Presets(pform.kind)]]]
  /\ overlapped' = (overlapped \/ ~Free)
  /\ UNCHANGED <<pform, used, reused, touched, keys>>

ProviderStored(c) ==
  /\ submits[c].at = "sent" /\ submits' = [submits EXCEPT ![c].at = "stored"]
  /\ LET k == Payload(submits[c].form).api_key IN
       used' = used \cup ({k} \ {0}) /\ reused' = (reused \/ k \in used)
  /\ UNCHANGED <<pform, touched, keys, overlapped>>

\* Mutant: the key stays.
AfterKeepingKey(f) == [f EXCEPT !.text = Presets(f.kind)]

After(f) == [f EXCEPT !.text = Presets(f.kind), !.api_key = 0]

\* The form of the submission, presets and an empty key: what was typed since is gone.
ProviderAccepted(c) ==
  /\ submits[c].at = "stored" /\ submits' = [submits EXCEPT ![c] = NoSubmit]
  /\ pform' = After(submits[c].form) /\ touched' = {}
  /\ UNCHANGED <<used, reused, keys, overlapped>>

ProviderRefused(c) == /\ submits[c] # NoSubmit /\ submits' = [submits EXCEPT ![c] = NoSubmit]
                      /\ overlapped' = (overlapped \/ submits[c].at = "stored")
                      /\ UNCHANGED <<pform, used, reused, touched, keys>>

ProviderNext ==
  \/ \E k \in Kind : setType(k)
  \/ \E f \in Preset, v \in Kind \cup {"", "typed"} : setText(f, v)
  \/ setMode \/ setCredential
  \/ \E c \in FClick : create(c) \/ ProviderStored(c) \/ ProviderAccepted(c) \/ ProviderRefused(c)
ProviderSpec == ProviderInit /\ [][ProviderNext]_providerVars

-----------------------------------------------------------------------------
(* Properties *)

\* The form, and with it what is submitted, has the preset of its own type in
\* every field the user left alone, however often the type was changed, forms
\* were submitted and answers put older forms back (set, create).
ModelsOfType == \A f \in Preset \ touched : pform.text[f] = pform.kind

\* No two providers are stored with one shared key, unless a form was submitted
\* again before its answer, or the answer was lost (create).
KeysDiffer == reused => overlapped

FormSound == ModelsOfType /\ KeysDiffer
=============================================================================
