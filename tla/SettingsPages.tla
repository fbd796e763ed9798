---------------------------- MODULE SettingsPages ----------------------------
(***************************************************************************)
(* Application settings as the panel shows and changes them: the settings      *)
(* page, whose sections are saved one by one from one form, the effect that    *)
(* applies the colour theme (SettingsProvider),  and the switch of the policy  *)
(* page for masking responses, which is set before the API has agreed.         *)
(*                                                                             *)
(* The keys of a section are one value; 0 is the default of SETTING_DEFAULTS.  *)
(* PUT /api/settings answers with all settings, and the page takes them all.   *)
(***************************************************************************)
EXTENDS Naturals, FiniteSetsExt

CONSTANTS Texts,    \* the sections of text fields: "branding", "chat"
          Value,    \* of a section
          SClick,   \* runs of a handler, Boot and Load among them
          Boot,     \* SettingsProvider's effect
          Load      \* the page's effect
ASSUME SettingsAssumption ==
  "branding" \in Texts /\ "tint" \notin Texts /\ 0 \in Value /\ {Boot, Load} \subseteq SClick

Section == Texts \cup {"theme", "logo"}
Cell == Section \cup {"tint"}     \* what a load may bring up to date

VARIABLES site,                    \* the mounted page: "settings" or "policy"
          server, masked,          \* the API's: the sections, mask_responses
          form, mask,              \* the pages'
          tint,                    \* data-theme and rafine_theme
          job,                     \* what each handler has reached
          loads, lastOf, newestOf, \* loads served; per cell, the one shown, the latest shown
          owedOf,                  \* a change no answer told of came after this load
          dirty,                   \* sections edited since
          unsure                   \* history: switches overlapped, or an answer was lost
settingsVars == <<site, server, masked, form, mask, tint, job,
                  loads, lastOf, newestOf, owedOf, dirty, unsure>>
apiVars == <<server, masked>>
seenVars == <<lastOf, newestOf, owedOf, dirty, unsure>>
screenVars == <<form, mask, tint>>

SETTING_DEFAULTS == [s \in Section |-> 0]
Resting == [at |-> "idle", do |-> "load", sec |-> "theme", val |-> 0,
            mark |-> 0, read |-> 0, got |-> SETTING_DEFAULTS]
Asked == [Resting EXCEPT !.at = "written"]
AtEase == \A c \in SClick : job[c].at \in {"idle", "over"}

SettingsInit ==
  /\ site \in {"settings", "policy"}
  /\ server \in [Section -> Value] /\ masked \in BOOLEAN
  /\ IF site = "policy" THEN server = SETTING_DEFAULTS ELSE masked
  /\ form = SETTING_DEFAULTS /\ mask = TRUE /\ tint \in Value
  /\ job = [c \in SClick |-> IF c \in {Boot, Load} THEN Asked ELSE Resting]
  /\ loads = 0 /\ lastOf = [x \in Cell |-> 0] /\ newestOf = [x \in Cell |-> 0]
  /\ owedOf = [x \in Cell |-> 0] /\ dirty = {} /\ unsure = FALSE

-----------------------------------------------------------------------------
(* The handlers *)

Puts(c, do, s, v) ==
  /\ job[c].at = "idle"
  /\ job' = [job EXCEPT ![c] = [Resting EXCEPT !.at = "sent", !.do = do, !.sec = s, !.val = v]]

field(s, v) ==
  /\ site = "settings" /\ s \in Texts /\ form[s] # v
  /\ form' = [form EXCEPT ![s] = v] /\ dirty' = dirty \cup {s}
  /\ UNCHANGED <<site, apiVars, mask, tint, job, loads, lastOf, newestOf, owedOf, unsure>>

\* The section's button; the keys are read from the form at the click.
save(c, s) ==
  /\ site = "settings" /\ s \in Texts /\ Puts(c, "save", s, form[s])
  /\ UNCHANGED <<site, apiVars, screenVars, loads, seenVars>>

\* A theme's button sets the form and saves at once.
PickTheme(c, v) ==
  /\ site = "settings" /\ Puts(c, "save", "theme", v)
  /\ form' = [form EXCEPT !.theme = v] /\ dirty' = dirty \cup {"theme"}
  /\ UNCHANGED <<site, apiVars, mask, tint, loads, lastOf, newestOf, owedOf, unsure>>

\* The button waits for logoStatus, but the timer of an earlier upload clears it:
\* uploads may overlap.
uploadLogo(c, v) ==
  /\ site = "settings" /\ v # 0 /\ Puts(c, "logo", "logo", v)
  /\ UNCHANGED <<site, apiVars, screenVars, loads, seenVars>>

clearLogo(c) ==
  /\ site = "settings" /\ form.logo # 0 /\ Puts(c, "clear", "logo", 0)
  /\ UNCHANGED <<site, apiVars, screenVars, loads, seenVars>>

\* The switch shows the new value at once.
toggleMaskResponses(c) ==
  /\ site = "policy" /\ Puts(c, "mask", "theme", IF mask THEN 0 ELSE 1)
  /\ mask' = ~mask /\ unsure' = (unsure \/ ~AtEase)
  /\ UNCHANGED <<site, apiVars, form, tint, loads, lastOf, newestOf, owedOf, dirty>>

-----------------------------------------------------------------------------
(* The API *)

\* update_settings, upload_logo, set_setting; the answer about a logo is what was
\* written, so that the write is its load.
Written(c) ==
  LET own == job[c].do \in {"logo", "clear"}
      n == IF own THEN loads + 1 ELSE loads
      new == [server EXCEPT ![job[c].sec] = job[c].val] IN
  /\ job[c].at = "sent" /\ loads' = n
  /\ job' = [job EXCEPT ![c].at = IF own THEN "read" ELSE "written", ![c].mark = n,
                        ![c].read = IF own THEN n ELSE 0, ![c].got = IF own THEN new ELSE @]
  /\ IF job[c].do = "mask" THEN masked' = (job[c].val = 1) /\ UNCHANGED server
     ELSE server' = new /\ UNCHANGED masked
  /\ UNCHANGED <<site, screenVars, seenVars>>

\* get_settings.
Fetched(c) ==
  /\ job[c].at = "written" /\ loads' = loads + 1
  /\ job' = [job EXCEPT ![c].at = "read", ![c].read = loads + 1, ![c].got = server,
                        ![c].val = IF job[c].do = "load" /\ masked THEN 1 ELSE @]
  /\ UNCHANGED <<site, apiVars, screenVars, seenVars>>

-----------------------------------------------------------------------------
(* Answers *)

\* The cells an answer is written to.
Scope(c) ==
  CASE c = Boot -> {"tint"}
    [] c # Boot /\ job[c].do = "load" -> Section
    [] job[c].do = "save" -> Section \cup (IF job[c].sec = "theme" THEN {"tint"} ELSE {})
    [] job[c].do \in {"logo", "clear"} -> {"logo"}
    [] job[c].do = "mask" -> {}

JobOver(c) == job' = [job EXCEPT ![c] = [Resting EXCEPT !.at = "over"]]

\* setForm: SETTING_DEFAULTS or the form, and the answer over it.
Taken(c) == [s \in Section |-> IF s \in Scope(c) THEN job[c].got[s] ELSE form[s]]

Tells(c) ==
  /\ job[c].at = "read" /\ JobOver(c)
  /\ LET S == IF site = "policy" /\ c # Boot THEN {} ELSE Scope(c)
         n == job[c].read IN
     /\ form' = IF S \cap Section = {} THEN form ELSE Taken(c)
     /\ tint' = IF "tint" \in S THEN job[c].got.theme ELSE tint
     /\ lastOf' = [x \in Cell |-> IF x \in S THEN n ELSE lastOf[x]]
     /\ newestOf' = [x \in Cell |-> IF x \in S THEN Max({newestOf[x], n}) ELSE newestOf[x]]
     /\ dirty' = dirty \ S
  /\ mask' = IF site = "policy" /\ c = Load THEN job[c].val = 1 ELSE mask
  /\ UNCHANGED <<site, apiVars, loads, owedOf, unsure>>

\* Mutant: the switch stays.
RolledBackNot(c) == mask

RolledBack(c) == IF job[c].do = "mask" THEN job[c].val = 0 ELSE mask

\* A call is refused or its answer is lost; the switch goes back.
SettingFails(c) ==
  LET of == {job[c].sec} \cup (IF job[c].sec = "theme" THEN {"tint"} ELSE {})
      late == job[c].at # "sent" /\ job[c].do # "load" IN
  /\ job[c].at \in {"sent", "written", "read"} /\ JobOver(c)
  /\ mask' = RolledBack(c)
  /\ owedOf' = [x \in Cell |-> IF late /\ x \in of THEN Max({owedOf[x], job[c].mark}) ELSE owedOf[x]]
  /\ unsure' = (unsure \/ late \/ c = Load)
  /\ UNCHANGED <<site, apiVars, form, tint, loads, lastOf, newestOf, dirty>>

SettingsNext ==
  \/ \E s \in Section, v \in Value : field(s, v)
  \/ \E c \in SClick : \/ clearLogo(c) \/ toggleMaskResponses(c)
                       \/ \E s \in Section : save(c, s)
                       \/ \E v \in Value : PickTheme(c, v) \/ uploadLogo(c, v)
                       \/ Written(c) \/ Fetched(c) \/ Tells(c) \/ SettingFails(c)
SettingsSpec == SettingsInit /\ [][SettingsNext]_settingsVars

-----------------------------------------------------------------------------
(* Properties *)

Told(x) == lastOf[x] = newestOf[x] /\ lastOf[x] > owedOf[x]

\* On a page at rest every section that was not edited since, and the colour
\* theme of the tab, are the API's, whichever sections were saved together and in
\* whatever order their answers came, unless an older answer came last or a
\* change's own answer was lost (save, uploadLogo, clearLogo).
FormSettles ==
  AtEase /\ site = "settings" =>
    /\ \A s \in Section : Told(s) /\ s \notin dirty => form[s] = server[s]
    /\ Told("tint") => tint = server.theme

\* The masking switch at rest shows what the gateway does, also after a failed
\* change, unless it was switched again before the answer, or an answer or the
\* first load was lost (toggleMaskResponses).
MaskSettles == AtEase /\ site = "policy" => unsure \/ mask = masked

SettingsSettle == FormSettles /\ MaskSettles
=============================================================================
