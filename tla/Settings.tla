------------------------------ MODULE Settings ------------------------------
(***************************************************************************)
(* The settings row under SettingsPage, useSettings and SettingsService: a   *)
(* form loaded from the row and sent as a whole, with the password of the    *)
(* backup server, which the page never shows and stores when it is typed.    *)
(* One mark stands for all other columns. The row exists from the first      *)
(* start of the process on (PrismaService), so that nobody creates it here.  *)
(***************************************************************************)
EXTENDS Secrets

VARIABLES
  settings,   \* the row
  panel,      \* the page
  patch,      \* the PATCH on its way, or none
  typedLast,  \* history: the password the row was given last
  edited      \* history: edits of the form so far

office == <<settings, panel, patch, typedLast, edited>>

SettingsOK ==
  /\ settings \in [policy : Nat, sftp : Secret \cup {none}]
  /\ panel.state \in {"loading", "shown"} /\ panel.policy \in Nat \cup {none}
  /\ panel.typed \in Text \cup {"absent", "empty"} /\ panel.saving \in BOOLEAN
  /\ patch = none \/ patch.step \in {"sent", "found", "stored"}
  /\ typedLast \in Text \cup {none} /\ edited \in Nat

\* The columns a form has not been given are absent from what it sends.
Empty == [state |-> "loading", policy |-> none, typed |-> "absent", saving |-> FALSE]

SettingsInit(k, given) ==
  /\ \/ ~given /\ typedLast = none /\ settings = [policy |-> 0, sftp |-> none]
     \/ \E t \in Text :
          /\ given /\ typedLast = t
          /\ \/ settings = [policy |-> 0, sftp |-> Plain(t)]
             \/ settings = [policy |-> 0, sftp |-> encrypt(Plain(t), k)]
  /\ panel = Empty /\ patch = none /\ edited = 0

\* The effect of the page fills the form whenever other settings have been loaded; the
\* password field is empty then.
fetchSettings ==
  /\ panel.state = "loading"
  /\ panel' = [panel EXCEPT !.state = "shown", !.policy = settings.policy, !.typed = "empty"]
  /\ UNCHANGED <<settings, patch, typedLast, edited>>

\* An error is shown above the form of before.
FetchFailed ==
  /\ panel.state = "loading"
  /\ panel' = [panel EXCEPT !.state = "shown"]
  /\ UNCHANGED <<settings, patch, typedLast, edited>>

EditPolicy ==
  /\ panel.state = "shown"
  /\ edited' = edited + 1
  /\ panel' = [panel EXCEPT !.policy = edited']
  /\ UNCHANGED <<settings, patch, typedLast>>

TypePassword(t) ==
  /\ panel.state = "shown" /\ panel.typed # t
  /\ panel' = [panel EXCEPT !.typed = t]
  /\ UNCHANGED <<settings, patch, typedLast, edited>>

handlePatch ==
  /\ panel.state = "shown" /\ patch = none
  /\ panel' = [panel EXCEPT !.saving = TRUE]
  /\ patch' = [policy |-> panel.policy, typed |-> panel.typed, step |-> "sent"]
  /\ UNCHANGED <<settings, typedLast, edited>>

\* getSettings, for the id of the row and for the log.
FoundSettings ==
  /\ patch # none /\ patch.step = "sent"
  /\ patch' = [patch EXCEPT !.step = "found"]
  /\ UNCHANGED <<settings, panel, typedLast, edited>>

\* An absent column stays, an empty password becomes null, a typed one is encrypted.
updateSettings(k) ==
  /\ patch # none /\ patch.step = "found"
  /\ patch' = [patch EXCEPT !.step = "stored"]
  /\ settings' = [policy |-> IF patch.policy = none THEN settings.policy ELSE patch.policy,
                  sftp |-> CASE patch.typed = "absent" -> settings.sftp
                             [] patch.typed = "empty" -> none
                             [] OTHER -> encrypt(Plain(patch.typed), k)]
  /\ typedLast' = CASE patch.typed = "absent" -> typedLast
                    [] patch.typed = "empty" -> none
                    [] OTHER -> patch.typed
  /\ UNCHANGED <<panel, edited>>

\* The settings are loaded again; an error leaves the form as it is.
PatchAnswered ==
  /\ patch # none /\ patch.step = "stored"
  /\ patch' = none
  /\ panel' = [panel EXCEPT !.state = "loading", !.saving = FALSE]
  /\ UNCHANGED <<settings, typedLast, edited>>

PatchFailed ==
  /\ patch # none
  /\ patch' = none
  /\ panel' = [panel EXCEPT !.saving = FALSE]
  /\ UNCHANGED <<settings, typedLast, edited>>

=============================================================================
