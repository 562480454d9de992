---------------------------- MODULE SettingsForm ----------------------------
(***************************************************************************)
(* A form of system settings: useSettingsForm, useUpdateOption and         *)
(* useSystemOptions (web/default/src/features/system-settings/hooks) and   *)
(* the request deduplication of web/default/src/lib/api.ts.  The form is   *)
(* saved key by key; each key that was saved makes the query of all        *)
(* options start again, and what it brings resets the form, while the next *)
(* key is being saved or after it.  One administrator.                     *)
(***************************************************************************)
EXTENDS Integers, FiniteSets

CONSTANTS
    Keys,       \* fields of the form
    Optional,   \* those that may be left empty
    Values,
    Empty,      \* what a field has that was cleared (undefined)
    Default,    \* the value each field starts with
    MaxEdits,   \* bound: fields filled in
    MaxFocus    \* bound: times the window comes into focus with stale options

VARIABLES
    server,    \* OptionMap
    get,       \* the GET of inFlightGet: [at, data]; "none", "sent" or "read"
    options,   \* data of the query "system-options"
    form,      \* the values in the form
    baseline,  \* baselineRef, defaultValuesRef, serializedDefaultsRef and RHF's defaults
    save,      \* handleSubmit: [at, keys, left, key, values], see NotSaving
    mishaps,   \* history: "refused", an update was; "lost", the answer of one that was stored
    been,      \* history: what the server's options have been
    edits, focused

vars == <<server, get, options, form, baseline, save, mishaps, been, edits, focused>>

\* The keys to update, those left, the one whose PUT is on its way ("put") or has come to
\* an end ("stored", "refused", "failed"), and the values submitted.
NotSaving ==
    [at |-> "idle", keys |-> {}, left |-> {}, key |-> {}, values |-> [k \in Keys |-> Default]]
Saving == save.at # "idle"

Init ==
    /\ server = [k \in Keys |-> Default] /\ options = server
    /\ form = server /\ baseline = server
    /\ get = [at |-> "none", data |-> server]
    /\ save = NotSaving /\ mishaps = {} /\ been = {server}
    /\ edits = 0 /\ focused = 0

Dirty == {k \in Keys : form[k] # baseline[k]}

-----------------------------------------------------------------------------
(* The query. *)

\* api.get: a GET that is in flight is not sent again.
Asked == IF get.at = "none" THEN [get EXCEPT !.at = "sent"] ELSE get

\* refetchOnWindowFocus, after the staleTime.
Focus ==
    /\ focused < MaxFocus /\ focused' = focused + 1
    /\ get.at = "none" /\ get' = Asked
    /\ UNCHANGED <<server, options, form, baseline, save, mishaps, been, edits>>

\* GetOptions.
GetRead ==
    /\ get.at = "sent" /\ get' = [at |-> "read", data |-> server]
    /\ UNCHANGED <<server, options, form, baseline, save, mishaps, been, edits, focused>>

\* The answer becomes the data of useSystemOptions.
GetArrives ==
    /\ get.at = "read" /\ get' = [get EXCEPT !.at = "none"]
    /\ options' = get.data
    /\ UNCHANGED <<server, form, baseline, save, mishaps, been, edits, focused>>

\* The effect of useSettingsForm.  Whenever the page is rendered its default values are
\* another object (and so are options that come in another order), so that it runs
\* though nothing has changed on the server, and puts back what was read before a save.
Effect ==
    /\ options # baseline
    /\ baseline' = options /\ form' = options
    /\ UNCHANGED <<server, get, options, save, mishaps, been, edits, focused>>

-----------------------------------------------------------------------------
(* The administrator. *)

\* The fields can be filled in during a save too.
Fill(k, v) ==
    /\ edits < MaxEdits /\ edits' = edits + 1
    /\ form[k] # v /\ form' = [form EXCEPT ![k] = v]
    /\ UNCHANGED <<server, get, options, baseline, save, mishaps, been, focused>>

\* handleReset.
Reset ==
    /\ ~Saving /\ Dirty # {} /\ form' = baseline
    /\ UNCHANGED <<server, get, options, baseline, save, mishaps, been, edits, focused>>

\* The loop of onSubmit takes the keys one after the other, and skips those whose field
\* is empty; when it has skipped all, the form is reset to what was submitted as well.
Submit ==
    LET updated == {k \in Dirty : form[k] # Empty}
    IN  /\ ~Saving /\ Dirty # {}
        /\ \/ /\ \E k \in updated : save' = [at |-> "put", keys |-> updated, left |-> updated \ {k},
                                              key |-> {k}, values |-> form]
              /\ UNCHANGED baseline
           \/ updated = {} /\ baseline' = form /\ UNCHANGED save
        /\ UNCHANGED <<server, get, options, form, mishaps, been, edits, focused>>

-----------------------------------------------------------------------------
(* The save. *)

Stored(values) == [k \in Keys |-> IF k \in save.key THEN values[k] ELSE server[k]]

\* Mutant: the value is taken from the form when its turn comes.
PutLive ==
    /\ save.at = "put"
    /\ \/ /\ server' = Stored(form) /\ been' = been \cup {server'}
          /\ \/ save' = [save EXCEPT !.at = "stored"] /\ UNCHANGED mishaps
             \/ save' = [save EXCEPT !.at = "failed"] /\ mishaps' = mishaps \cup {"lost"}
       \/ /\ save' = [save EXCEPT !.at = "refused"] /\ mishaps' = mishaps \cup {"refused"}
          /\ UNCHANGED <<server, been>>
       \/ save' = [save EXCEPT !.at = "failed"] /\ UNCHANGED <<server, been, mishaps>>
    /\ UNCHANGED <<get, options, form, baseline, edits, focused>>

\* UpdateOption stores the value or answers success: false; an answer may be lost.
Put ==
    /\ save.at = "put"
    /\ \/ /\ server' = Stored(save.values) /\ been' = been \cup {server'}
          /\ \/ save' = [save EXCEPT !.at = "stored"] /\ UNCHANGED mishaps
             \/ save' = [save EXCEPT !.at = "failed"] /\ mishaps' = mishaps \cup {"lost"}
       \/ /\ save' = [save EXCEPT !.at = "refused"] /\ mishaps' = mishaps \cup {"refused"}
          /\ UNCHANGED <<server, been>>
       \/ save' = [save EXCEPT !.at = "failed"] /\ UNCHANGED <<server, been, mishaps>>
    /\ UNCHANGED <<get, options, form, baseline, edits, focused>>

\* The next key, or the end of handleSubmit: the form is reset to what was submitted.
NextKey ==
    IF save.left = {}
    THEN save' = NotSaving /\ baseline' = save.values /\ form' = save.values
    ELSE /\ \E k \in save.left : save' = [save EXCEPT !.at = "put", !.left = @ \ {k}, !.key = {k}]
         /\ UNCHANGED <<form, baseline>>

\* onSuccess of useUpdateOption invalidates the query; a refusal resolves as well.
PutReturns ==
    /\ save.at \in {"stored", "refused"} /\ NextKey
    /\ get' = IF save.at = "stored" THEN Asked ELSE get
    /\ UNCHANGED <<server, options, mishaps, been, edits, focused>>

\* Mutant: handleSubmit takes the values for saved after an error too.
PutThrowsLate ==
    /\ save.at = "failed" /\ save' = NotSaving
    /\ baseline' = save.values /\ form' = save.values
    /\ UNCHANGED <<server, get, options, mishaps, been, edits, focused>>

\* mutateAsync rejects: handleSubmit goes no further.
PutThrows ==
    /\ save.at = "failed" /\ save' = NotSaving
    /\ UNCHANGED <<server, get, options, form, baseline, mishaps, been, edits, focused>>

-----------------------------------------------------------------------------

Next ==
    \/ Focus \/ GetRead \/ GetArrives \/ Effect
    \/ (\E k \in Keys, v \in Values : Fill(k, v)) \/ (\E k \in Optional : Fill(k, Empty))
    \/ Reset \/ Submit
    \/ Put \/ PutReturns \/ PutThrows

Spec == Init /\ [][Next]_vars

-----------------------------------------------------------------------------
(* Properties. *)

\* A save whose updates were all stored ends with the values that were submitted on the
\* server, however the form was reset or filled in meanwhile (onSubmit works on the
\* values it was called with).
SubmittedIsSaved ==
    [][PutReturns /\ save.left = {} /\ "refused" \notin mishaps =>
          \A k \in save.keys : server[k] = save.values[k]]_vars

\* What a field shows when it is reset has been on the server ("Form reset to saved
\* values", handleReset), unless it is empty or an update was refused: neither a save
\* that fails half way nor what is filled in meanwhile passes for saved.
BaselineWasStored ==
    "refused" \notin mishaps =>
        \A k \in Keys : baseline[k] = Empty \/ \E s \in been : baseline[k] = s[k]

\* The same of every field, when every answer has come and none was a refusal.
ResetShowsSaved == mishaps = {} => \A k \in Keys : \E s \in been : baseline[k] = s[k]

\* "Always refresh system-options" (use-update-option.ts): when the refresh that follows
\* the last update has come back, the options are those of the server.
OptionsRefreshed == ~Saving /\ get.at = "none" /\ mishaps = {} => options = server
=============================================================================
