----------------------------- MODULE MCFrontEnd -----------------------------
(* The two pages of the front end that are modelled, in one run: whichever *)
(* of them the browser has open.  They share no state.                     *)
EXTENDS Playground

CONSTANTS Keys, Optional, Values, Empty, Default, MaxEdits, MaxFocus

VARIABLES page, server, get, options, form, baseline, save, mishaps, been, edits, focused

Settings == INSTANCE SettingsForm

settings == <<server, get, options, form, baseline, save, mishaps, been, edits, focused>>

MCInit == page \in {"playground", "settings"} /\ Init /\ Settings!Init

MCNext ==
    /\ UNCHANGED page
    /\ \/ page = "playground" /\ Next /\ UNCHANGED settings
       \/ page = "settings" /\ stream = FALSE /\ Settings!Next /\ UNCHANGED vars

MCSpec == MCInit /\ [][MCNext]_<<page, vars, settings>>

\* A save whose updates were all stored ends with what was submitted on the server.
SubmittedIsSaved == Settings!SubmittedIsSaved

\* What a field of the settings shows when it is reset has been on the server.
BaselineWasStored == Settings!BaselineWasStored
=============================================================================
