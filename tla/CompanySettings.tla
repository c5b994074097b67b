---------------------------- MODULE CompanySettings ----------------------------
(***************************************************************************)
(* The one settings row of a company.  Every page that saves it sends the  *)
(* general columns; the options (review cadence, departments, job titles)  *)
(* live inside a JSON column, a page may leave them out, and then those on *)
(* file are carried forward.  A company whose signup predates the row gets *)
(* it with the first save.  A value is the save that sent it and whether   *)
(* that was an empty list; save 0 is the built-in default.  A list that is *)
(* stored empty reads as the default.                                      *)
(***************************************************************************)
EXTENDS Naturals

CONSTANTS
    Pages,      \* saves under way at the same time
    MaxSaves    \* bound: saves asked for

VARIABLES
    settings,   \* the row, or NoSettings
    saving,     \* the save of each page
    saves,      \* saves so far
    lastSent,   \* history: the value of each option that was last sent and stored
    unsure      \* history: options of which two saves that crossed sent one

settingsVars == <<settings, saving, saves, lastSent, unsure>>

Lists == {"departments", "jobTitles"}
Options == Lists \cup {"reviewCadence"}
Default == [by |-> 0, empty |-> FALSE]
Defaults == [o \in Options |-> Default]
NoSettings == [exists |-> FALSE, general |-> 0, options |-> Defaults]
NotSaving == [at |-> "idle", number |-> 0, sends |-> {}, emptied |-> {}, found |-> NoSettings]

SettingsTypeOK ==
    /\ settings.exists \in BOOLEAN /\ settings.general \in 0..MaxSaves
    /\ settings.options \in [Options -> [by : 0..MaxSaves, empty : BOOLEAN]]
    /\ DOMAIN saving = Pages /\ saves \in 0..MaxSaves
    /\ lastSent \in [Options -> [by : 0..MaxSaves, empty : BOOLEAN]] /\ unsure \subseteq Options

(* A signup creates the row; a company from before tenancy has none. *)
SettingsInit ==
    /\ settings \in {NoSettings, [NoSettings EXCEPT !.exists = TRUE]}
    /\ saving = [p \in Pages |-> NotSaving]
    /\ saves = 0 /\ lastSent = Defaults /\ unsure = {}

Underway(p) == saving[p].at # "idle"

(* What an option reads as: an empty list as the default. *)
Shown(value) == IF value.empty THEN Default ELSE value

settingsRowToDto(row) == [o \in Options |-> Shown(row.options[o])]

(* What every read shows: no row reads as the defaults. *)
getSettings == IF settings.exists THEN settingsRowToDto(settings) ELSE Defaults

(* A page may send any of the options, and a list empty. *)
SaveSettings(p, sends, emptied) ==
    /\ ~Underway(p) /\ saves < MaxSaves
    /\ saves' = saves + 1
    /\ saving' = [saving EXCEPT ![p] = [NotSaving EXCEPT !.at = "find", !.number = saves',
                                                       !.sends = sends, !.emptied = emptied]]
    /\ unsure' = unsure \cup {o \in Options : \E q \in Pages \ {p} :
                                  Underway(q) /\ o \in sends \cup saving[q].sends}
    /\ UNCHANGED <<settings, lastSent>>

FindSettings(p) ==
    /\ saving[p].at = "find"
    /\ saving' = [saving EXCEPT ![p].found = settings, ![p].at = "write"]
    /\ UNCHANGED <<settings, saves, lastSent, unsure>>

Sent(p, o) == [by |-> saving[p].number, empty |-> o \in saving[p].emptied]

(* Mutant: a save that leaves the cadence out resets it. *)
CarryLists(p, o) ==
    IF o \in saving[p].sends THEN Sent(p, o)
    ELSE IF o # "reviewCadence" THEN settingsRowToDto(saving[p].found)[o] ELSE Default

(* What was sent, else what the row that was found reads as, else the default:
   a list stored empty is carried forward as the default. *)
Carry(p, o) ==
    IF o \in saving[p].sends THEN Sent(p, o) ELSE settingsRowToDto(saving[p].found)[o]

(* The update of the row that was found, or a create, which the unique
   company refuses if another save created the row first. *)
WriteSettings(p) ==
    LET refused == ~saving[p].found.exists /\ settings.exists IN
    /\ saving[p].at = "write"
    /\ IF refused THEN UNCHANGED <<settings, lastSent>>
       ELSE /\ settings' = [exists |-> TRUE, general |-> saving[p].number,
                            options |-> [o \in Options |-> Carry(p, o)]]
            /\ lastSent' = [o \in Options |-> IF o \in saving[p].sends
                                              THEN Sent(p, o) ELSE lastSent[o]]
    /\ saving' = [saving EXCEPT ![p] = NotSaving]
    /\ UNCHANGED <<saves, unsure>>

SaveFails(p) ==
    /\ Underway(p)
    /\ saving' = [saving EXCEPT ![p] = NotSaving]
    /\ UNCHANGED <<settings, saves, lastSent, unsure>>

SettingsNext == \E p \in Pages :
    \/ \E sends \in SUBSET Options : \E emptied \in SUBSET (sends \cap Lists) :
         SaveSettings(p, sends, emptied)
    \/ FindSettings(p) \/ WriteSettings(p) \/ SaveFails(p)
-------------------------------------------------------------------------------
(* "Callers that omit them must not wipe values previously saved"
   (platform.repository.ts): whatever pages save, and fail, an option reads as
   the last save that sent it left it -- the default, when that was an empty
   list -- unless that save or a later sender crossed another save.  (Two saves
   that cross lose an option: the later write carries forward what it found
   before the earlier one.) *)
OptionsKept == \A o \in Options \ unsure : getSettings[o] = Shown(lastSent[o])
===============================================================================
