--------------------------- MODULE WorkspaceProofs ---------------------------
(***************************************************************************)
(* What the parts of the workspace guarantee whatever the number of        *)
(* requests, companies, people, saves and retries.  Each part is proved    *)
(* from its own next-state relation: a step of the workspace is a step of  *)
(* one part and leaves the variables of the others alone (StepOfOnePart).  *)
(***************************************************************************)
EXTENDS Workspace, FiniteSetTheorems, TLAPS

(* A step of the workspace is, for every part, a step of that part or one  *)
(* that leaves it alone.                                                   *)
LEMMA StepOfOnePart ==
    ASSUME [Next]_vars
    PROVE  /\ [AccountsNext]_accountVars /\ [LineNext]_directoryVars
           /\ [LibraryNext \/ AskNext]_assistantVars /\ [TenancyNext]_tenantVars
           /\ [ViewsNext]_viewVars /\ [RecordNext]_recordVars /\ [SettingsNext]_settingsVars
BY DEF Next, vars, SignupsNext, LinesNext, ToolsNext, ChatNext, TenantsNext, ViewsOpenNext,
       RecordsNext, SavesNext
-------------------------------------------------------------------------------
(* Company settings *)

OptionValues == [by : Nat, empty : BOOLEAN]
SettingsRow == [exists : BOOLEAN, general : Nat, options : [Options -> OptionValues]]
SettingsSaves == [at : {"idle", "find", "write"}, number : Nat, sends : SUBSET Options,
                  emptied : SUBSET Options, found : SettingsRow]

SettingsTyped ==
    /\ settings \in SettingsRow /\ saving \in [Pages -> SettingsSaves]
    /\ saves \in Nat /\ lastSent \in [Options -> OptionValues] /\ unsure \subseteq Options

(* Of two saves under way neither sends an option that is sure. *)
SureSentAlone == \A o \in Options \ unsure : \A p, q \in Pages :
    p # q /\ Underway(p) /\ Underway(q) => o \notin saving[p].sends

(* A missing row is nothing but defaults, on file and as a page found it. *)
MissingIsDefault(row) == ~row.exists => row.options = Defaults

(* What a page found and does not send still reads as what is on file. *)
FoundIsFresh == \A p \in Pages : saving[p].at = "write" =>
    /\ MissingIsDefault(saving[p].found)
    /\ saving[p].found.exists =>
         /\ settings.exists
         /\ \A o \in Options \ unsure :
              o \notin saving[p].sends =>
                Shown(saving[p].found.options[o]) = Shown(settings.options[o])

SettingsInv ==
    /\ SettingsTyped /\ SureSentAlone /\ MissingIsDefault(settings) /\ FoundIsFresh /\ OptionsKept

LEMMA ShownTyped ==
    /\ Default \in OptionValues /\ Shown(Default) = Default
    /\ \A v \in OptionValues : Shown(v) \in OptionValues /\ Shown(Shown(v)) = Shown(v)
    BY DEF Default, OptionValues, Shown

LEMMA NotSavingTyped == NotSaving \in SettingsSaves /\ NoSettings \in SettingsRow
<1>1. NoSettings \in SettingsRow
    BY DEF SettingsRow, NoSettings, Defaults, Default, OptionValues
<1> QED
    BY <1>1 DEF SettingsSaves, NotSaving

LEMMA SettingsHold ==
    ASSUME SettingsInv, [SettingsNext]_settingsVars
    PROVE  SettingsInv'
<1> USE DEF SettingsInv
<1>1. CASE UNCHANGED settingsVars
    BY <1>1 DEF settingsVars, SettingsTyped, SureSentAlone, Underway, MissingIsDefault,
                FoundIsFresh, OptionsKept, getSettings, settingsRowToDto
<1>2. ASSUME NEW p \in Pages, NEW sends \in SUBSET Options, NEW emptied \in SUBSET (sends \cap Lists),
             SaveSettings(p, sends, emptied)
      PROVE  SettingsInv'
  <2>1. SettingsTyped'
    <3>1. saves' \in Nat
        BY <1>2 DEF SaveSettings, SettingsTyped
    <3>2. [NotSaving EXCEPT !.at = "find", !.number = saves', !.sends = sends, !.emptied = emptied]
            \in SettingsSaves
        BY <3>1, NotSavingTyped DEF SettingsSaves
    <3>3. saving' \in [Pages -> SettingsSaves]
        BY <1>2, <3>2 DEF SaveSettings, SettingsTyped
    <3> QED
        BY <1>2, <3>1, <3>3 DEF SaveSettings, SettingsTyped
  <2>2. SureSentAlone'
      BY <1>2 DEF SaveSettings, SettingsTyped, SettingsSaves, SureSentAlone, Underway, NotSaving
  <2>3. FoundIsFresh'
      BY <1>2 DEF SaveSettings, SettingsTyped, SettingsSaves, FoundIsFresh, NotSaving, MissingIsDefault
  <2> QED
      BY <1>2, <2>1, <2>2, <2>3 DEF SaveSettings, MissingIsDefault, OptionsKept, getSettings, settingsRowToDto
<1>3. ASSUME NEW p \in Pages, FindSettings(p)
      PROVE  SettingsInv'
  <2>1. SettingsTyped'
      BY <1>3 DEF FindSettings, SettingsTyped, SettingsSaves, SettingsRow
  <2>2. SureSentAlone'
      BY <1>3 DEF FindSettings, SettingsTyped, SettingsSaves, SureSentAlone, Underway
  <2>3. FoundIsFresh'
      BY <1>3 DEF FindSettings, SettingsTyped, SettingsSaves, FoundIsFresh, MissingIsDefault
  <2> QED
      BY <1>3, <2>1, <2>2, <2>3 DEF FindSettings, MissingIsDefault, OptionsKept, getSettings, settingsRowToDto
<1>4. ASSUME NEW p \in Pages, SaveFails(p)
      PROVE  SettingsInv'
  <2>1. saving' = [saving EXCEPT ![p] = NotSaving] /\ UNCHANGED <<settings, saves, lastSent, unsure>>
      BY <1>4 DEF SaveFails
  <2>2. SettingsTyped'
      BY <2>1, NotSavingTyped DEF SettingsTyped
  <2>3. SureSentAlone'
      BY <2>1 DEF SettingsTyped, SureSentAlone, Underway, NotSaving
  <2>4. FoundIsFresh'
      BY <2>1 DEF SettingsTyped, NotSaving, FoundIsFresh, MissingIsDefault
  <2> QED
      BY <2>1, <2>2, <2>3, <2>4 DEF MissingIsDefault, OptionsKept, getSettings, settingsRowToDto
<1>5. ASSUME NEW p \in Pages, WriteSettings(p)
      PROVE  SettingsInv'
  <2>1. saving' = [saving EXCEPT ![p] = NotSaving] /\ saving[p].at = "write"
        /\ UNCHANGED <<saves, unsure>>
      BY <1>5 DEF WriteSettings
  <2>2. CASE ~saving[p].found.exists /\ settings.exists
    <3>1. UNCHANGED <<settings, lastSent>>
        BY <1>5, <2>2 DEF WriteSettings
    <3>2. SettingsTyped'
        BY <2>1, <3>1, NotSavingTyped DEF SettingsTyped
    <3>3. SureSentAlone'
        BY <2>1 DEF SettingsTyped, SureSentAlone, Underway, NotSaving
    <3>4. FoundIsFresh'
        BY <2>1, <3>1 DEF SettingsTyped, NotSaving, FoundIsFresh, MissingIsDefault
    <3> QED
        BY <2>1, <3>1, <3>2, <3>3, <3>4
           DEF MissingIsDefault, OptionsKept, getSettings, settingsRowToDto
  <2>3. CASE saving[p].found.exists \/ ~settings.exists
    <3>1. /\ settings' = [exists |-> TRUE, general |-> saving[p].number,
                          options |-> [o \in Options |-> Carry(p, o)]]
          /\ lastSent' = [o \in Options |-> IF o \in saving[p].sends
                                            THEN Sent(p, o) ELSE lastSent[o]]
        BY <1>5, <2>3 DEF WriteSettings
    <3>a. saving[p] \in SettingsSaves
        BY DEF SettingsTyped
    <3>b. \A o \in Options : Sent(p, o) \in OptionValues
        BY <3>a DEF Sent, SettingsSaves, OptionValues
    <3>c. saving[p].found.options \in [Options -> OptionValues] /\ saving[p].number \in Nat
        BY <3>a DEF SettingsSaves, SettingsRow
    <3>d. \A o \in Options : Carry(p, o) \in OptionValues
        BY <3>b, <3>c, ShownTyped DEF Carry, settingsRowToDto
    <3>2. SettingsTyped'
      <4>1. settings' \in SettingsRow
          BY <3>1, <3>c, <3>d DEF SettingsRow
      <4>2. lastSent' \in [Options -> OptionValues]
          BY <3>1, <3>b DEF SettingsTyped
      <4> QED
          BY <2>1, <4>1, <4>2, NotSavingTyped DEF SettingsTyped
    <3>3. SureSentAlone'
        BY <2>1 DEF SettingsTyped, SettingsSaves, SureSentAlone, Underway, NotSaving
    <3>4. \A o \in Options \ unsure : o \notin saving[p].sends =>
             Shown(Carry(p, o)) = getSettings[o]
      <4> SUFFICES ASSUME NEW o \in Options \ unsure, o \notin saving[p].sends
                   PROVE  Shown(Carry(p, o)) = getSettings[o]
          OBVIOUS
      <4>1. Carry(p, o) = Shown(saving[p].found.options[o])
          BY DEF Carry, settingsRowToDto
      <4>2. Shown(Carry(p, o)) = Shown(saving[p].found.options[o])
          BY <4>1, <3>c, ShownTyped
      <4>3. CASE saving[p].found.exists
          BY <2>1, <4>2, <4>3 DEF FoundIsFresh, getSettings, settingsRowToDto
      <4>4. CASE ~saving[p].found.exists /\ ~settings.exists
        <5>1. saving[p].found.options = Defaults
            BY <2>1, <4>4 DEF FoundIsFresh, MissingIsDefault
        <5> QED
            BY <4>2, <4>4, <5>1, ShownTyped DEF getSettings, Defaults
      <4> QED
          BY <2>3, <4>3, <4>4
    <3>5. OptionsKept'
      <4> SUFFICES ASSUME NEW o \in Options \ unsure PROVE Shown(Carry(p, o)) = Shown(lastSent'[o])
          BY <2>1, <3>1 DEF OptionsKept, getSettings, settingsRowToDto
      <4>1. CASE o \in saving[p].sends
          BY <3>1, <4>1 DEF Carry
      <4>2. CASE o \notin saving[p].sends
          BY <3>1, <3>4, <4>2 DEF OptionsKept
      <4> QED
          BY <4>1, <4>2
    <3>6. FoundIsFresh'
      <4> SUFFICES ASSUME NEW q \in Pages, saving'[q].at = "write"
                   PROVE  /\ MissingIsDefault(saving'[q].found)
                          /\ saving'[q].found.exists => 
                               \A o \in Options \ unsure : o \notin saving'[q].sends =>
                                  Shown(saving'[q].found.options[o]) = Shown(Carry(p, o))
          BY <2>1, <3>1 DEF FoundIsFresh, MissingIsDefault
      <4>1. q # p /\ saving'[q] = saving[q] /\ saving[q].at = "write"
          BY <2>1 DEF SettingsTyped, NotSaving
      <4>2. \A o \in Options \ unsure : o \notin saving[p].sends
          BY <2>1, <4>1 DEF SureSentAlone, Underway
      <4> QED
          BY <2>1, <3>4, <4>1, <4>2 DEF FoundIsFresh, getSettings, settingsRowToDto
    <3> QED
        BY <3>1, <3>2, <3>3, <3>5, <3>6 DEF MissingIsDefault
  <2> QED
      BY <2>2, <2>3
<1> QED
    BY <1>1, <1>2, <1>3, <1>4, <1>5 DEF SettingsNext

(* "Callers that omit them must not wipe values previously saved": however *)
(* many pages save and fail, an option reads as the last save that sent it *)
(* left it, an emptied list as the default, unless a save that sends it    *)
(* crossed another.                                                        *)
THEOREM OptionsAreKept == Spec => []OptionsKept
<1>1. Init => SettingsInv
  <2> SUFFICES ASSUME SettingsInit PROVE SettingsInv
      BY DEF Init
  <2>1. settings \in SettingsRow /\ settings.options = Defaults
    <3>1. Defaults \in [Options -> OptionValues]
        BY ShownTyped DEF Defaults
    <3>2. settings = NoSettings \/ settings = [exists |-> TRUE, general |-> 0, options |-> Defaults]
        BY DEF SettingsInit, NoSettings
    <3>3. [exists |-> TRUE, general |-> 0, options |-> Defaults] \in SettingsRow
        BY <3>1 DEF SettingsRow
    <3>4. settings \in SettingsRow
        BY <3>2, <3>3, NotSavingTyped
    <3>5. settings.options = Defaults
        BY <3>2 DEF NoSettings
    <3> QED
        BY <3>4, <3>5
  <2>2. saving \in [Pages -> SettingsSaves]
      BY NotSavingTyped DEF SettingsInit
  <2>3. lastSent \in [Options -> OptionValues] /\ saves \in Nat /\ unsure = {}
      BY ShownTyped DEF SettingsInit, Defaults
  <2>4. \A p \in Pages : saving[p].at = "idle"
      BY DEF SettingsInit, NotSaving
  <2>5. SureSentAlone /\ FoundIsFresh
      BY <2>4 DEF SureSentAlone, Underway, FoundIsFresh
  <2>6. OptionsKept
      BY <2>1, ShownTyped DEF SettingsInit, OptionsKept, getSettings, settingsRowToDto, Defaults
  <2> QED
      BY <2>1, <2>2, <2>3, <2>5, <2>6 DEF SettingsInv, SettingsTyped, MissingIsDefault
<1>2. SettingsInv /\ [Next]_vars => SettingsInv'
    BY StepOfOnePart, SettingsHold
<1>3. SettingsInv => OptionsKept
    BY DEF SettingsInv
<1> QED
    BY <1>1, <1>2, <1>3, PTL DEF Spec
-------------------------------------------------------------------------------
(* The reporting line *)

EditsAnywhere == [at : {"idle", "walk", "line"}, who : People \union {Unedited.who},
                  to : People \union {"none"}, chain : SUBSET People,
                  cursor : People \union {"none"}]

LineTyped ==
    /\ managerId \in [People -> People \union {"none"}]
    /\ edit \in [Editors -> EditsAnywhere]
    /\ \A x \in Editors : ~Editing(x, "idle") => edit[x].who \in People /\ edit[x].to \in People

OneEdit == ~tangled => \A x, y \in Editors : ~Editing(x, "idle") /\ ~Editing(y, "idle") => x = y

(* Those an edit has passed on its way up, the proposed manager first. *)
Passed(x) == {edit[x].to} \union edit[x].chain

(* Who reports to whom above the proposed manager is what the walk met, or *)
(* meets next; a walk that is over met everybody, and not the employee.    *)
WalkedUp == ~tangled => \A x \in Editors :
    /\ Editing(x, "walk") => \A p \in Passed(x) :
         managerId[p] \in {"none", edit[x].cursor} \union edit[x].chain
    /\ Editing(x, "line") =>
         /\ edit[x].who \notin Passed(x)
         /\ \A p \in Passed(x) : managerId[p] \in {"none"} \union edit[x].chain

LineInv == LineTyped /\ OneEdit /\ WalkedUp /\ ChainsEnd

(* A link from outside a group that is closed upwards into it closes no ring. *)
LEMMA LinkClosesNoRing ==
    ASSUME NEW m \in [People -> People \union {"none"}], NEW who \in People, NEW to \in People,
           NEW group \in SUBSET People, to \in group, who \notin group,
           \A p \in group : m[p] \in {"none"} \union group,
           \A ring \in (SUBSET People) \ {{}} : \E p \in ring : m[p] \notin ring,
           NEW ring \in (SUBSET People) \ {{}}
    PROVE  \E p \in ring : [m EXCEPT ![who] = to][p] \notin ring
<1> DEFINE n == [m EXCEPT ![who] = to]
<1> SUFFICES ASSUME \A p \in ring : n[p] \in ring PROVE FALSE
    OBVIOUS
<1>1. who \in ring
    BY DEF n
<1>2. to \in ring
    BY <1>1
<1>3. ring \intersect group \in (SUBSET People) \ {{}}
    BY <1>2
<1>4. \A p \in ring \intersect group : m[p] \in ring \intersect group
  <2> SUFFICES ASSUME NEW p \in ring \intersect group PROVE m[p] \in ring \intersect group
      OBVIOUS
  <2>1. n[p] = m[p]
      OBVIOUS
  <2>2. m[p] \in ring
      BY <2>1
  <2> QED
      BY <2>2, DirectoryAssumption
<1> QED
    BY <1>3, <1>4

LEMMA UneditedTyped == Unedited \in EditsAnywhere /\ Unedited.at = "idle"
BY DEF Unedited, EditsAnywhere

(* An edit that ends, refused or dead, takes nothing with it. *)
LEMMA EditedHolds ==
    ASSUME LineInv, NEW x \in Editors, edit' = [edit EXCEPT ![x] = Unedited],
           UNCHANGED <<managerId, tangled>>
    PROVE  LineInv'
<1>1. LineTyped'
    BY UneditedTyped DEF LineInv, LineTyped, Editing
<1>2. \A y \in Editors : edit'[y] = edit[y] \/ edit'[y].at = "idle"
    BY UneditedTyped DEF LineInv, LineTyped
<1> QED
    BY <1>1, <1>2 DEF LineInv, OneEdit, WalkedUp, Passed, Editing, ChainsEnd

LEMMA LineHolds ==
    ASSUME LineInv, [LineNext]_directoryVars
    PROVE  LineInv'
<1> USE DEF LineInv
<1>1. CASE UNCHANGED directoryVars
    BY <1>1 DEF directoryVars, LineTyped, OneEdit, WalkedUp, Passed, ChainsEnd, Editing
<1>2. ASSUME NEW x \in Editors, AssignManager(x)
      PROVE  LineInv'
  <2>1. PICK p \in People, m \in People :
          edit' = [edit EXCEPT ![x] = [at |-> "walk", who |-> p, to |-> m, chain |-> {},
                                       cursor |-> managerId[m]]]
      BY <1>2 DEF AssignManager
  <2>2. tangled' = (tangled \/ \E y \in Editors : ~Editing(y, "idle")) /\ UNCHANGED managerId
      BY <1>2 DEF AssignManager
  <2>3. LineTyped'
      BY <2>1, <2>2 DEF LineTyped, EditsAnywhere, Editing
  <2>4. OneEdit'
      BY <2>1, <2>2 DEF OneEdit, LineTyped, Editing
  <2>5. WalkedUp'
      BY <2>1, <2>2 DEF WalkedUp, LineTyped, Editing, Passed
  <2> QED
      BY <2>2, <2>3, <2>4, <2>5 DEF ChainsEnd
<1>3. ASSUME NEW x \in Editors, RemoveManager(x)
      PROVE  LineInv'
  <2>1. PICK p \in People : managerId' = [managerId EXCEPT ![p] = "none"]
      BY <1>3 DEF RemoveManager
  <2>2. UNCHANGED <<edit, tangled>>
      BY <1>3 DEF RemoveManager
  <2>3. LineTyped'
      BY <2>1, <2>2 DEF LineTyped, Editing
  <2>4. OneEdit'
      BY <2>2 DEF OneEdit, Editing
  <2>5. \A q \in People : managerId'[q] \in {managerId[q], "none"}
      BY <2>1 DEF LineTyped
  <2>6. WalkedUp'
      BY <2>2, <2>5 DEF WalkedUp, LineTyped, EditsAnywhere, Editing, Passed
  <2>7. ChainsEnd'
      BY <2>2, <2>5, DirectoryAssumption DEF ChainsEnd, LineTyped
  <2> QED
      BY <2>3, <2>4, <2>6, <2>7
<1>4. ASSUME NEW x \in Editors, Walk(x)
      PROVE  LineInv'
  <2>1. UNCHANGED <<managerId, tangled>> /\ Editing(x, "walk")
      BY <1>4 DEF Walk
  <2>2. CASE edit[x].cursor # "none" /\ edit[x].cursor \notin edit[x].chain
    <3>1. edit' = [edit EXCEPT ![x].chain = @ \union {edit[x].cursor},
                               ![x].cursor = managerId[edit[x].cursor]]
        BY <1>4, <2>2 DEF Walk
    <3>2. edit[x].cursor \in People
        BY <2>2 DEF LineTyped, EditsAnywhere
    <3>3. LineTyped'
        BY <2>1, <3>1, <3>2 DEF LineTyped, EditsAnywhere, Editing
    <3>4. OneEdit'
        BY <2>1, <3>1 DEF OneEdit, LineTyped, EditsAnywhere, Editing
    <3>5. WalkedUp'
        BY <2>1, <3>1, <3>2 DEF WalkedUp, LineTyped, EditsAnywhere, Editing, Passed
    <3> QED
        BY <2>1, <3>3, <3>4, <3>5 DEF ChainsEnd
  <2>3. CASE edit[x].cursor = "none" \/ edit[x].cursor \in edit[x].chain
    <3>1. CASE LoopsBack(edit[x])
      <4>1. edit' = [edit EXCEPT ![x] = Unedited]
          BY <1>4, <2>3, <3>1 DEF Walk, Edited
      <4> QED
          BY <2>1, <4>1, EditedHolds
    <3>2. CASE ~LoopsBack(edit[x])
      <4>1. edit' = [edit EXCEPT ![x].at = "line"]
          BY <1>4, <2>3, <3>2 DEF Walk
      <4>2. LineTyped'
          BY <2>1, <4>1 DEF LineTyped, EditsAnywhere, Editing
      <4>3. OneEdit'
          BY <2>1, <4>1 DEF OneEdit, LineTyped, EditsAnywhere, Editing
      <4>4. WalkedUp'
          BY <2>1, <2>3, <3>2, <4>1 DEF WalkedUp, LineTyped, EditsAnywhere, Editing, Passed, LoopsBack
      <4> QED
          BY <2>1, <4>2, <4>3, <4>4 DEF ChainsEnd
    <3> QED
        BY <3>1, <3>2
  <2> QED
      BY <2>2, <2>3
<1>5. ASSUME NEW x \in Editors, LineWrite(x)
      PROVE  LineInv'
  <2>1. /\ managerId' = [managerId EXCEPT ![edit[x].who] = edit[x].to]
        /\ edit' = [edit EXCEPT ![x] = Unedited] /\ UNCHANGED tangled /\ Editing(x, "line")
      BY <1>5 DEF LineWrite, Edited
  <2>2. edit[x].who \in People /\ edit[x].to \in People /\ edit[x].chain \subseteq People
      BY <2>1 DEF LineTyped, EditsAnywhere, Editing
  <2>3. \A y \in Editors : ~tangled => edit'[y] = Unedited \/ Editing(y, "idle")
      BY <2>1 DEF LineTyped, OneEdit, Editing
  <2>4. LineTyped'
      BY <2>1, <2>2, UneditedTyped DEF LineTyped, Editing
  <2>5. OneEdit' /\ WalkedUp'
      BY <2>1, <2>3, UneditedTyped DEF LineTyped, OneEdit, WalkedUp, Editing
  <2>6. ~tangled => \A p \in Passed(x) : managerId[p] \in {"none"} \union Passed(x)
      BY <2>1 DEF WalkedUp, Passed
  <2>7. ~tangled => edit[x].who \notin Passed(x)
      BY <2>1 DEF WalkedUp
  <2>8. Passed(x) \in SUBSET People /\ edit[x].to \in Passed(x)
      BY <2>2 DEF Passed
  <2>9. ChainsEnd'
    <3> SUFFICES ASSUME ~tangled, NEW ring \in (SUBSET People) \ {{}}
                 PROVE  \E p \in ring : [managerId EXCEPT ![edit[x].who] = edit[x].to][p] \notin ring
        BY <2>1 DEF ChainsEnd
    <3>1. managerId \in [People -> People \union {"none"}]
        BY DEF LineTyped
    <3>2. \A group \in (SUBSET People) \ {{}} : \E p \in group : managerId[p] \notin group
        BY DEF ChainsEnd
    <3> QED
        BY <2>2, <2>6, <2>7, <2>8, <3>1, <3>2, LinkClosesNoRing
  <2> QED
      BY <2>4, <2>5, <2>9
<1>6. ASSUME NEW x \in Editors, EditDies(x)
      PROVE  LineInv'
    BY <1>6, EditedHolds DEF EditDies, Edited
<1> QED
    BY <1>1, <1>2, <1>3, <1>4, <1>5, <1>6 DEF LineNext

(* No group of people reports to nobody but itself, whatever edits of the  *)
(* directory are tried, die or are refused, as long as no two overlap.     *)
THEOREM ChainsAlwaysEnd == Spec => []ChainsEnd
<1>1. Init => LineInv
  <2> SUFFICES ASSUME DirectoryInit PROVE LineInv
      BY DEF Init
  <2>1. LineTyped
    <3>1. managerId \in [People -> People \union {"none"}]
        BY DEF DirectoryInit
    <3>2. edit \in [Editors -> EditsAnywhere] /\ \A x \in Editors : Editing(x, "idle")
        BY UneditedTyped DEF DirectoryInit, Editing
    <3> QED
        BY <3>1, <3>2 DEF LineTyped
  <2>2. OneEdit /\ WalkedUp
    <3>1. \A x \in Editors : edit[x].at = "idle"
        BY UneditedTyped DEF DirectoryInit
    <3>2. \A x \in Editors : Editing(x, "idle") /\ ~Editing(x, "walk") /\ ~Editing(x, "line")
        BY <3>1 DEF Editing
    <3> QED
        BY <3>2 DEF OneEdit, WalkedUp
  <2>3. ChainsEnd
    <3> SUFFICES ASSUME NEW ring \in (SUBSET People) \ {{}}
                 PROVE  \E p \in ring : managerId[p] \notin ring
        BY DEF ChainsEnd
    <3>1. ring # {} /\ ring \subseteq People
        OBVIOUS
    <3>2. \A p \in ring : managerId[p] = "none"
        BY <3>1 DEF DirectoryInit
    <3> QED
        BY <3>1, <3>2, DirectoryAssumption
  <2> QED
      BY <2>1, <2>2, <2>3 DEF LineInv
<1>2. LineInv /\ [Next]_vars => LineInv'
    BY StepOfOnePart, LineHolds
<1>3. LineInv => ChainsEnd
    BY DEF LineInv
<1> QED
    BY <1>1, <1>2, <1>3, PTL DEF Spec
-------------------------------------------------------------------------------
(* Tenant isolation *)

TenancyTyped ==
    /\ standing \in [Companies -> {"new", "open", "deleted"}]
    /\ caseOf \in [CaseIds -> Owners] /\ taskOf \in [CaseIds -> Owners]
    /\ call \in [Requests -> Calls]
    /\ store \in [Requests -> Companies \union {NoCompany}]
    /\ misled \in BOOLEAN

(* A request has no company in its store before its caller is known, and   *)
(* the caller's own from then on; a checklist is replaced for a case that  *)
(* the company owned, and that is still its own or gone.                   *)
CallSound(r) ==
    /\ Calling(r, "idle") => call[r] = Absent
    /\ call[r].at \in {"idle", "user", "target", "key"} => store[r] = NoCompany
    /\ call[r].at \in {"handler", "task"} => store[r] = call[r].home
    /\ Calling(r, "key") => call[r].row \in CaseIds
    /\ Calling(r, "task") => /\ call[r].row \in CaseIds /\ store[r] \in Companies
                             /\ caseOf[call[r].row] \in {store[r], "gone"}

(* A case that is not there has no task left that waits for a company. *)
NoTaskAlone == \A k \in CaseIds : caseOf[k] \in {"unborn", "gone"} => taskOf[k] = caseOf[k]

TenancyInv ==
    /\ TenancyTyped /\ \A r \in Requests : CallSound(r)
    /\ job.home = job.tenant /\ NoTaskAlone /\ TasksFollow /\ Isolation

(* A case changes its owner once, when it is born or given one, or is gone. *)
OwnersSettle == \A k \in CaseIds :
    caseOf'[k] \in {caseOf[k], "gone"} \/ caseOf[k] \in {NoCompany, "unborn"}

(* A request that changes nothing of itself, or is over, stays sound. *)
LEMMA CallsStaySound ==
    ASSUME TenancyInv, OwnersSettle, TenancyTyped',
           \A r \in Requests : \/ call'[r] = call[r] /\ store'[r] = store[r]
                               \/ call'[r] = Absent /\ store'[r] = NoCompany
    PROVE  \A r \in Requests : CallSound(r)'
<1> SUFFICES ASSUME NEW r \in Requests PROVE CallSound(r)'
    OBVIOUS
<1>1. CASE call'[r] = Absent /\ store'[r] = NoCompany
    BY <1>1 DEF CallSound, Calling, Absent
<1>2. CASE call'[r] = call[r] /\ store'[r] = store[r]
    BY <1>2, TenancyAssumption DEF TenancyInv, CallSound, Calling, OwnersSettle, NoCompany
<1> QED
    BY <1>1, <1>2

LEMMA HangUpTyped ==
    ASSUME TenancyTyped, NEW r \in Requests, HangUp(r)
    PROVE  /\ call' \in [Requests -> Calls] /\ store' \in [Requests -> Companies \union {NoCompany}]
           /\ \A x \in Requests : \/ call'[x] = call[x] /\ store'[x] = store[x]
                                  \/ call'[x] = Absent /\ store'[x] = NoCompany
<1>1. Absent \in Calls
    BY DEF Absent, Calls, CallAwaits, Lanes
<1> QED
    BY <1>1 DEF TenancyTyped, HangUp

(* HireRows of the caller's own company, or of none, are no stray. *)
LEMMA ReachingOwn ==
    ASSUME NEW home, NEW owners, Reaching(home, owners),
           owners \intersect Companies \subseteq {home}
    PROVE  strayed' = strayed
BY DEF Reaching

LEMMA EnterTyped ==
    ASSUME TenancyTyped, NEW r \in Requests, NEW c \in Companies, Enter(r, c)
    PROVE  /\ call' \in [Requests -> Calls] /\ store' \in [Requests -> Companies \union {NoCompany}]
           /\ \A x \in Requests \ {r} : call'[x] = call[x] /\ store'[x] = store[x]
           /\ call'[r].at = "handler" /\ call'[r].home = c /\ store'[r] = c
BY DEF TenancyTyped, Enter, Calls, CallAwaits

LEMMA EnterHolds ==
    ASSUME TenancyInv, NEW r \in Requests, NEW c \in Companies, Enter(r, c),
           UNCHANGED <<tenantRows, job, strayed, misled>>
    PROVE  TenancyInv'
<1>1. TenancyTyped'
    BY EnterTyped DEF TenancyInv, TenancyTyped, tenantRows
<1>2. \A x \in Requests : CallSound(x)'
    BY EnterTyped DEF TenancyInv, CallSound, Calling, tenantRows
<1> QED
    BY <1>1, <1>2 DEF TenancyInv, NoTaskAlone, TasksFollow, Isolation, tenantRows

LEMMA GoneHolds ==
    ASSUME TenancyInv, NEW r \in Requests, HangUp(r),
           UNCHANGED <<tenantRows, job, strayed, misled>>
    PROVE  TenancyInv'
<1>1. TenancyTyped'
    BY HangUpTyped DEF TenancyInv, TenancyTyped, tenantRows
<1>2. \A x \in Requests : CallSound(x)'
    BY <1>1, HangUpTyped, CallsStaySound DEF TenancyInv, OwnersSettle, tenantRows
<1> QED
    BY <1>1, <1>2 DEF TenancyInv, NoTaskAlone, TasksFollow, Isolation, tenantRows

(* Coming in, by whichever lane. *)
LEMMA GuardedHolds ==
    ASSUME TenancyInv, NEW r \in Requests, Guarded(r)
    PROVE  TenancyInv'
<1>0. UNCHANGED <<tenantRows, job, strayed, misled>>
    BY DEF Guarded, Bearer, Trusted, ResolveUser, ResolveTarget, Persona, ByKey, EnterByKey
<1>1. ASSUME call'[r] \in Calls, \A x \in Requests \ {r} : call'[x] = call[x],
             call' \in [Requests -> Calls], UNCHANGED store, CallSound(r)'
      PROVE  TenancyInv'
  <2>1. TenancyTyped'
      BY <1>0, <1>1 DEF TenancyInv, TenancyTyped, tenantRows
  <2>2. \A x \in Requests : CallSound(x)'
      BY <1>0, <1>1 DEF TenancyInv, CallSound, Calling, tenantRows
  <2> QED
      BY <1>0, <2>1, <2>2 DEF TenancyInv, NoTaskAlone, TasksFollow, Isolation, tenantRows
<1>2. CASE Bearer(r) \/ Trusted(r)
  <2>1. PICK lane \in {"bearer", "actor"} :
          call' = [call EXCEPT ![r].lane = lane, ![r].at = "user"]
      BY <1>2 DEF Bearer, Trusted
  <2>2. UNCHANGED store /\ Calling(r, "idle")
      BY <1>2 DEF Bearer, Trusted
  <2> QED
      BY <1>1, <2>1, <2>2 DEF TenancyInv, TenancyTyped, Calls, CallAwaits, Lanes, CallSound, Calling
<1>3. CASE ResolveUser(r)
  <2>1. PICK c \in Companies :
         \/ Enter(r, c)
         \/ call' = [call EXCEPT ![r].home = c, ![r].at = "target"] /\ UNCHANGED store
         \/ HangUp(r)
      BY <1>3 DEF ResolveUser
  <2>2. CASE call' = [call EXCEPT ![r].home = c, ![r].at = "target"] /\ UNCHANGED store
    <3>1. Calling(r, "user")
        BY <1>3 DEF ResolveUser
    <3> QED
        BY <1>1, <2>2, <3>1 DEF TenancyInv, TenancyTyped, Calls, CallAwaits, CallSound, Calling
  <2> QED
      BY <1>0, <2>1, <2>2, EnterHolds, GoneHolds
<1>4. CASE ResolveTarget(r)
    BY <1>0, <1>4, EnterHolds, GoneHolds DEF ResolveTarget
<1>5. CASE Persona(r)
  <2>1. CASE call' = [call EXCEPT ![r].at = "handler"] /\ UNCHANGED store
    <3>1. Calling(r, "idle")
        BY <1>5 DEF Persona
    <3> QED
        BY <1>1, <2>1, <3>1 DEF TenancyInv, TenancyTyped, Calls, CallAwaits, CallSound, Calling, Absent
  <2> QED
      BY <1>0, <1>5, <2>1, EnterHolds DEF Persona
<1>6. CASE ByKey(r)
  <2>1. PICK k \in CaseIds :
          call' = [call EXCEPT ![r].lane = "token", ![r].row = k, ![r].at = "key"]
      BY <1>6 DEF ByKey
  <2>2. UNCHANGED store /\ Calling(r, "idle")
      BY <1>6 DEF ByKey
  <2> QED
      BY <1>1, <2>1, <2>2 DEF TenancyInv, TenancyTyped, Calls, CallAwaits, Lanes, CallSound, Calling
<1>7. CASE EnterByKey(r)
    BY <1>0, <1>7, EnterHolds, GoneHolds DEF EnterByKey
<1> QED
    BY <1>2, <1>3, <1>4, <1>5, <1>6, <1>7 DEF Guarded
-------------------------------------------------------------------------------
(* The handlers, through the extension. *)
LEMMA HandledHolds ==
    ASSUME TenancyInv, NEW r \in Requests, Handled(r)
    PROVE  TenancyInv'
<1>1. ASSUME HangUp(r), UNCHANGED <<job, misled>>, standing' = standing, OwnersSettle,
             caseOf' \in [CaseIds -> Owners], taskOf' \in [CaseIds -> Owners],
             NoTaskAlone', TasksFollow', ~misled => strayed' = strayed
      PROVE  TenancyInv'
  <2>1. TenancyTyped'
      BY <1>1, HangUpTyped DEF TenancyInv, TenancyTyped
  <2>2. \A x \in Requests : CallSound(x)'
      BY <1>1, <2>1, HangUpTyped, CallsStaySound DEF TenancyInv
  <2> QED
      BY <1>1, <2>1, <2>2 DEF TenancyInv, Isolation
<1>2. ASSUME NEW k \in CaseIds, Scoped(store[r], caseOf[k]), ~misled
      PROVE  {caseOf[k], taskOf[k]} \intersect Companies \subseteq {store[r]}
  <2>1. caseOf[k] = store[r] /\ taskOf[k] \in {caseOf[k], NoCompany, "unborn", "gone"}
      BY <1>2 DEF TenancyInv, TasksFollow, Scoped
  <2> QED
      BY <2>1, TenancyAssumption DEF NoCompany
<1>3. Calling(r, "handler") \/ Calling(r, "task") => store[r] = call[r].home
    BY DEF TenancyInv, CallSound, Calling
<1>4. UNCHANGED tenantRows => /\ standing' = standing /\ OwnersSettle /\ NoTaskAlone' /\ TasksFollow'
                              \/ misled' # misled
    BY DEF TenancyInv, NoTaskAlone, TasksFollow, tenantRows, OwnersSettle
<1>5. UNCHANGED tenantRows => caseOf' \in [CaseIds -> Owners] /\ taskOf' \in [CaseIds -> Owners]
    BY DEF TenancyInv, TenancyTyped, tenantRows
<1>6. CASE ReadCase(r)
  <2>1. PICK k \in CaseIds :
          Reaching(call[r].home, IF Scoped(store[r], caseOf[k]) THEN {caseOf[k], taskOf[k]} ELSE {})
      BY <1>6 DEF ReadCase
  <2>2. ~misled => strayed' = strayed
      BY <1>2, <1>3, <1>6, <2>1, ReachingOwn DEF ReadCase
  <2> QED
      BY <1>1, <1>4, <1>5, <1>6, <2>2 DEF ReadCase
<1>7. CASE SetTask(r)
  <2>1. PICK k \in CaseIds :
          Reaching(call[r].home, IF Scoped(store[r], taskOf[k]) THEN {taskOf[k]} ELSE {})
      BY <1>7 DEF SetTask
  <2>2. ~misled => strayed' = strayed
      BY <1>3, <1>7, <2>1, ReachingOwn DEF SetTask, Scoped
  <2> QED
      BY <1>1, <1>4, <1>5, <1>7, <2>2 DEF SetTask
<1>8. CASE CreateCase(r)
  <2>1. PICK k \in CaseIds : /\ caseOf[k] = "unborn"
                             /\ caseOf' = [caseOf EXCEPT ![k] = store[r]]
                             /\ taskOf' = [taskOf EXCEPT ![k] = store[r]]
      BY <1>8 DEF CreateCase
  <2>2. store[r] \in Companies
      BY <1>8 DEF CreateCase, TenancyInv, TenancyTyped
  <2>3. caseOf' \in [CaseIds -> Owners] /\ taskOf' \in [CaseIds -> Owners]
      BY <2>1, <2>2 DEF TenancyInv, TenancyTyped, Owners
  <2>4. OwnersSettle
      BY <2>1 DEF OwnersSettle, TenancyInv, TenancyTyped
  <2>5. NoTaskAlone'
      BY <2>1 DEF TenancyInv, TenancyTyped, NoTaskAlone
  <2>6. TasksFollow'
      BY <1>8, <2>1 DEF CreateCase, TenancyInv, TenancyTyped, TasksFollow
  <2> QED
      BY <1>1, <1>8, <2>3, <2>4, <2>5, <2>6 DEF CreateCase
<1>9. CASE SetChecklist(r)
  <2>0. PICK k \in CaseIds : IF Scoped(store[r], caseOf[k])
           THEN call' = [call EXCEPT ![r].row = k, ![r].at = "task"] /\ UNCHANGED store
           ELSE HangUp(r)
      BY <1>9 DEF SetChecklist
  <2>1. CASE Scoped(store[r], caseOf[k])
    <3>1. call' = [call EXCEPT ![r].row = k, ![r].at = "task"] /\ UNCHANGED store
        BY <2>0, <2>1
    <3>2. UNCHANGED <<tenantRows, job, strayed, misled>> /\ Calling(r, "handler")
        BY <1>9 DEF SetChecklist
    <3>3. TenancyTyped'
        BY <3>1, <3>2 DEF TenancyInv, TenancyTyped, tenantRows, Calls, CallAwaits
    <3>4. store[r] \in Companies /\ caseOf[k] = store[r]
        BY <2>1 DEF TenancyInv, TenancyTyped, Scoped
    <3>5. \A x \in Requests : CallSound(x)'
        BY <1>3, <3>1, <3>2, <3>4 DEF TenancyInv, TenancyTyped, Calls, CallSound, Calling, tenantRows
    <3> QED
        BY <3>2, <3>3, <3>5 DEF TenancyInv, NoTaskAlone, TasksFollow, Isolation, tenantRows
  <2>2. CASE ~Scoped(store[r], caseOf[k])
      BY <1>9, <2>0, <2>2, GoneHolds DEF SetChecklist
  <2> QED
      BY <2>1, <2>2
<1>10. CASE ReplaceTask(r)
  <2>1. UNCHANGED <<standing, caseOf, job, misled>> /\ HangUp(r) /\ Calling(r, "task")
      BY <1>10 DEF ReplaceTask
  <2>2. /\ call[r].row \in CaseIds /\ store[r] \in Companies
        /\ caseOf[call[r].row] \in {store[r], "gone"}
      BY <2>1 DEF TenancyInv, CallSound
  <2>3. OwnersSettle
      BY <2>1 DEF OwnersSettle
  <2>4. CASE caseOf[call[r].row] = "gone"
    <3>1. UNCHANGED <<taskOf, strayed>>
        BY <1>10, <2>4 DEF ReplaceTask
    <3> QED
        BY <2>1, <3>1, GoneHolds DEF tenantRows
  <2>5. CASE caseOf[call[r].row] # "gone"
    <3>1. /\ taskOf' = [taskOf EXCEPT ![call[r].row] = store[r]]
          /\ Reaching(call[r].home, {caseOf[call[r].row]})
        BY <1>10, <2>5 DEF ReplaceTask
    <3>2. strayed' = strayed
        BY <1>3, <2>1, <2>2, <2>5, <3>1, ReachingOwn
    <3>3. caseOf' \in [CaseIds -> Owners] /\ taskOf' \in [CaseIds -> Owners]
        BY <2>1, <2>2, <3>1 DEF TenancyInv, TenancyTyped, Owners
    <3>4. NoTaskAlone'
        BY <2>1, <2>2, <2>5, <3>1, TenancyAssumption DEF TenancyInv, TenancyTyped, NoTaskAlone
    <3>5. TasksFollow'
        BY <2>1, <2>2, <2>5, <3>1 DEF TenancyInv, TenancyTyped, TasksFollow
    <3> QED
        BY <1>1, <2>1, <2>3, <3>2, <3>3, <3>4, <3>5
  <2> QED
      BY <2>4, <2>5
<1>11. CASE DeleteCase(r)
  <2>1. PICK k \in CaseIds :
         IF Scoped(store[r], caseOf[k])
           THEN /\ Reaching(call[r].home, {caseOf[k], taskOf[k]})
                /\ caseOf' = [caseOf EXCEPT ![k] = "gone"]
                /\ taskOf' = [taskOf EXCEPT ![k] = "gone"]
           ELSE UNCHANGED <<caseOf, taskOf, strayed>>
      BY <1>11 DEF DeleteCase
  <2>2. HangUp(r) /\ UNCHANGED <<standing, job, misled>> /\ Calling(r, "handler")
      BY <1>11 DEF DeleteCase
  <2>3. CASE Scoped(store[r], caseOf[k])
    <3>1. /\ caseOf' = [caseOf EXCEPT ![k] = "gone"] /\ taskOf' = [taskOf EXCEPT ![k] = "gone"]
          /\ Reaching(call[r].home, {caseOf[k], taskOf[k]})
        BY <2>1, <2>3
    <3>2. ~misled => strayed' = strayed
        BY <1>2, <1>3, <2>2, <2>3, <3>1, ReachingOwn
    <3>3. caseOf' \in [CaseIds -> Owners] /\ taskOf' \in [CaseIds -> Owners] /\ OwnersSettle
        BY <3>1 DEF TenancyInv, TenancyTyped, Owners, OwnersSettle
    <3>4. NoTaskAlone'
        BY <3>1 DEF TenancyInv, TenancyTyped, NoTaskAlone
    <3>5. TasksFollow'
        BY <2>2, <3>1 DEF TenancyInv, TenancyTyped, TasksFollow
    <3> QED
        BY <1>1, <2>2, <3>2, <3>3, <3>4, <3>5
  <2>4. CASE ~Scoped(store[r], caseOf[k])
      BY <2>1, <2>2, <2>4, GoneHolds DEF tenantRows
  <2> QED
      BY <2>3, <2>4
<1>12. CASE StartJob(r)
  <2>1. /\ job' = [home |-> call[r].home, tenant |-> store[r]] /\ HangUp(r)
        /\ UNCHANGED <<tenantRows, strayed, misled>> /\ Calling(r, "handler")
      BY <1>12 DEF StartJob
  <2>2. TenancyTyped'
      BY <2>1, HangUpTyped DEF TenancyInv, TenancyTyped, tenantRows
  <2>3. \A x \in Requests : CallSound(x)'
      BY <1>4, <2>1, <2>2, HangUpTyped, CallsStaySound DEF TenancyInv
  <2>4. job'.home = job'.tenant
      BY <1>3, <2>1
  <2> QED
      BY <2>1, <2>2, <2>3, <2>4 DEF TenancyInv, NoTaskAlone, TasksFollow, Isolation, tenantRows
<1> QED
    BY <1>6, <1>7, <1>8, <1>9, <1>10, <1>11, <1>12 DEF Handled

(* Companies that open and close, and the two scripts. *)
LEMMA AcrossHolds ==
    ASSUME TenancyInv, OpenCompany \/ CloseCompany \/ RepairNested \/ BackfillTenant
    PROVE  TenancyInv'
<1>1. UNCHANGED <<call, store, job, strayed>>
    BY DEF OpenCompany, CloseCompany, RepairNested, BackfillTenant
<1>2. ASSUME standing' \in [Companies -> {"new", "open", "deleted"}], OwnersSettle,
             caseOf' \in [CaseIds -> Owners], taskOf' \in [CaseIds -> Owners],
             misled' \in BOOLEAN, misled => misled', NoTaskAlone', TasksFollow'
      PROVE  TenancyInv'
  <2>1. TenancyTyped'
      BY <1>1, <1>2 DEF TenancyInv, TenancyTyped
  <2>2. \A x \in Requests : CallSound(x)'
      BY <1>1, <1>2, <2>1, CallsStaySound
  <2> QED
      BY <1>1, <1>2, <2>1, <2>2 DEF TenancyInv, Isolation
<1>3. CASE OpenCompany
  <2>1. standing' \in [Companies -> {"new", "open", "deleted"}] /\ UNCHANGED <<caseOf, taskOf, misled>>
      BY <1>3 DEF OpenCompany, TenancyInv, TenancyTyped
  <2> QED
      BY <1>2, <2>1 DEF TenancyInv, TenancyTyped, OwnersSettle, NoTaskAlone, TasksFollow
<1>4. CASE CloseCompany
  <2>1. PICK c \in Companies :
         /\ standing' = [standing EXCEPT ![c] = "deleted"]
         /\ caseOf' = [k \in CaseIds |-> IF caseOf[k] = c THEN "gone" ELSE caseOf[k]]
         /\ taskOf' = [k \in CaseIds |-> IF c \in {caseOf[k], taskOf[k]} THEN "gone" ELSE taskOf[k]]
      BY <1>4 DEF CloseCompany
  <2>2. misled' = misled
      BY <1>4 DEF CloseCompany
  <2>3. standing' \in [Companies -> {"new", "open", "deleted"}] /\ OwnersSettle
        /\ caseOf' \in [CaseIds -> Owners] /\ taskOf' \in [CaseIds -> Owners]
      BY <2>1 DEF TenancyInv, TenancyTyped, Owners, OwnersSettle
  <2>4. NoTaskAlone'
      BY <2>1, TenancyAssumption DEF TenancyInv, TenancyTyped, NoTaskAlone
  <2>5. TasksFollow'
      BY <2>1, <2>2 DEF TenancyInv, TenancyTyped, TasksFollow
  <2> QED
      BY <1>2, <2>2, <2>3, <2>4, <2>5 DEF TenancyInv, TenancyTyped
<1>5. CASE RepairNested
  <2>1. taskOf' = [k \in CaseIds |->
           IF taskOf[k] = NoCompany /\ caseOf[k] \in Companies THEN caseOf[k] ELSE taskOf[k]]
        /\ UNCHANGED <<standing, caseOf, misled>>
      BY <1>5 DEF RepairNested
  <2>2. caseOf' \in [CaseIds -> Owners] /\ taskOf' \in [CaseIds -> Owners] /\ OwnersSettle
      BY <2>1 DEF TenancyInv, TenancyTyped, Owners, OwnersSettle
  <2>3. NoTaskAlone'
      BY <2>1, TenancyAssumption DEF TenancyInv, TenancyTyped, NoTaskAlone
  <2>4. TasksFollow'
      BY <2>1 DEF TenancyInv, TenancyTyped, TasksFollow
  <2> QED
      BY <1>2, <2>1, <2>2, <2>3, <2>4 DEF TenancyInv, TenancyTyped
<1>6. CASE BackfillTenant
  <2>1. PICK c \in Companies :
         /\ standing' = [standing EXCEPT ![c] = "open"]
         /\ caseOf' = [k \in CaseIds |-> IF caseOf[k] = NoCompany THEN c ELSE caseOf[k]]
         /\ taskOf' = [k \in CaseIds |-> IF taskOf[k] = NoCompany THEN c ELSE taskOf[k]]
      BY <1>6 DEF BackfillTenant
  <2>2. misled' = (misled \/ \E k \in CaseIds : caseOf[k] \in Companies /\ taskOf[k] = NoCompany)
      BY <1>6 DEF BackfillTenant
  <2>3. standing' \in [Companies -> {"new", "open", "deleted"}] /\ OwnersSettle
        /\ caseOf' \in [CaseIds -> Owners] /\ taskOf' \in [CaseIds -> Owners]
      BY <2>1 DEF TenancyInv, TenancyTyped, Owners, OwnersSettle
  <2>4. NoTaskAlone'
      BY <2>1, TenancyAssumption DEF TenancyInv, TenancyTyped, NoTaskAlone, NoCompany
  <2>5. TasksFollow'
    <3> SUFFICES ASSUME ~misled, NEW k \in CaseIds,
                        ~(caseOf[k] \in Companies /\ taskOf[k] = NoCompany)
                 PROVE  taskOf'[k] \in {caseOf'[k], NoCompany, "unborn", "gone"}
        BY <2>2 DEF TasksFollow
    <3>1. taskOf[k] \in {caseOf[k], NoCompany, "unborn", "gone"} /\ caseOf[k] \in Owners
        BY DEF TenancyInv, TenancyTyped, TasksFollow
    <3>2. caseOf[k] \in {"unborn", "gone"} => taskOf[k] = caseOf[k]
        BY DEF TenancyInv, NoTaskAlone
    <3> QED
        BY <2>1, <3>1, <3>2 DEF Owners, NoCompany
  <2>6. misled' \in BOOLEAN
      BY <2>2
  <2> QED
      BY <1>2, <2>2, <2>3, <2>4, <2>5, <2>6
<1> QED
    BY <1>3, <1>4, <1>5, <1>6

LEMMA TenancyHolds ==
    ASSUME TenancyInv, [TenancyNext]_tenantVars
    PROVE  TenancyInv'
<1>1. CASE UNCHANGED tenantVars
    BY <1>1 DEF tenantVars, tenantRows, TenancyInv, TenancyTyped, CallSound, Calling, NoTaskAlone,
                TasksFollow, Isolation
<1>2. CASE JobStep
  <2>1. PICK k \in CaseIds :
         Reaching(job.home, IF Scoped(job.tenant, caseOf[k]) THEN {caseOf[k]} ELSE {})
      BY <1>2 DEF JobStep
  <2>2. strayed' = strayed
      BY <2>1, ReachingOwn DEF TenancyInv, Scoped
  <2> QED
      BY <1>2, <2>2 DEF JobStep, TenancyInv, TenancyTyped, tenantRows, CallSound, Calling,
                        NoTaskAlone, TasksFollow, Isolation
<1>3. CASE EndJob
    BY <1>3 DEF EndJob, NoJob, TenancyInv, TenancyTyped, tenantRows, CallSound, Calling,
                NoTaskAlone, TasksFollow, Isolation
<1> QED
    BY <1>1, <1>2, <1>3, GuardedHolds, HandledHolds, AcrossHolds DEF TenancyNext

LEMMA TenancyStarts == Init => TenancyInv
<1> SUFFICES ASSUME TenancyInit PROVE TenancyInv
    BY DEF Init
<1>1. Absent \in Calls /\ Absent.at = "idle"
    BY DEF Absent, Calls, CallAwaits, Lanes
<1>2. caseOf \in [CaseIds -> Owners] /\ taskOf \in [CaseIds -> Owners]
    BY DEF TenancyInit, Owners
<1>3. standing \in [Companies -> {"new", "open", "deleted"}] /\ misled = FALSE
    BY DEF TenancyInit
<1>4. call \in [Requests -> Calls] /\ store \in [Requests -> Companies \union {NoCompany}]
    BY <1>1 DEF TenancyInit
<1>5. \A r \in Requests : CallSound(r)
    BY <1>1 DEF TenancyInit, CallSound, Calling
<1>6. NoTaskAlone
  <2> SUFFICES ASSUME NEW k \in CaseIds, caseOf[k] \in {"unborn", "gone"}
               PROVE  taskOf[k] = caseOf[k]
      BY DEF NoTaskAlone
  <2>1. caseOf[k] \in Companies \union {NoCompany, "unborn"}
      BY DEF TenancyInit
  <2>2. caseOf[k] = "unborn"
      BY <2>1, TenancyAssumption DEF NoCompany
  <2> QED
      BY <2>2 DEF TenancyInit
<1>7. TasksFollow
    BY DEF TenancyInit, TasksFollow
<1>8. Isolation /\ job.home = job.tenant
    BY DEF TenancyInit, Isolation, NoJob
<1> QED
    BY <1>2, <1>3, <1>4, <1>5, <1>6, <1>7, <1>8 DEF TenancyInv, TenancyTyped

(* A caller reaches rows of his own company only, whichever lane he came in *)
(* by and whatever else is in flight, runs in the background or is deleted, *)
(* unless a backfill ran where a repair was due.                            *)
THEOREM TenantsIsolated == Spec => []Isolation
<1>1. TenancyInv /\ [Next]_vars => TenancyInv'
    BY StepOfOnePart, TenancyHolds
<1>2. TenancyInv => Isolation
    BY DEF TenancyInv
<1> QED
    BY <1>1, <1>2, TenancyStarts, PTL DEF Spec

(* With the same exception a task has the company of its case, or none yet. *)
THEOREM TasksAlwaysFollow == Spec => []TasksFollow
<1>1. TenancyInv /\ [Next]_vars => TenancyInv'
    BY StepOfOnePart, TenancyHolds
<1>2. TenancyInv => TasksFollow
    BY DEF TenancyInv
<1> QED
    BY <1>1, <1>2, TenancyStarts, PTL DEF Spec
-------------------------------------------------------------------------------
(* A hire's personal data *)

FormValues == [Columns -> Typists \cup {Untyped}]
HireRows == [sin : Typists \cup {Untyped, "hand"}, rest : Typists \cup {Untyped, "hand"},
         private : Typists \cup {Untyped, "hand"}, named : {"case", "legal"},
         status : {"no row", "PRE_HIRE", "ACTIVE"}]
ContactRows == [by : Jobs \cup Clerks, primary : BOOLEAN]
Steps == {"ready", "done", "secrets", "save", "birthday", "sync", "push", "kin", "create kin", "update kin", "settle", "status", "provision", "promote", "adopt", "create", "link", "first kin", "clear"}
DeskRequests == [at : Steps, form : FormValues, flag : BOOLEAN, kin : Jobs \cup Clerks \cup {Untyped}]
Pasts == [typed : Typists \cup {Untyped}, crossed : BOOLEAN, alone : BOOLEAN, settled : BOOLEAN,
          byHand : SUBSET Columns, overlapped : BOOLEAN]

RecordTyped ==
    /\ activated \in BOOLEAN /\ linked \in BOOLEAN
    /\ profile \in FormValues /\ record \in HireRows /\ contacts \subseteq ContactRows
    /\ desk \in [Jobs \cup Clerks -> DeskRequests] /\ past \in Pasts

LEMMA BlanksTyped ==
    /\ NoProfile \in FormValues /\ NoRequest \in DeskRequests
    /\ Blank \in HireRows /\ NoRecord \in HireRows
<1>1. NoProfile \in FormValues
    BY DEF NoProfile, FormValues
<1>2. NoRequest \in DeskRequests
    BY <1>1 DEF NoRequest, DeskRequests, Steps
<1>3. Blank \in HireRows /\ NoRecord \in HireRows
    BY DEF Blank, NoRecord, HireRows
<1> QED
    BY <1>1, <1>2, <1>3

(* A request that goes on, or ends, keeps the desk typed. *)
LEMMA GoTyped ==
    ASSUME RecordTyped, NEW j \in Jobs \cup Clerks, NEW step \in Steps, Go(j, step)
    PROVE  desk' \in [Jobs \cup Clerks -> DeskRequests]
BY DEF RecordTyped, Go, DeskRequests

LEMMA GoWithTyped ==
    ASSUME RecordTyped, NEW j \in Jobs \cup Clerks, NEW step \in Steps, NEW form \in FormValues,
           desk' = [desk EXCEPT ![j].form = form, ![j].at = step]
    PROVE  desk' \in [Jobs \cup Clerks -> DeskRequests]
BY DEF RecordTyped, DeskRequests

LEMMA PushTyped ==
    ASSUME NEW form \in FormValues, NEW row \in HireRows
    PROVE  hrisFieldsFromCase(form, row) \in HireRows
BY DEF hrisFieldsFromCase, FormValues, HireRows, Columns

LEMMA SubmissionTyped ==
    ASSUME RecordTyped, NEW t \in Typists, Submission(t)
    PROVE  RecordTyped'
<1>0. t \in Jobs \cup Clerks
    BY DEF Jobs
<1>1. ASSUME NEW form \in Forms, SubmitProfile(t, form)
      PROVE  RecordTyped'
  <2>1. Signed(t, form) \in FormValues
      BY DEF Signed, FormValues
  <2>2. [NoRequest EXCEPT !.at = "secrets", !.form = Signed(t, form)] \in DeskRequests
      BY <2>1, BlanksTyped DEF DeskRequests, Steps
  <2>3. desk' \in [Jobs \cup Clerks -> DeskRequests]
      BY <1>0, <1>1, <2>2, GoTyped DEF Steps, SubmitProfile, Submit, RecordTyped
  <2>4. past' \in Pasts
      BY <1>1 DEF SubmitProfile, Submit, RecordTyped, Pasts
  <2> QED
      BY <1>1, <2>3, <2>4 DEF SubmitProfile, Submit, RecordTyped
<1>2. CASE withSecretsOnFile(t)
  <2>1. profile.sin \in Typists \cup {Untyped}
      BY DEF RecordTyped, FormValues, Columns
  <2>2. [desk[t].form EXCEPT !.sin = IF @ = Untyped THEN profile.sin ELSE @] \in FormValues
      BY <1>0, <2>1 DEF RecordTyped, Steps, DeskRequests, FormValues, Columns
  <2>3. desk' \in [Jobs \cup Clerks -> DeskRequests]
      BY <1>0, <1>2, <2>2, GoWithTyped DEF withSecretsOnFile, SecretsFrom, rawProfile, Steps
  <2> QED
      BY <1>2, <2>3 DEF withSecretsOnFile, SecretsFrom, RecordTyped
<1>3. CASE SaveProfile(t)
  <2>1. desk' \in [Jobs \cup Clerks -> DeskRequests]
      BY <1>0, <1>3, GoTyped DEF Steps, SaveProfile
  <2>2. profile' \in FormValues /\ past' \in Pasts
      BY <1>0, <1>3 DEF SaveProfile, RecordTyped, Steps, DeskRequests, Pasts
  <2> QED
      BY <1>3, <2>1, <2>2 DEF SaveProfile, RecordTyped
<1>4. CASE SpreadBirthday(t)
  <2>1. desk' \in [Jobs \cup Clerks -> DeskRequests]
      BY <1>0, <1>4, GoTyped DEF Steps, SpreadBirthday
  <2>2. record' \in HireRows
      BY <1>0, <1>4 DEF SpreadBirthday, RecordTyped, Steps, DeskRequests, FormValues, Columns, HireRows
  <2> QED
      BY <1>4, <2>1, <2>2 DEF SpreadBirthday, RecordTyped
<1>5. CASE Settle(t) \/ SettleWrite(t)
  <2>1. desk' \in [Jobs \cup Clerks -> DeskRequests]
      BY <1>0, <1>5, GoTyped DEF Steps, Settle, SettleWrite
  <2> QED
      BY <1>5, <2>1 DEF Settle, SettleWrite, RecordTyped
<1> QED
    BY <1>1, <1>2, <1>3, <1>4, <1>5 DEF Submission

LEMMA SyncTyped ==
    ASSUME RecordTyped, NEW j \in Jobs, SyncRead(j) \/ SyncPush(j) \/ SyncKin(j) \/ WriteKin(j)
    PROVE  RecordTyped'
<1>1. CASE SyncRead(j)
  <2>1. desk' \in [Jobs \cup Clerks -> DeskRequests]
      BY <1>1, GoTyped, GoWithTyped DEF Steps, SyncRead, Synced, RecordTyped
  <2> QED
      BY <1>1, <2>1 DEF SyncRead, RecordTyped
<1>2. CASE SyncPush(j)
  <2>1. desk' \in [Jobs \cup Clerks -> DeskRequests]
      BY <1>2, GoTyped DEF Steps, SyncPush
  <2>2. record' \in HireRows
      BY <1>2, PushTyped DEF SyncPush, RecordTyped, Steps, DeskRequests
  <2> QED
      BY <1>2, <2>1, <2>2 DEF SyncPush, RecordTyped
<1>3. CASE SyncKin(j)
  <2>1. desk' \in [Jobs \cup Clerks -> DeskRequests]
    <3>1. CASE Go(j, "create kin")
        BY <3>1, GoTyped DEF Steps
    <3>2. ASSUME NEW c \in contacts, desk' = [desk EXCEPT ![j].at = "update kin", ![j].kin = c.by]
          PROVE  desk' \in [Jobs \cup Clerks -> DeskRequests]
      <4>1. c.by \in Jobs \cup Clerks
          BY DEF RecordTyped, ContactRows
      <4> QED
          BY <3>2, <4>1 DEF RecordTyped, DeskRequests, Steps
    <3> QED
        BY <1>3, <3>1, <3>2 DEF SyncKin
  <2> QED
      BY <1>3, <2>1 DEF SyncKin, RecordTyped
<1>4. CASE WriteKin(j)
  <2>1. [NoRequest EXCEPT !.at = IF KinThere(j) THEN Synced(j) ELSE "done"] \in DeskRequests
      BY BlanksTyped DEF DeskRequests, Steps, Synced
  <2>2. desk' \in [Jobs \cup Clerks -> DeskRequests]
      BY <1>4, <2>1 DEF WriteKin, RecordTyped
  <2>3. contacts' \subseteq ContactRows
    <3>1. [by |-> j, primary |-> FALSE] \in ContactRows
        BY DEF ContactRows
    <3> QED
        BY <1>4, <3>1 DEF WriteKin, RecordTyped
  <2>4. past' \in Pasts
      BY <1>4 DEF WriteKin, RecordTyped, Pasts
  <2> QED
      BY <1>4, <2>2, <2>3, <2>4 DEF WriteKin, RecordTyped
<1> QED
    BY <1>1, <1>2, <1>3, <1>4

LEMMA ActivationTyped ==
    ASSUME RecordTyped, Activation
    PROVE  RecordTyped'
<1>0. HR \in Jobs \cup Clerks
    BY DEF Jobs
<1>1. CASE Activate
  <2>1. [NoRequest EXCEPT !.at = IF activated THEN "provision" ELSE "status", !.flag = activated]
          \in DeskRequests
      BY BlanksTyped DEF DeskRequests, Steps, RecordTyped
  <2>2. desk' \in [Jobs \cup Clerks -> DeskRequests]
      BY <1>0, <1>1, <2>1 DEF Activate, RecordTyped
  <2>3. past' \in Pasts
      BY <1>1 DEF Activate, RecordTyped, Pasts
  <2> QED
      BY <1>1, <2>2, <2>3 DEF Activate, RecordTyped
<1>2. CASE SetActive
    BY <1>0, <1>2, GoTyped DEF Steps, SetActive, RecordTyped
<1>3. CASE ProvisionRead
  <2>1. desk' \in [Jobs \cup Clerks -> DeskRequests]
      BY <1>0, <1>3, GoWithTyped DEF ProvisionRead, RecordTyped, Steps
  <2> QED
      BY <1>3, <2>1 DEF ProvisionRead, RecordTyped
<1>4. CASE CreateHire
  <2>1. [Blank EXCEPT !.status = "ACTIVE"] \in HireRows
      BY BlanksTyped DEF HireRows
  <2>2. record' \in HireRows
      BY <1>0, <1>4, <2>1, PushTyped DEF CreateHire, RecordTyped, Steps, DeskRequests
  <2> QED
      BY <1>0, <1>4, <2>2, GoTyped DEF Steps, CreateHire, RecordTyped
<1>5. CASE LinkEmployee
    BY <1>0, <1>5, GoTyped DEF Steps, LinkEmployee, After, RecordTyped
<1>6. CASE FirstKin
  <2>1. contacts' \subseteq ContactRows
    <3>1. [by |-> HR, primary |-> FALSE] \in ContactRows
        BY <1>0 DEF ContactRows
    <3> QED
        BY <1>6, <3>1 DEF FirstKin, RecordTyped
  <2> QED
      BY <1>0, <1>6, <2>1, GoTyped DEF Steps, FirstKin, After, RecordTyped
<1>7. CASE Promote
  <2>1. record' \in HireRows
      BY <1>7 DEF Promote, PromoteTo, RecordTyped, HireRows
  <2> QED
      BY <1>0, <1>7, <2>1, GoTyped DEF Steps, Promote, PromoteTo, After, RecordTyped
<1> QED
    BY <1>1, <1>2, <1>3, <1>4, <1>5, <1>6, <1>7 DEF Activation

LEMMA HandTyped ==
    ASSUME RecordTyped, NEW who \in {"hr", "self"}, NEW column \in Columns, UpdateEmployee(who, column)
    PROVE  RecordTyped'
<1>1. record' \in HireRows
    BY DEF UpdateEmployee, RecordTyped, Columns, HireRows
<1>2. past' \in Pasts
    BY DEF UpdateEmployee, RecordTyped, Pasts
<1> QED
    BY <1>1, <1>2 DEF UpdateEmployee, RecordTyped

LEMMA ContactTyped ==
    ASSUME RecordTyped,
           \/ \E k \in Clerks, p \in BOOLEAN : AddContact(k, p)
           \/ \E k \in Clerks : ClearPrimary(k) \/ CreateContact(k)
           \/ \E c \in contacts : DeleteContact(c)
    PROVE  RecordTyped'
<1>1. ASSUME NEW k \in Clerks, NEW p \in BOOLEAN, AddContact(k, p)
      PROVE  RecordTyped'
  <2>1. desk' \in [Jobs \cup Clerks -> DeskRequests]
    <3>1. desk' = [desk EXCEPT ![k].at = IF p THEN "clear" ELSE "create", ![k].flag = p]
        BY <1>1 DEF AddContact
    <3>2. (IF p THEN "clear" ELSE "create") \in Steps
        BY DEF Steps
    <3> QED
        BY <3>1, <3>2 DEF RecordTyped, DeskRequests
  <2>2. past' \in Pasts
      BY <1>1 DEF AddContact, RecordTyped, Pasts
  <2> QED
      BY <1>1, <2>1, <2>2 DEF AddContact, RecordTyped
<1>2. ASSUME NEW k \in Clerks, ClearPrimary(k)
      PROVE  RecordTyped'
  <2>1. contacts' \subseteq ContactRows
      BY <1>2 DEF ClearPrimary, RecordTyped, ContactRows
  <2> QED
      BY <1>2, <2>1, GoTyped DEF Steps, ClearPrimary, RecordTyped
<1>3. ASSUME NEW k \in Clerks, CreateContact(k)
      PROVE  RecordTyped'
  <2>1. contacts' \subseteq ContactRows
      BY <1>3 DEF CreateContact, RecordTyped, ContactRows, DeskRequests
  <2> QED
      BY <1>3, <2>1, GoTyped DEF Steps, CreateContact, RecordTyped
<1>4. ASSUME NEW c \in contacts, DeleteContact(c)
      PROVE  RecordTyped'
    BY <1>4 DEF DeleteContact, RecordTyped
<1> QED
    BY <1>1, <1>2, <1>3, <1>4

LEMMA FailTyped ==
    ASSUME RecordTyped, NEW j \in Jobs \cup Clerks, Fail(j)
    PROVE  RecordTyped'
<1>1. [NoRequest EXCEPT !.at = "done"] \in DeskRequests
    BY BlanksTyped DEF DeskRequests, Steps
<1>2. past' \in Pasts
    BY DEF Fail, RecordTyped, Pasts
<1> QED
    BY <1>1, <1>2 DEF Fail, RecordTyped

LEMMA RecordStaysTyped ==
    ASSUME RecordTyped, [RecordNext]_recordVars
    PROVE  RecordTyped'
<1>1. CASE UNCHANGED recordVars
    BY <1>1 DEF recordVars, RecordTyped
<1>2. CASE SettleElsewhere
    BY <1>2 DEF SettleElsewhere, RecordTyped
<1> QED
    BY <1>1, <1>2, SubmissionTyped, SyncTyped, ActivationTyped, HandTyped, ContactTyped, FailTyped
       DEF RecordNext
-------------------------------------------------------------------------------
(* The secrets: one submission at a time, unless two crossed, carries what  *)
(* was typed last.                                                          *)

SecretsInv ==
    /\ SecretsCarried
    /\ \A t \in Typists :
         /\ desk[t].at = "secrets" => desk[t].form.sin \in {t, Untyped}
         /\ desk[t].at = "save" =>
              /\ desk[t].form.sin \in Typists
              /\ past.crossed \/ desk[t].form.sin \in {t, profile.sin}
    /\ past.crossed \/ \A t, u \in Typists : Busy(t) /\ Busy(u) => t = u

(* Requests that only go on elsewhere, or end, leave the secrets alone. *)
LEMMA SecretsLeftAlone ==
    ASSUME SecretsInv, profile' = profile, past'.typed = past.typed,
           past.crossed => past'.crossed,
           \A t \in Typists :
             \/ desk'[t] = desk[t]
             \/ desk'[t].at \notin {"secrets", "save"} /\ (Busy(t)' => Busy(t))
    PROVE  SecretsInv'
<1>1. \A t \in Typists : Busy(t)' => Busy(t)
    BY DEF Busy
<1>2. SecretsCarried'
    BY DEF SecretsInv, SecretsCarried
<1> QED
    BY <1>1, <1>2 DEF SecretsInv

LEMMA SecretsHold ==
    ASSUME RecordTyped, SecretsInv, [RecordNext]_recordVars
    PROVE  SecretsInv'
<1>0. Typists \subseteq Jobs \cup Clerks /\ HR \in Jobs \cup Clerks
      /\ Clerks \intersect Jobs = {} /\ HR \notin Typists /\ Untyped \notin Typists
    BY RecordAssumption DEF Jobs, HR, Untyped
<1>1. CASE UNCHANGED recordVars
    BY <1>1 DEF recordVars, SecretsInv, SecretsCarried, Busy
<1>2. ASSUME NEW t \in Typists, NEW form \in Forms, SubmitProfile(t, form)
      PROVE  SecretsInv'
  <2>1. /\ profile' = profile /\ desk[t].at = "ready"
        /\ past' = [past EXCEPT !.crossed = @ \/ \E u \in Typists : Busy(u), !.alone = @ /\ activated,
                                !.byHand = IF activated THEN @ ELSE {}]
      BY <1>2 DEF SubmitProfile, Submit
  <2>2. past'.typed = past.typed /\ past'.crossed = (past.crossed \/ \E u \in Typists : Busy(u))
      BY <2>1 DEF RecordTyped, Pasts
  <2>3. CASE activated
    <3>1. desk' = [desk EXCEPT ![t].at = "done"]
        BY <1>2, <2>3 DEF SubmitProfile, Submit, Go
    <3>2. desk'[t].at = "done" /\ \A u \in Typists \ {t} : desk'[u] = desk[u]
        BY <1>0, <3>1 DEF RecordTyped, DeskRequests
    <3> QED
        BY <2>1, <2>2, <3>2, SecretsLeftAlone DEF Busy
  <2>4. CASE ~activated
    <3>1. desk' = [desk EXCEPT ![t] = [NoRequest EXCEPT !.at = "secrets", !.form = Signed(t, form)]]
        BY <1>2, <2>4 DEF SubmitProfile, Submit
    <3>2. desk'[t].at = "secrets" /\ desk'[t].form = Signed(t, form)
          /\ \A u \in Typists \ {t} : desk'[u] = desk[u]
        BY <1>0, <3>1 DEF RecordTyped, NoRequest
    <3>3. Signed(t, form).sin \in {t, Untyped}
        BY DEF Signed, Columns
    <3>4. SecretsCarried'
        BY <2>1, <2>2 DEF SecretsInv, SecretsCarried
    <3>5. past'.crossed \/ \A u, v \in Typists : Busy(u)' /\ Busy(v)' => u = v
        BY <2>2, <3>2 DEF Busy
    <3> QED
        BY <2>1, <2>2, <3>2, <3>3, <3>4, <3>5 DEF SecretsInv
  <2> QED
      BY <2>3, <2>4
<1>3. ASSUME NEW t \in Typists, withSecretsOnFile(t)
      PROVE  SecretsInv'
  <2> DEFINE form == [desk[t].form EXCEPT !.sin = IF @ = Untyped THEN profile.sin ELSE @]
  <2>1. /\ desk[t].at = "secrets" /\ UNCHANGED <<profile, past>>
        /\ desk' = [desk EXCEPT ![t].form = form, ![t].at = IF form.sin = Untyped THEN "done" ELSE "save"]
      BY <1>3 DEF withSecretsOnFile, SecretsFrom, rawProfile
  <2>2. desk[t].form \in FormValues /\ profile \in FormValues
      BY <1>0 DEF RecordTyped, DeskRequests
  <2>3. form.sin = IF desk[t].form.sin = Untyped THEN profile.sin ELSE desk[t].form.sin
      BY <2>2 DEF FormValues, Columns
  <2>4. desk'[t].form = form /\ desk'[t].at = (IF form.sin = Untyped THEN "done" ELSE "save")
        /\ \A u \in Typists \ {t} : desk'[u] = desk[u]
      BY <1>0, <2>1 DEF RecordTyped, DeskRequests
  <2>5. form.sin \in {t, profile.sin} /\ (form.sin # Untyped => form.sin \in Typists)
      BY <2>1, <2>2, <2>3 DEF SecretsInv, FormValues, Columns
  <2>6. \A u \in Typists : Busy(u)' => Busy(u)
      BY <2>1, <2>4 DEF Busy
  <2>7. SecretsCarried'
      BY <2>1 DEF SecretsInv, SecretsCarried
  <2> HIDE DEF form
  <2>8. ASSUME NEW u \in Typists
        PROVE  /\ desk'[u].at = "secrets" => desk'[u].form.sin \in {u, Untyped}
               /\ desk'[u].at = "save" =>
                    /\ desk'[u].form.sin \in Typists
                    /\ past.crossed \/ desk'[u].form.sin \in {u, profile.sin}
    <3>1. CASE u = t
        BY <2>4, <2>5, <3>1
    <3>2. CASE u # t
        BY <2>4, <3>2 DEF SecretsInv
    <3> QED
        BY <3>1, <3>2
  <2> QED
      BY <2>1, <2>6, <2>7, <2>8 DEF SecretsInv
<1>4. ASSUME NEW t \in Typists, SaveProfile(t)
      PROVE  SecretsInv'
  <2>1. /\ desk[t].at = "save" /\ profile' = desk[t].form
        /\ past' = [past EXCEPT !.typed = IF desk[t].form.sin = t THEN t ELSE @]
        /\ Go(t, IF desk[t].form.private = Untyped THEN "sync" ELSE "birthday")
      BY <1>4 DEF SaveProfile
  <2>2. desk'[t].at \in {"sync", "birthday"} /\ \A u \in Typists \ {t} : desk'[u] = desk[u]
      BY <1>0, <2>1 DEF Go, RecordTyped, DeskRequests
  <2>3. past'.crossed = past.crossed
        /\ past'.typed = IF desk[t].form.sin = t THEN t ELSE past.typed
      BY <2>1 DEF RecordTyped, Pasts
  <2>4. SecretsCarried'
      BY <2>1, <2>3 DEF SecretsInv, SecretsCarried
  <2>5. \A u \in Typists : Busy(u)' => Busy(u)
      BY <2>1, <2>2 DEF Busy
  <2>6. past.crossed \/ \A u \in Typists : u # t => ~Busy(u)
      BY <2>1 DEF SecretsInv, Busy
  <2> QED
      BY <2>2, <2>3, <2>4, <2>5, <2>6 DEF SecretsInv, Busy
<1>5. ASSUME NEW t \in Typists, SpreadBirthday(t)
      PROVE  SecretsInv'
  <2>1. desk[t].at = "birthday" /\ desk' = [desk EXCEPT ![t].at = "sync"] /\ UNCHANGED <<profile, past>>
      BY <1>5 DEF SpreadBirthday, Go
  <2> QED
      BY <1>0, <2>1, SecretsLeftAlone DEF RecordTyped, DeskRequests, Busy
<1>6. ASSUME NEW j \in Jobs, SyncRead(j) \/ SyncPush(j) \/ SyncKin(j) \/ WriteKin(j)
      PROVE  SecretsInv'
  <2>1. profile' = profile /\ past'.typed = past.typed /\ past'.crossed = past.crossed
      BY <1>6 DEF SyncRead, SyncPush, SyncKin, WriteKin, RecordTyped, Pasts
  <2>2. desk[j].at \notin {"ready", "done"}
      BY <1>6 DEF SyncRead, SyncPush, SyncKin, WriteKin
  <2>3. desk'[j].at \in {"done", "settle", "push", "kin", "create kin", "update kin"}
    <3>1. CASE SyncRead(j)
        BY <3>1 DEF SyncRead, Synced, Go, RecordTyped, DeskRequests
    <3>2. CASE SyncPush(j)
        BY <3>2 DEF SyncPush, Go, RecordTyped, DeskRequests
    <3>3. CASE SyncKin(j)
        BY <3>3 DEF SyncKin, Go, RecordTyped, DeskRequests
    <3>4. CASE WriteKin(j)
        BY <3>4 DEF WriteKin, Synced, RecordTyped, NoRequest
    <3> QED
        BY <1>6, <3>1, <3>2, <3>3, <3>4
  <2>4. \A u \in Jobs \ {j} : desk'[u] = desk[u]
      BY <1>6 DEF SyncRead, SyncPush, SyncKin, WriteKin, Go, RecordTyped
  <2>5. \A u \in Typists : u = j \/ desk'[u] = desk[u]
      BY <2>4 DEF Jobs
  <2>6. \A u \in Typists : \/ desk'[u] = desk[u]
                           \/ desk'[u].at \notin {"secrets", "save"} /\ (Busy(u)' => Busy(u))
      BY <2>2, <2>3, <2>5 DEF Busy
  <2> QED
      BY <2>1, <2>6, SecretsLeftAlone
<1>7. CASE Activation
  <2>1. profile' = profile /\ past'.typed = past.typed /\ past'.crossed = past.crossed
      BY <1>7 DEF Activation, Activate, SetActive, ProvisionRead, CreateHire, LinkEmployee, FirstKin,
                  Promote, PromoteTo, RecordTyped, Pasts
  <2>2. \A u \in Jobs \cup Clerks : u = HR \/ desk'[u] = desk[u]
      BY <1>7 DEF Activation, Activate, SetActive, ProvisionRead, CreateHire, LinkEmployee, FirstKin,
                  Promote, PromoteTo, Go, RecordTyped
  <2>3. \A u \in Typists : desk'[u] = desk[u]
      BY <1>0, <2>2
  <2> QED
      BY <2>1, <2>3, SecretsLeftAlone
<1>8. ASSUME NEW who \in {"hr", "self"}, NEW c \in Columns, UpdateEmployee(who, c)
      PROVE  SecretsInv'
  <2>1. UNCHANGED <<profile, desk>> /\ past'.typed = past.typed /\ past'.crossed = past.crossed
      BY <1>8 DEF UpdateEmployee, RecordTyped, Pasts
  <2> QED
      BY <2>1, SecretsLeftAlone
<1>9. ASSUME \/ \E k \in Clerks, p \in BOOLEAN : AddContact(k, p)
             \/ \E k \in Clerks : ClearPrimary(k) \/ CreateContact(k)
             \/ \E c \in contacts : DeleteContact(c)
      PROVE  SecretsInv'
  <2>1. profile' = profile /\ past'.typed = past.typed /\ past'.crossed = past.crossed
      BY <1>9 DEF AddContact, ClearPrimary, CreateContact, DeleteContact, RecordTyped, Pasts
  <2>2. \A u \in Typists : desk'[u] = desk[u]
      BY <1>0, <1>9 DEF AddContact, ClearPrimary, CreateContact, DeleteContact, Go, RecordTyped, Jobs
  <2> QED
      BY <2>1, <2>2, SecretsLeftAlone
<1>10. ASSUME NEW j \in Jobs \cup Clerks, Fail(j)
       PROVE  SecretsInv'
  <2>1. profile' = profile /\ past'.typed = past.typed /\ past'.crossed = past.crossed
      BY <1>10 DEF Fail, RecordTyped, Pasts
  <2>2. desk'[j].at = "done" /\ \A u \in Jobs \cup Clerks : u = j \/ desk'[u] = desk[u]
      BY <1>10 DEF Fail, RecordTyped, NoRequest
  <2> QED
      BY <1>0, <2>1, <2>2, SecretsLeftAlone DEF Busy
<1>11. ASSUME NEW t \in Typists, Settle(t) \/ SettleWrite(t)
       PROVE  SecretsInv'
  <2>1. desk[t].at \notin {"ready", "done"} /\ UNCHANGED <<profile, past>>
      BY <1>11 DEF Settle, SettleWrite
  <2>2. desk'[t].at \in {"done", "status"} /\ \A u \in Typists \ {t} : desk'[u] = desk[u]
      BY <1>0, <1>11 DEF Settle, SettleWrite, Go, RecordTyped, DeskRequests
  <2> QED
      BY <2>1, <2>2, SecretsLeftAlone DEF Busy
<1>12. CASE SettleElsewhere
    BY <1>12, SecretsLeftAlone DEF SettleElsewhere
<1> QED
    BY <1>1, <1>2, <1>3, <1>4, <1>5, <1>6, <1>7, <1>8, <1>9, <1>10, <1>11, <1>12
       DEF RecordNext, Submission

LEMMA RecordStarts == Init => RecordTyped /\ \A j \in Jobs \cup Clerks : desk[j].at = "ready"
<1> SUFFICES ASSUME RecordInit PROVE RecordTyped /\ \A j \in Jobs \cup Clerks : desk[j].at = "ready"
    BY DEF Init
<1>1. past \in Pasts
    BY DEF RecordInit, Pasts
<1>2. desk \in [Jobs \cup Clerks -> DeskRequests] /\ \A j \in Jobs \cup Clerks : desk[j].at = "ready"
    BY BlanksTyped DEF RecordInit, NoRequest
<1> QED
    BY <1>1, <1>2, BlanksTyped DEF RecordInit, RecordTyped

(* A form on file has its secrets, and unless two submissions crossed those *)
(* the hire typed last, however many corrections left them out.             *)
THEOREM SecretsAlwaysCarried == Spec => []SecretsCarried
<1> DEFINE Inv == RecordTyped /\ SecretsInv
<1>1. Init => Inv
  <2> SUFFICES ASSUME Init PROVE SecretsInv
      BY RecordStarts
  <2>1. \A t \in Typists : desk[t].at = "ready"
      BY RecordStarts DEF Jobs
  <2>2. profile = NoProfile /\ profile.sin = Untyped /\ past.typed = Untyped
      BY DEF Init, RecordInit, NoProfile, Columns
  <2> QED
      BY <2>1, <2>2 DEF SecretsInv, SecretsCarried, Busy
<1>2. Inv /\ [Next]_vars => Inv'
    BY StepOfOnePart, RecordStaysTyped, SecretsHold
<1>3. Inv => SecretsCarried
    BY DEF SecretsInv
<1> QED
    BY <1>1, <1>2, <1>3, PTL DEF Spec
-------------------------------------------------------------------------------
(* Whose request an action is: the others' stay as they are.                *)
LEMMA DeskOfOthers ==
    ASSUME RecordTyped
    PROVE  /\ \A t \in Typists : Submission(t) => \A u \in Jobs \cup Clerks : u = t \/ desk'[u] = desk[u]
           /\ \A j \in Jobs : SyncRead(j) \/ SyncPush(j) \/ SyncKin(j) \/ WriteKin(j) =>
                \A u \in Jobs \cup Clerks : u = j \/ desk'[u] = desk[u]
           /\ Activation => \A u \in Jobs \cup Clerks : u = HR \/ desk'[u] = desk[u]
           /\ \A k \in Clerks, p \in BOOLEAN :
                AddContact(k, p) \/ ClearPrimary(k) \/ CreateContact(k) =>
                \A u \in Jobs \cup Clerks : u = k \/ desk'[u] = desk[u]
           /\ \A j \in Jobs \cup Clerks : Fail(j) =>
                desk'[j] = [NoRequest EXCEPT !.at = "done"]
                /\ \A u \in Jobs \cup Clerks : u = j \/ desk'[u] = desk[u]
<1>1. ASSUME NEW t \in Typists, Submission(t), NEW u \in Jobs \cup Clerks
      PROVE  u = t \/ desk'[u] = desk[u]
    BY <1>1 DEF Submission, SubmitProfile, Submit, withSecretsOnFile, SecretsFrom, SaveProfile,
                SpreadBirthday, Settle, SettleWrite, Go, RecordTyped
<1>2. ASSUME NEW j \in Jobs, SyncRead(j) \/ SyncPush(j) \/ SyncKin(j) \/ WriteKin(j),
             NEW u \in Jobs \cup Clerks
      PROVE  u = j \/ desk'[u] = desk[u]
    BY <1>2 DEF SyncRead, SyncPush, SyncKin, WriteKin, Go, RecordTyped
<1>3. ASSUME Activation, NEW u \in Jobs \cup Clerks
      PROVE  u = HR \/ desk'[u] = desk[u]
    BY <1>3 DEF Activation, Activate, SetActive, ProvisionRead, CreateHire, LinkEmployee, FirstKin,
                Promote, PromoteTo, Go, RecordTyped
<1>4. ASSUME NEW k \in Clerks, NEW p \in BOOLEAN, AddContact(k, p) \/ ClearPrimary(k) \/ CreateContact(k),
             NEW u \in Jobs \cup Clerks
      PROVE  u = k \/ desk'[u] = desk[u]
    BY <1>4 DEF AddContact, ClearPrimary, CreateContact, Go, RecordTyped
<1>5. ASSUME NEW j \in Jobs \cup Clerks, Fail(j)
      PROVE  desk'[j] = [NoRequest EXCEPT !.at = "done"]
             /\ \A u \in Jobs \cup Clerks : u = j \/ desk'[u] = desk[u]
    BY <1>5 DEF Fail, RecordTyped
<1> QED
    BY <1>1, <1>2, <1>3, <1>4, <1>5

LEMMA NamesApart ==
    /\ Typists \subseteq Jobs \cup Clerks /\ HR \in Jobs \cup Clerks
    /\ Clerks \intersect Jobs = {} /\ HR \notin Typists /\ HR \notin Clerks
BY RecordAssumption DEF Jobs, HR
-------------------------------------------------------------------------------
(* The emergency contacts: a clerk who is about to add a primary contact    *)
(* has cleared the mark of all others, and nobody else sets it.             *)

PrimaryInv ==
    /\ OnePrimary
    /\ past.overlapped \/ \A k \in Clerks : desk[k].at = "create" /\ desk[k].flag =>
                                             \A c \in contacts : ~c.primary
    /\ past.overlapped \/ \A j, k \in Clerks : Busy(j) /\ Busy(k) => j = k

LEMMA PrimaryLeftAlone ==
    ASSUME PrimaryInv, past'.overlapped = past.overlapped,
           \A c \in contacts' : c.primary => c \in contacts,
           \A k \in Clerks : desk'[k] = desk[k] \/ desk'[k].at = "done"
    PROVE  PrimaryInv'
<1>1. \A k \in Clerks : Busy(k)' => Busy(k)
    BY DEF Busy
<1>2. OnePrimary'
    BY DEF PrimaryInv, OnePrimary
<1> QED
    BY <1>1, <1>2 DEF PrimaryInv

LEMMA PrimaryHolds ==
    ASSUME RecordTyped, PrimaryInv, [RecordNext]_recordVars
    PROVE  PrimaryInv'
<1>1. CASE UNCHANGED recordVars
    BY <1>1 DEF recordVars, PrimaryInv, OnePrimary, Busy
<1>2. ASSUME NEW t \in Typists, Submission(t)
      PROVE  PrimaryInv'
  <2>1. contacts' = contacts /\ past'.overlapped = past.overlapped
      BY <1>2 DEF Submission, SubmitProfile, Submit, withSecretsOnFile, SecretsFrom, SaveProfile,
                  SpreadBirthday, Settle, SettleWrite, RecordTyped, Pasts
  <2>2. \A k \in Clerks : desk'[k] = desk[k]
      BY <1>2, DeskOfOthers, NamesApart DEF Jobs
  <2> QED
      BY <2>1, <2>2, PrimaryLeftAlone
<1>3. ASSUME NEW j \in Jobs, SyncRead(j) \/ SyncPush(j) \/ SyncKin(j) \/ WriteKin(j)
      PROVE  PrimaryInv'
  <2>1. past'.overlapped = past.overlapped /\ \A c \in contacts' : c.primary => c \in contacts
    <3>1. past'.overlapped = past.overlapped
        BY <1>3 DEF SyncRead, SyncPush, SyncKin, WriteKin, RecordTyped, Pasts
    <3>2. contacts' \subseteq contacts \cup {[by |-> j, primary |-> FALSE]}
        BY <1>3 DEF SyncRead, SyncPush, SyncKin, WriteKin
    <3> QED
        BY <3>1, <3>2
  <2>2. \A k \in Clerks : desk'[k] = desk[k]
      BY <1>3, DeskOfOthers, NamesApart
  <2> QED
      BY <2>1, <2>2, PrimaryLeftAlone
<1>4. CASE Activation
  <2>1. past'.overlapped = past.overlapped /\ \A c \in contacts' : c.primary => c \in contacts
    <3>1. past'.overlapped = past.overlapped
        BY <1>4 DEF Activation, Activate, SetActive, ProvisionRead, CreateHire, LinkEmployee, FirstKin,
                    Promote, PromoteTo, RecordTyped, Pasts
    <3>2. contacts' \subseteq contacts \cup {[by |-> HR, primary |-> FALSE]}
        BY <1>4 DEF Activation, Activate, SetActive, ProvisionRead, CreateHire, LinkEmployee, FirstKin,
                    Promote, PromoteTo
    <3> QED
        BY <3>1, <3>2
  <2>2. \A k \in Clerks : desk'[k] = desk[k]
      BY <1>4, DeskOfOthers, NamesApart
  <2> QED
      BY <2>1, <2>2, PrimaryLeftAlone
<1>5. ASSUME NEW who \in {"hr", "self"}, NEW c \in Columns, UpdateEmployee(who, c)
      PROVE  PrimaryInv'
    BY <1>5, PrimaryLeftAlone DEF UpdateEmployee, RecordTyped, Pasts
<1>6. ASSUME NEW k \in Clerks, NEW p \in BOOLEAN, AddContact(k, p)
      PROVE  PrimaryInv'
  <2>1. /\ contacts' = contacts /\ past'.overlapped = (past.overlapped \/ \E b \in Clerks : Busy(b))
        /\ desk'[k].at = (IF p THEN "clear" ELSE "create") /\ desk'[k].flag = p
      BY <1>6 DEF AddContact, RecordTyped, Pasts, DeskRequests
  <2>2. \A u \in Clerks : u = k \/ desk'[u] = desk[u]
      BY <1>6, DeskOfOthers
  <2>3. OnePrimary'
      BY <2>1 DEF PrimaryInv, OnePrimary
  <2> QED
      BY <2>1, <2>2, <2>3 DEF PrimaryInv, Busy
<1>7. ASSUME NEW k \in Clerks, ClearPrimary(k)
      PROVE  PrimaryInv'
  <2>1. \A c \in contacts' : ~c.primary
      BY <1>7 DEF ClearPrimary, RecordTyped, ContactRows
  <2>2. past' = past /\ Busy(k) /\ \A u \in Clerks : u = k \/ desk'[u] = desk[u]
      BY <1>7, DeskOfOthers DEF ClearPrimary, Busy
  <2>3. \A u \in Clerks : Busy(u)' => Busy(u)
      BY <2>2 DEF Busy
  <2> QED
      BY <2>1, <2>2, <2>3 DEF PrimaryInv, OnePrimary
<1>8. ASSUME NEW k \in Clerks, CreateContact(k)
      PROVE  PrimaryInv'
  <2>1. /\ desk[k].at = "create" /\ past' = past
        /\ contacts' = contacts \cup {[by |-> k, primary |-> desk[k].flag]}
      BY <1>8 DEF CreateContact
  <2>2. desk'[k].at = "done" /\ \A u \in Clerks : u = k \/ desk'[u] = desk[u]
      BY <1>8, DeskOfOthers DEF CreateContact, Go, RecordTyped, DeskRequests
  <2>3. \A u \in Clerks : Busy(u)' => Busy(u)
      BY <2>2 DEF Busy
  <2>4. past.overlapped \/ \A u \in Clerks : ~Busy(u)'
      BY <2>1, <2>2 DEF PrimaryInv, Busy
  <2>5. OnePrimary'
      BY <2>1 DEF PrimaryInv, OnePrimary
  <2> QED
      BY <2>1, <2>3, <2>4, <2>5 DEF PrimaryInv, Busy
<1>9. ASSUME NEW c \in contacts, DeleteContact(c)
      PROVE  PrimaryInv'
    BY <1>9, PrimaryLeftAlone DEF DeleteContact
<1>10. ASSUME NEW j \in Jobs \cup Clerks, Fail(j)
       PROVE  PrimaryInv'
  <2>1. contacts' = contacts /\ past'.overlapped = past.overlapped
      BY <1>10 DEF Fail, RecordTyped, Pasts
  <2>2. \A k \in Clerks : desk'[k] = desk[k] \/ desk'[k].at = "done"
      BY <1>10, DeskOfOthers DEF NoRequest
  <2> QED
      BY <2>1, <2>2, PrimaryLeftAlone
<1>11. CASE SettleElsewhere
    BY <1>11, PrimaryLeftAlone DEF SettleElsewhere
<1> QED
    BY <1>1, <1>2, <1>3, <1>4, <1>5, <1>6, <1>7, <1>8, <1>9, <1>10, <1>11 DEF RecordNext

(* At most one contact is the primary one, whatever the form's sync writes *)
(* and whatever fails, unless two additions crossed.                        *)
THEOREM OnePrimaryAlways == Spec => []OnePrimary
<1> DEFINE Inv == RecordTyped /\ PrimaryInv
<1>1. Init => Inv
  <2> SUFFICES ASSUME Init PROVE PrimaryInv
      BY RecordStarts
  <2>1. \A k \in Clerks : desk[k].at = "ready"
      BY RecordStarts
  <2>2. contacts = {}
      BY DEF Init, RecordInit
  <2> QED
      BY <2>1, <2>2 DEF PrimaryInv, OnePrimary, Busy
<1>2. Inv /\ [Next]_vars => Inv'
    BY StepOfOnePart, RecordStaysTyped, PrimaryHolds
<1>3. Inv => OnePrimary
    BY DEF PrimaryInv
<1> QED
    BY <1>1, <1>2, <1>3, PTL DEF Spec
-------------------------------------------------------------------------------
(* Where the requests of the form and of the activation go from where.      *)
LEMMA SyncStep ==
    ASSUME RecordTyped, NEW j \in Jobs
    PROVE  /\ SyncRead(j) => /\ desk[j].at = "sync" /\ desk'[j].flag = desk[j].flag
                             /\ desk'[j].at = Synced(j) \/ (desk'[j].at = "push" /\ desk'[j].form = profile)
           /\ SyncPush(j) => desk[j].at = "push" /\ desk'[j].at = "kin" /\ desk'[j].flag = desk[j].flag
           /\ SyncKin(j) => /\ desk[j].at = "kin" /\ desk'[j].flag = desk[j].flag
                            /\ desk'[j].at \in {"create kin", "update kin"}
           /\ WriteKin(j) => /\ desk[j].at \in {"create kin", "update kin"}
                             /\ desk'[j].at \in {"done", Synced(j)} /\ ~desk'[j].flag
<1>1. ASSUME SyncRead(j)
      PROVE  /\ desk[j].at = "sync" /\ desk'[j].flag = desk[j].flag
             /\ desk'[j].at = Synced(j) \/ (desk'[j].at = "push" /\ desk'[j].form = profile)
  <2>1. CASE ~linked \/ profile = NoProfile
    <3>1. desk[j].at = "sync" /\ desk' = [desk EXCEPT ![j].at = Synced(j)]
        BY <1>1, <2>1 DEF SyncRead, Go
    <3>2. desk'[j].at = Synced(j)
        BY <3>1 DEF RecordTyped, DeskRequests
    <3>3. desk'[j].flag = desk[j].flag
        BY <3>1 DEF RecordTyped, DeskRequests
    <3> QED
        BY <3>1, <3>2, <3>3
  <2>2. CASE ~(~linked \/ profile = NoProfile)
    <3>1. desk[j].at = "sync" /\ desk' = [desk EXCEPT ![j].form = profile, ![j].at = "push"]
        BY <1>1, <2>2 DEF SyncRead
    <3> QED
        BY <3>1 DEF RecordTyped, DeskRequests
  <2> QED
      BY <2>1, <2>2
<1>2. ASSUME SyncPush(j)
      PROVE  desk[j].at = "push" /\ desk'[j].at = "kin" /\ desk'[j].flag = desk[j].flag
    BY <1>2 DEF SyncPush, Go, RecordTyped, DeskRequests
<1>3. ASSUME SyncKin(j)
      PROVE  /\ desk[j].at = "kin" /\ desk'[j].flag = desk[j].flag
             /\ desk'[j].at \in {"create kin", "update kin"}
    BY <1>3 DEF SyncKin, Go, RecordTyped, DeskRequests
<1>4. ASSUME WriteKin(j)
      PROVE  /\ desk[j].at \in {"create kin", "update kin"}
             /\ desk'[j].at \in {"done", Synced(j)} /\ ~desk'[j].flag
    BY <1>4 DEF WriteKin, RecordTyped, NoRequest
<1> QED
    BY <1>1, <1>2, <1>3, <1>4

LEMMA ActivationStep ==
    ASSUME RecordTyped
    PROVE  /\ Activate => /\ ~Busy(HR) /\ desk'[HR].flag = activated
                          /\ desk'[HR].at = IF activated THEN "provision" ELSE "status"
           /\ SetActive => desk[HR].at = "status" /\ desk'[HR].at = "provision" /\ desk'[HR].flag = desk[HR].flag
           /\ ProvisionRead =>
                /\ desk[HR].at = "provision" /\ desk'[HR].flag = desk[HR].flag /\ desk'[HR].form = profile
                /\ desk'[HR].at = IF linked THEN "promote"
                                  ELSE IF record.status # "no row" THEN "adopt" ELSE "create"
           /\ CreateHire => desk[HR].at = "create" /\ desk'[HR].at = "link" /\ desk'[HR].flag = desk[HR].flag
           /\ LinkEmployee =>
                /\ desk[HR].at \in {"link", "adopt"} /\ desk'[HR].flag = desk[HR].flag
                /\ desk'[HR].at \in IF desk[HR].at = "adopt" THEN {"promote"} ELSE {"first kin", After}
           /\ FirstKin => desk[HR].at = "first kin" /\ desk'[HR].at = After /\ desk'[HR].flag = desk[HR].flag
           /\ Promote => desk[HR].at = "promote" /\ desk'[HR].at = After /\ desk'[HR].flag = desk[HR].flag
<1> USE NamesApart DEF RecordTyped, DeskRequests
<1>1. ASSUME Activate
      PROVE  /\ ~Busy(HR) /\ desk'[HR].flag = activated
             /\ desk'[HR].at = IF activated THEN "provision" ELSE "status"
    BY <1>1 DEF Activate, NoRequest
<1>2. ASSUME SetActive
      PROVE  desk[HR].at = "status" /\ desk'[HR].at = "provision" /\ desk'[HR].flag = desk[HR].flag
    BY <1>2 DEF SetActive, Go
<1>3. ASSUME ProvisionRead
      PROVE  /\ desk[HR].at = "provision" /\ desk'[HR].flag = desk[HR].flag /\ desk'[HR].form = profile
             /\ desk'[HR].at = IF linked THEN "promote"
                               ELSE IF record.status # "no row" THEN "adopt" ELSE "create"
    BY <1>3 DEF ProvisionRead
<1>4. ASSUME CreateHire
      PROVE  desk[HR].at = "create" /\ desk'[HR].at = "link" /\ desk'[HR].flag = desk[HR].flag
    BY <1>4 DEF CreateHire, Go
<1>5. ASSUME LinkEmployee
      PROVE  /\ desk[HR].at \in {"link", "adopt"} /\ desk'[HR].flag = desk[HR].flag
             /\ desk'[HR].at \in IF desk[HR].at = "adopt" THEN {"promote"} ELSE {"first kin", After}
    BY <1>5 DEF LinkEmployee, Go
<1>6. ASSUME FirstKin
      PROVE  desk[HR].at = "first kin" /\ desk'[HR].at = After /\ desk'[HR].flag = desk[HR].flag
    BY <1>6 DEF FirstKin, Go
<1>7. ASSUME Promote
      PROVE  desk[HR].at = "promote" /\ desk'[HR].at = After /\ desk'[HR].flag = desk[HR].flag
    BY <1>7 DEF Promote, PromoteTo, Go
<1> QED
    BY <1>1, <1>2, <1>3, <1>4, <1>5, <1>6, <1>7
-------------------------------------------------------------------------------
(* The row and its place in the activation. *)

RowInv ==
    /\ linked => record.status # "no row"
    /\ desk[HR].at = "create" => record.status = "no row"
    /\ desk[HR].at = "adopt" => record.status # "no row"
    /\ desk[HR].at \in {"promote", "first kin", "sync", "push", "kin", "create kin", "update kin"} => linked
    /\ desk[HR].at \in {"link", "first kin", "sync", "push", "kin", "create kin", "update kin"} =>
         record.status = "ACTIVE"

(* Nobody but the activation changes the status of the row or links it. *)
LEMMA RowLeftAlone ==
    ASSUME RowInv, UNCHANGED linked, record'.status = record.status,
           desk'[HR] = desk[HR] \/ desk'[HR].at = "done"
    PROVE  RowInv'
BY DEF RowInv

LEMMA RowHolds ==
    ASSUME RecordTyped, RowInv, [RecordNext]_recordVars
    PROVE  RowInv'
<1>1. CASE UNCHANGED recordVars
    BY <1>1 DEF recordVars, RowInv, Busy
<1>2. ASSUME NEW t \in Typists, Submission(t)
      PROVE  RowInv'
  <2>1. linked' = linked /\ record'.status = record.status
      BY <1>2 DEF Submission, SubmitProfile, Submit, withSecretsOnFile, SecretsFrom, SaveProfile,
                  SpreadBirthday, Settle, SettleWrite, RecordTyped, Pasts, HireRows
  <2>2. desk'[HR] = desk[HR]
      BY <1>2, DeskOfOthers, NamesApart
  <2> QED
      BY <2>1, <2>2, RowLeftAlone
<1>3. ASSUME NEW j \in Jobs, SyncRead(j) \/ SyncPush(j) \/ SyncKin(j) \/ WriteKin(j)
      PROVE  RowInv'
  <2>1. linked' = linked /\ record'.status = record.status
      BY <1>3 DEF SyncRead, SyncPush, SyncKin, WriteKin, hrisFieldsFromCase, RecordTyped, HireRows
  <2>2. CASE j # HR
    <3>1. desk'[HR] = desk[HR]
        BY <1>3, <2>2, DeskOfOthers, NamesApart
    <3> QED
        BY <2>1, <3>1, RowLeftAlone
  <2>3. CASE j = HR
    <3>1. desk[HR].at \in {"sync", "push", "kin", "create kin", "update kin"}
        BY <1>3, <2>3 DEF SyncRead, SyncPush, SyncKin, WriteKin
    <3>2. linked /\ record.status = "ACTIVE"
        BY <3>1 DEF RowInv
    <3>3. desk'[HR].at \in {"done", "push", "kin", "create kin", "update kin"}
        BY <1>3, <2>3, SyncStep DEF Synced
    <3> QED
        BY <2>1, <3>2, <3>3 DEF RowInv
  <2> QED
      BY <2>2, <2>3
<1>4. CASE Activation
  <2>1. CASE Activate
    <3>1. UNCHANGED <<linked, record>>
        BY <2>1 DEF Activate, RecordTyped, Pasts
    <3> QED
        BY <2>1, <3>1, ActivationStep DEF RowInv
  <2>2. CASE SetActive
      BY <2>2, ActivationStep DEF SetActive, RowInv
  <2>3. CASE ProvisionRead
    <3>1. /\ UNCHANGED <<linked, record>> /\ desk[HR].at = "provision"
          /\ desk'[HR].at = IF linked THEN "promote"
                            ELSE IF record.status # "no row" THEN "adopt" ELSE "create"
        BY <2>3, ActivationStep DEF ProvisionRead
    <3> QED
        BY <3>1 DEF RowInv
  <2>4. CASE CreateHire
    <3>1. record'.status = "ACTIVE"
        BY <2>4 DEF CreateHire, hrisFieldsFromCase, Blank
    <3> QED
        BY <2>4, <3>1, ActivationStep DEF CreateHire, RowInv, Busy
  <2>5. CASE LinkEmployee
      BY <2>5, ActivationStep DEF LinkEmployee, After, RowInv, Busy
  <2>6. CASE FirstKin
      BY <2>6, ActivationStep DEF FirstKin, After, RowInv, Busy
  <2>7. CASE Promote
    <3>1. linked /\ record.status \in {"PRE_HIRE", "ACTIVE"}
        BY <2>7, ActivationStep DEF RowInv, Busy, RecordTyped, HireRows
    <3>2. record'.status = "ACTIVE"
        BY <2>7, <3>1 DEF Promote, PromoteTo, RecordTyped, HireRows
    <3> QED
        BY <2>7, <3>1, <3>2, ActivationStep DEF Promote, PromoteTo, After, RowInv
  <2> QED
      BY <1>4, <2>1, <2>2, <2>3, <2>4, <2>5, <2>6, <2>7 DEF Activation
<1>5. ASSUME NEW who \in {"hr", "self"}, NEW c \in Columns, UpdateEmployee(who, c)
      PROVE  RowInv'
  <2>1. record'.status = record.status
      BY <1>5 DEF UpdateEmployee, RecordTyped, HireRows, Columns
  <2> QED
      BY <1>5, <2>1, RowLeftAlone DEF UpdateEmployee, RecordTyped, Pasts
<1>6. ASSUME NEW k \in Clerks, NEW p \in BOOLEAN, AddContact(k, p) \/ ClearPrimary(k) \/ CreateContact(k)
      PROVE  RowInv'
  <2>1. UNCHANGED <<linked, record>>
      BY <1>6 DEF AddContact, ClearPrimary, CreateContact, RecordTyped, Pasts
  <2>2. desk'[HR] = desk[HR]
      BY <1>6, DeskOfOthers, NamesApart
  <2> QED
      BY <2>1, <2>2, RowLeftAlone
<1>7. ASSUME NEW c \in contacts, DeleteContact(c)
      PROVE  RowInv'
    BY <1>7, RowLeftAlone DEF DeleteContact
<1>8. ASSUME NEW j \in Jobs \cup Clerks, Fail(j)
       PROVE  RowInv'
  <2>1. UNCHANGED <<linked, record>>
      BY <1>8 DEF Fail, RecordTyped, Pasts
  <2>2. desk'[HR] = desk[HR] \/ desk'[HR].at = "done"
      BY <1>8, DeskOfOthers, NamesApart DEF NoRequest
  <2> QED
      BY <2>1, <2>2, RowLeftAlone
<1>9. CASE SettleElsewhere
    BY <1>9, RowLeftAlone DEF SettleElsewhere
<1> QED
    BY <1>1, <1>2, <1>3, <1>4, <1>5, <1>6, <1>7, <1>8, <1>9 DEF RecordNext
-------------------------------------------------------------------------------
(* What was typed by hand: once the row of an Active case is edited, no     *)
(* submission is under way, and activations only replay, until a settle has *)
(* reopened the case and one of the two begins.                             *)

HandInv ==
    /\ HandEditsKept
    /\ \A t \in Typists : ~desk[t].flag
    /\ desk[HR].flag /\ Busy(HR) =>
         desk[HR].at \in {"provision", "promote", "adopt", "create", "link", "first kin"}
    /\ past.byHand # {} =>
         /\ record.status # "no row" /\ (Busy(HR) => desk[HR].flag)
         /\ \A t \in Typists : ~Busy(t)

LEMMA HandHolds ==
    ASSUME RecordTyped, RowInv, HandInv, [RecordNext]_recordVars
    PROVE  HandInv'
<1>0. RowInv' /\ RecordTyped'
    BY RowHolds, RecordStaysTyped
<1>1. CASE UNCHANGED recordVars
    BY <1>1 DEF recordVars, HandInv, HandEditsKept, Busy
<1>2. ASSUME NEW t \in Typists, Submission(t)
      PROVE  HandInv'
  <2>1. past'.byHand = past.byHand \/ past'.byHand = {}
      BY <1>2 DEF Submission, SubmitProfile, Submit, withSecretsOnFile, SecretsFrom, SaveProfile,
                  SpreadBirthday, Settle, SettleWrite, RecordTyped, Pasts
  <2>2. desk'[HR] = desk[HR] /\ \A u \in Typists : u = t \/ desk'[u] = desk[u]
      BY <1>2, DeskOfOthers, NamesApart
  <2>3. ~desk'[t].flag
    <3>0. t \in Jobs \cup Clerks /\ ~desk[t].flag
        BY NamesApart DEF HandInv
    <3>1. ASSUME NEW form \in Forms, SubmitProfile(t, form)
          PROVE  ~desk'[t].flag
        BY <3>0, <3>1 DEF SubmitProfile, Submit, Go, RecordTyped, DeskRequests, NoRequest
    <3>2. CASE withSecretsOnFile(t)
        BY <3>0, <3>2 DEF withSecretsOnFile, SecretsFrom, RecordTyped, DeskRequests
    <3>3. CASE SaveProfile(t)
        BY <3>0, <3>3 DEF SaveProfile, Go, RecordTyped, DeskRequests
    <3>4. CASE SpreadBirthday(t) \/ Settle(t) \/ SettleWrite(t)
        BY <3>0, <3>4 DEF SpreadBirthday, Settle, SettleWrite, Go, RecordTyped, DeskRequests
    <3> QED
        BY <1>2, <3>1, <3>2, <3>3, <3>4 DEF Submission
  <2>4. ASSUME past'.byHand # {}
        PROVE  record' = record /\ ~Busy(t)'
    <3>1. ~Busy(t)
        BY <2>1, <2>4 DEF HandInv
    <3>2. PICK form \in Forms : SubmitProfile(t, form)
        BY <1>2, <3>1 DEF Submission, withSecretsOnFile, SecretsFrom, SaveProfile, SpreadBirthday, Settle, SettleWrite, Busy
    <3>3. activated
        BY <2>4, <3>2 DEF SubmitProfile, Submit, RecordTyped, Pasts
    <3> QED
        BY <3>2, <3>3, NamesApart DEF SubmitProfile, Submit, Go, RecordTyped, DeskRequests, Busy
  <2>5. HandEditsKept'
      BY <2>1, <2>4 DEF HandInv, HandEditsKept
  <2> QED
      BY <2>1, <2>2, <2>3, <2>4, <2>5 DEF HandInv, Busy
<1>3. ASSUME NEW j \in Jobs, SyncRead(j) \/ SyncPush(j) \/ SyncKin(j) \/ WriteKin(j)
      PROVE  HandInv'
  <2>1. past'.byHand = past.byHand
      BY <1>3 DEF SyncRead, SyncPush, SyncKin, WriteKin, RecordTyped, Pasts
  <2>2. \A u \in Jobs : u = j \/ desk'[u] = desk[u]
      BY <1>3, DeskOfOthers
  <2>3. desk[j].at \in {"sync", "push", "kin", "create kin", "update kin"}
      BY <1>3 DEF SyncRead, SyncPush, SyncKin, WriteKin
  <2>4. ~desk[j].flag /\ past.byHand = {}
      BY <2>3 DEF HandInv, Busy, Jobs
  <2>5. ~desk'[j].flag
      BY <1>3, <2>4, SyncStep
  <2> QED
      BY <2>1, <2>2, <2>4, <2>5, NamesApart DEF HandInv, HandEditsKept, Busy, Jobs
<1>4. CASE Activation
  <2>1. past'.byHand = past.byHand \/ past'.byHand = {}
      BY <1>4 DEF Activation, Activate, SetActive, ProvisionRead, CreateHire, LinkEmployee, FirstKin,
                  Promote, PromoteTo, RecordTyped, Pasts
  <2>2. \A u \in Typists : desk'[u] = desk[u]
      BY <1>4, DeskOfOthers, NamesApart
  <2>3. /\ desk'[HR].flag /\ Busy(HR)' =>
             desk'[HR].at \in {"provision", "promote", "adopt", "create", "link", "first kin"}
        /\ past'.byHand # {} /\ Busy(HR)' => desk'[HR].flag
    <3>0. past'.byHand # {} => past.byHand # {}
        BY <2>1
    <3>1. CASE Activate
      <4>1. activated \/ past'.byHand = {}
          BY <3>1 DEF Activate, RecordTyped, Pasts
      <4> QED
          BY <3>1, <4>1, ActivationStep DEF HandInv
    <3>2. CASE SetActive
        BY <3>0, <3>2, ActivationStep DEF HandInv, Busy
    <3>3. CASE ProvisionRead
        BY <3>0, <3>3, ActivationStep DEF HandInv, Busy
    <3>4. CASE CreateHire
        BY <3>0, <3>4, ActivationStep DEF HandInv, Busy
    <3>5. CASE LinkEmployee
        BY <3>0, <3>5, ActivationStep DEF HandInv, Busy, After
    <3>6. CASE FirstKin
        BY <3>0, <3>6, ActivationStep DEF HandInv, Busy, After
    <3>7. CASE Promote
        BY <3>0, <3>7, ActivationStep DEF HandInv, Busy, After
    <3> QED
        BY <1>4, <3>1, <3>2, <3>3, <3>4, <3>5, <3>6, <3>7 DEF Activation
  <2>4. ASSUME past.byHand # {}
        PROVE  record'.status # "no row" /\ \A c \in Columns : record'[c] = record[c]
    <3>1. ~CreateHire
        BY <2>4 DEF CreateHire, HandInv, RowInv
    <3>2. record' = record \/ record' = [record EXCEPT !.status = "ACTIVE"]
        BY <1>4, <3>1 DEF Activation, Activate, SetActive, ProvisionRead, LinkEmployee, FirstKin,
                          Promote, PromoteTo
    <3>3. record.status # "no row" /\ record \in HireRows
        BY <2>4 DEF HandInv, RecordTyped
    <3> QED
        BY <3>2, <3>3 DEF HireRows, Columns
  <2>5. HandEditsKept'
      BY <2>1, <2>4 DEF HandInv, HandEditsKept, RecordTyped, Pasts
  <2> QED
      BY <2>1, <2>2, <2>3, <2>4, <2>5 DEF HandInv, Busy
<1>5. ASSUME NEW who \in {"hr", "self"}, NEW c \in Columns, UpdateEmployee(who, c)
      PROVE  HandInv'
  <2>1. /\ record.status # "no row" /\ record' = [record EXCEPT ![c] = "hand"]
        /\ UNCHANGED desk
      BY <1>5 DEF UpdateEmployee
  <2>2. past'.byHand = IF activated /\ \A j \in Jobs : Busy(j) => desk[j].flag
                       THEN past.byHand \cup {c} ELSE past.byHand
      BY <1>5 DEF UpdateEmployee, RecordTyped, Pasts
  <2>3. /\ record'[c] = "hand" /\ record'.status = record.status
        /\ \A d \in Columns \ {c} : record'[d] = record[d]
      BY <2>1 DEF RecordTyped, HireRows, Columns
  <2>4. HandEditsKept'
      BY <2>2, <2>3 DEF HandInv, HandEditsKept, RecordTyped, Pasts
  <2>5. ASSUME activated, \A j \in Jobs : Busy(j) => desk[j].flag
        PROVE  (Busy(HR) => desk[HR].flag) /\ \A t \in Typists : ~Busy(t)
      BY <2>5 DEF HandInv, Jobs
  <2> QED
      BY <2>1, <2>2, <2>3, <2>4, <2>5 DEF HandInv, Busy
<1>6. ASSUME \/ \E k \in Clerks, p \in BOOLEAN : AddContact(k, p) \/ ClearPrimary(k) \/ CreateContact(k)
             \/ \E c \in contacts : DeleteContact(c)
      PROVE  HandInv'
  <2>1. UNCHANGED record /\ past'.byHand = past.byHand
      BY <1>6 DEF AddContact, ClearPrimary, CreateContact, DeleteContact, RecordTyped, Pasts
  <2>2. desk'[HR] = desk[HR] /\ \A t \in Typists : desk'[t] = desk[t]
    <3>1. ASSUME NEW k \in Clerks, NEW p \in BOOLEAN, AddContact(k, p) \/ ClearPrimary(k) \/ CreateContact(k)
          PROVE  desk'[HR] = desk[HR] /\ \A t \in Typists : desk'[t] = desk[t]
      <4>1. \A u \in Jobs \cup Clerks : u = k \/ desk'[u] = desk[u]
          BY <3>1, DeskOfOthers
      <4> QED
          BY <4>1, NamesApart DEF Jobs
    <3> QED
        BY <1>6, <3>1 DEF DeleteContact
  <2> QED
      BY <2>1, <2>2 DEF HandInv, HandEditsKept, Busy
<1>7. ASSUME NEW j \in Jobs \cup Clerks, Fail(j)
      PROVE  HandInv'
  <2>1. UNCHANGED record /\ past'.byHand = past.byHand
      BY <1>7 DEF Fail, RecordTyped, Pasts
  <2>2. \A u \in Jobs \cup Clerks : desk'[u] = desk[u] \/ (desk'[u].at = "done" /\ ~desk'[u].flag)
    <3>1. /\ desk'[j] = [NoRequest EXCEPT !.at = "done"]
          /\ \A u \in Jobs \cup Clerks : u = j \/ desk'[u] = desk[u]
        BY <1>7, DeskOfOthers
    <3>2. desk'[j].at = "done"
        BY <3>1 DEF NoRequest
    <3>3. ~desk'[j].flag
        BY <3>1 DEF NoRequest
    <3> QED
        BY <3>1, <3>2, <3>3
  <2>3. \A u \in Jobs \cup Clerks : Busy(u)' => Busy(u) /\ desk'[u] = desk[u]
      BY <2>2 DEF Busy
  <2> QED
      BY <2>1, <2>2, <2>3, NamesApart DEF HandInv, HandEditsKept
<1>8. CASE SettleElsewhere
    BY <1>8 DEF SettleElsewhere, HandInv, HandEditsKept, Busy
<1> QED
    BY <1>1, <1>2, <1>3, <1>4, <1>5, <1>6, <1>7, <1>8 DEF RecordNext
-------------------------------------------------------------------------------
(* The form and the row: while the activation that nothing crossed is at    *)
(* it, what it pushes is the form on file.                                  *)

Agree == \A c \in Columns : record[c] = profile[c]

FollowInv ==
    /\ RecordFollows
    /\ past.alone => /\ \A t \in Typists : ~Busy(t)
                     /\ desk[HR].at = "push" => desk[HR].form = profile
                     /\ desk[HR].at \in {"kin", "create kin", "update kin"} => Agree

LEMMA PushAgrees ==
    ASSUME NEW form \in FormValues, NEW row \in HireRows
    PROVE  /\ \A c \in Columns : hrisFieldsFromCase(form, row)[c] = form[c]
           /\ hrisFieldsFromCase(form, row).status = row.status
BY DEF hrisFieldsFromCase, FormValues, HireRows, Columns

LEMMA FollowHolds ==
    ASSUME RecordTyped, RowInv, FollowInv, [RecordNext]_recordVars
    PROVE  FollowInv'
<1>0. RowInv'
    BY RowHolds
<1>1. CASE UNCHANGED recordVars
    BY <1>1 DEF recordVars, FollowInv, RecordFollows, Agree, Busy
<1>2. ASSUME NEW t \in Typists, Submission(t)
      PROVE  FollowInv'
  <2>1. linked' = linked /\ past'.settled = past.settled /\ desk'[HR] = desk[HR]
        /\ (past'.alone => past.alone)
        /\ \A u \in Typists : u = t \/ desk'[u] = desk[u]
    <3>1. linked' = linked /\ past'.settled = past.settled /\ (past'.alone => past.alone)
        BY <1>2 DEF Submission, SubmitProfile, Submit, withSecretsOnFile, SecretsFrom, SaveProfile,
                    SpreadBirthday, Settle, SettleWrite, RecordTyped, Pasts
    <3> QED
        BY <1>2, <3>1, DeskOfOthers, NamesApart
  <2>2. ASSUME past'.alone
        PROVE  UNCHANGED <<record, profile>> /\ ~Busy(t)'
    <3>1. ~Busy(t)
        BY <2>1, <2>2 DEF FollowInv
    <3>2. PICK form \in Forms : SubmitProfile(t, form)
        BY <1>2, <3>1 DEF Submission, withSecretsOnFile, SecretsFrom, SaveProfile, SpreadBirthday, Settle, SettleWrite, Busy
    <3>3. activated
        BY <2>2, <3>2 DEF SubmitProfile, Submit, RecordTyped, Pasts
    <3> QED
        BY <3>2, <3>3, NamesApart DEF SubmitProfile, Submit, Go, RecordTyped, DeskRequests, Busy
  <2> QED
      BY <2>1, <2>2 DEF FollowInv, RecordFollows, Agree, Busy
<1>3. ASSUME NEW j \in Jobs, SyncRead(j) \/ SyncPush(j) \/ SyncKin(j) \/ WriteKin(j)
      PROVE  FollowInv'
  <2>1. linked' = linked /\ profile' = profile /\ past'.alone = past.alone
      BY <1>3 DEF SyncRead, SyncPush, SyncKin, WriteKin, RecordTyped, Pasts
  <2>2. desk[j].at \in {"sync", "push", "kin", "create kin", "update kin"}
      BY <1>3, SyncStep
  <2>3. CASE j # HR
      BY <2>1, <2>2, <2>3 DEF FollowInv, RecordFollows, Jobs, Busy
  <2>4. CASE j = HR
    <3>1. linked /\ record.status = "ACTIVE"
        BY <2>2, <2>4 DEF RowInv
    <3>2. \A u \in Typists : desk'[u] = desk[u]
        BY <1>3, <2>4, DeskOfOthers, NamesApart
    <3>3. CASE SyncRead(HR)
      <4>1. /\ UNCHANGED <<record, past>>
            /\ desk'[HR].at = "done" \/ (desk'[HR].at = "push" /\ desk'[HR].form = profile)
          BY <3>3, SyncStep DEF SyncRead, Synced, Jobs
      <4> QED
          BY <2>1, <3>2, <4>1 DEF FollowInv, RecordFollows, Agree, Busy
    <3>4. CASE SyncPush(HR)
      <4>1. desk[HR].form \in FormValues /\ record \in HireRows
          BY NamesApart DEF RecordTyped, DeskRequests
      <4>2. record' = hrisFieldsFromCase(desk[HR].form, record) /\ past' = past
            /\ desk[HR].at = "push" /\ desk'[HR].at = "kin"
          BY <3>4, SyncStep DEF SyncPush, Jobs
      <4>3. record'.status = "ACTIVE" /\ (past.alone => Agree')
          BY <2>1, <3>1, <4>1, <4>2, PushAgrees DEF FollowInv, Agree
      <4> QED
          BY <2>1, <3>1, <3>2, <4>2, <4>3 DEF FollowInv, RecordFollows, Agree, Busy
    <3>5. CASE SyncKin(HR)
      <4>1. UNCHANGED <<record, past>> /\ desk[HR].at = "kin" /\ desk'[HR].at \in {"create kin", "update kin"}
          BY <3>5, SyncStep DEF SyncKin, Jobs
      <4> QED
          BY <2>1, <3>2, <4>1 DEF FollowInv, RecordFollows, Agree, Busy
    <3>6. CASE WriteKin(HR)
      <4>1. /\ record' = record /\ desk[HR].at \in {"create kin", "update kin"} /\ desk'[HR].at = "done"
          BY <3>6, SyncStep DEF WriteKin, Synced, Jobs
      <4> QED
          BY <2>1, <3>1, <3>2, <4>1 DEF FollowInv, RecordFollows, Agree, Busy
    <3> QED
        BY <1>3, <2>4, <3>3, <3>4, <3>5, <3>6
  <2> QED
      BY <2>3, <2>4
<1>4. CASE Activation
  <2>1. profile' = profile /\ \A u \in Typists : desk'[u] = desk[u]
    <3>1. profile' = profile
        BY <1>4 DEF Activation, Activate, SetActive, ProvisionRead, CreateHire, LinkEmployee, FirstKin,
                    Promote, PromoteTo
    <3> QED
        BY <1>4, <3>1, DeskOfOthers, NamesApart
  <2>2. CASE Activate
    <3>1. /\ UNCHANGED <<linked, record>>
          /\ past'.settled = (activated /\ past.settled)
          /\ past'.alone = IF activated THEN past.alone ELSE \A t \in Typists : ~Busy(t)
        BY <2>2 DEF Activate, RecordTyped, Pasts
    <3> QED
        BY <2>1, <2>2, <3>1, ActivationStep DEF FollowInv, RecordFollows, Agree, Busy
  <2>3. CASE SetActive \/ ProvisionRead \/ LinkEmployee \/ FirstKin
    <3>1. UNCHANGED <<record, past>>
        BY <2>3 DEF SetActive, ProvisionRead, LinkEmployee, FirstKin
    <3>2. linked' = linked \/ linked' = TRUE
        BY <2>3 DEF SetActive, ProvisionRead, LinkEmployee, FirstKin
    <3>3. desk'[HR].at \notin {"push", "kin", "create kin", "update kin"}
        BY <2>3, ActivationStep DEF After
    <3> QED
        BY <2>1, <3>1, <3>2, <3>3 DEF FollowInv, RecordFollows, Agree, Busy
  <2>4. CASE CreateHire
    <3>1. UNCHANGED <<linked, past>> /\ record.status = "no row" /\ desk'[HR].at = "link"
        BY <2>4, ActivationStep DEF CreateHire, RowInv
    <3> QED
        BY <2>1, <3>1 DEF FollowInv, RecordFollows, Busy
  <2>5. CASE Promote
    <3>1. /\ UNCHANGED <<linked, past>> /\ desk'[HR].at \notin {"push", "kin", "create kin", "update kin"}
        BY <2>5, ActivationStep DEF Promote, PromoteTo, After
    <3>2. /\ \A c \in Columns : record'[c] = record[c]
          /\ record.status = "ACTIVE" => record'.status = "ACTIVE"
        BY <2>5 DEF Promote, PromoteTo, RecordTyped, HireRows, Columns
    <3> QED
        BY <2>1, <3>1, <3>2 DEF FollowInv, RecordFollows, Busy
  <2> QED
      BY <1>4, <2>2, <2>3, <2>4, <2>5 DEF Activation
<1>5. ASSUME NEW who \in {"hr", "self"}, NEW c \in Columns, UpdateEmployee(who, c)
      PROVE  FollowInv'
  <2>1. ~past'.alone
      BY <1>5 DEF UpdateEmployee, RecordTyped, Pasts
  <2> QED
      BY <2>1 DEF FollowInv, RecordFollows
<1>6. ASSUME \/ \E k \in Clerks, p \in BOOLEAN : AddContact(k, p) \/ ClearPrimary(k) \/ CreateContact(k)
             \/ \E c \in contacts : DeleteContact(c)
      PROVE  FollowInv'
  <2>1. UNCHANGED <<linked, record, profile>> /\ past'.alone = past.alone /\ past'.settled = past.settled
      BY <1>6 DEF AddContact, ClearPrimary, CreateContact, DeleteContact, RecordTyped, Pasts
  <2>2. desk'[HR] = desk[HR] /\ \A t \in Typists : desk'[t] = desk[t]
    <3>1. ASSUME NEW k \in Clerks, NEW p \in BOOLEAN, AddContact(k, p) \/ ClearPrimary(k) \/ CreateContact(k)
          PROVE  desk'[HR] = desk[HR] /\ \A t \in Typists : desk'[t] = desk[t]
      <4>1. \A u \in Jobs \cup Clerks : u = k \/ desk'[u] = desk[u]
          BY <3>1, DeskOfOthers
      <4> QED
          BY <4>1, NamesApart DEF Jobs
    <3> QED
        BY <1>6, <3>1 DEF DeleteContact
  <2> QED
      BY <2>1, <2>2 DEF FollowInv, RecordFollows, Agree, Busy
<1>7. ASSUME NEW j \in Jobs \cup Clerks, Fail(j)
      PROVE  FollowInv'
  <2>1. UNCHANGED <<linked, record, profile>> /\ past'.settled = past.settled
        /\ (past'.alone => past.alone)
      BY <1>7 DEF Fail, RecordTyped, Pasts
  <2>2. \A u \in Jobs \cup Clerks : desk'[u] = desk[u] \/ desk'[u].at = "done"
      BY <1>7, DeskOfOthers DEF NoRequest
  <2>3. \A u \in Jobs \cup Clerks : Busy(u)' => Busy(u)
      BY <2>2 DEF Busy
  <2> QED
      BY <2>1, <2>2, <2>3, NamesApart DEF FollowInv, RecordFollows, Agree
<1>8. CASE SettleElsewhere
    BY <1>8 DEF SettleElsewhere, FollowInv, RecordFollows, Agree, Busy
<1> QED
    BY <1>1, <1>2, <1>3, <1>4, <1>5, <1>6, <1>7, <1>8 DEF RecordNext

HiredInv == RecordTyped /\ RowInv /\ HandInv /\ FollowInv

LEMMA HiredStarts == Init => HiredInv
<1> SUFFICES ASSUME Init PROVE HiredInv
    BY DEF Init
<1>1. RecordTyped /\ \A j \in Jobs \cup Clerks : desk[j].at = "ready"
    BY RecordStarts
<1>2. /\ record = IF linked THEN Blank ELSE NoRecord
      /\ ~past.alone /\ ~past.settled /\ past.byHand = {}
      /\ \A j \in Jobs : ~desk[j].flag
    BY DEF Init, RecordInit, NoRequest
<1>3. RowInv
    BY <1>1, <1>2, NamesApart DEF RowInv, Busy, Blank
<1>4. HandInv
    BY <1>1, <1>2, NamesApart DEF HandInv, HandEditsKept, Busy, Jobs
<1> QED
    BY <1>1, <1>2, <1>3, <1>4 DEF HiredInv, FollowInv, RecordFollows

LEMMA HiredStays == HiredInv /\ [Next]_vars => HiredInv'
BY StepOfOnePart, RecordStaysTyped, RowHolds, HandHolds, FollowHolds DEF HiredInv

(* What was typed into the row of an Active case by hand stays, whatever    *)
(* replays and failures there are, until a form is handed in or an          *)
(* activation begun while the case is not Active, reopened by a late settle. *)
THEOREM HandEditsAlwaysKept == Spec => []HandEditsKept
<1>1. HiredInv => HandEditsKept
    BY DEF HiredInv, HandInv
<1> QED
    BY <1>1, HiredStarts, HiredStays, PTL DEF Spec

(* Once an activation that nothing crossed has ended, the row agrees with   *)
(* the form on file until the next hand edit, or the next form handed in to *)
(* a case that a late settle reopened.                                      *)
THEOREM RecordAlwaysFollows == Spec => []RecordFollows
<1>1. HiredInv => RecordFollows
    BY DEF HiredInv, FollowInv
<1> QED
    BY <1>1, HiredStarts, HiredStays, PTL DEF Spec
-------------------------------------------------------------------------------
(* The tool's grants *)

SessionsTyped == session \in [Sessions -> SessionStates]
GrantsIntact == "grants" \notin muddled
ReplacingGrants(c) == session[c].at \in Replacing

(* Between the four calls of a replacement that runs alone the grants are   *)
(* first narrowed to the new list, then what it found, less the users who   *)
(* left since.                                                              *)
GrantsInv ==
    /\ SessionsTyped /\ users \subseteq Users /\ granted \subseteq users
    /\ GrantsSettle
    /\ GrantsIntact =>
         /\ \A c, d \in Sessions : ReplacingGrants(c) /\ ReplacingGrants(d) => c = d
         /\ \A c \in Sessions :
              /\ session[c].at \in {"grants.have", "grants.create"} => granted \subseteq session[c].keep
              /\ session[c].at = "grants.create" => granted = session[c].have \intersect users

LEMMA RestedTyped == Rested \in SessionStates /\ Rested.at = "idle"
BY DEF Rested, SessionStates, SessionAwaits

(* The requests that have nothing to do with the grants. *)
LEMMA GrantsLeftAlone ==
    ASSUME GrantsInv, UNCHANGED <<users, granted, wanted>>, SessionsTyped', GrantsIntact' = GrantsIntact,
           \A c \in Sessions : \/ session'[c] = session[c]
                               \/ ~ReplacingGrants(c) /\ ~ReplacingGrants(c)'
    PROVE  GrantsInv'
<1>1. \A c \in Sessions : ReplacingGrants(c)' => ReplacingGrants(c) /\ session'[c] = session[c]
    BY DEF ReplacingGrants
<1>2. \A c \in Sessions : ReplacingGrants(c) => ReplacingGrants(c)'
    BY DEF ReplacingGrants
<1>3. \A c \in Sessions : session'[c].at \in {"grants.have", "grants.create"} => ReplacingGrants(c)'
    BY DEF ReplacingGrants, Replacing
<1>4. GrantsSettle'
    BY <1>1, <1>2 DEF GrantsInv, GrantsSettle, ReplacingGrants, GrantsIntact
<1> QED
    BY <1>1, <1>3, <1>4 DEF GrantsInv

LEMMA MoveTyped ==
    ASSUME SessionsTyped, NEW c \in Sessions, NEW label \in SessionAwaits, Move(c, label)
    PROVE  /\ SessionsTyped' /\ session'[c].at = label
           /\ \A d \in Sessions \ {c} : session'[d] = session[d]
BY DEF SessionsTyped, SessionStates, Move

LEMMA CloseTyped ==
    ASSUME SessionsTyped, NEW c \in Sessions, Close(c)
    PROVE  /\ SessionsTyped' /\ session'[c].at = "idle"
           /\ \A d \in Sessions \ {c} : session'[d] = session[d]
BY RestedTyped DEF SessionsTyped, Close

LEMMA UnansweredOnly ==
    ASSUME NEW c, Unanswered(c)
    PROVE  GrantsIntact' = GrantsIntact
BY DEF Unanswered, GrantsIntact

LEMMA GrantsRestart ==
    ASSUME GrantsInv, Restart
    PROVE  GrantsInv'
<1>1. /\ UNCHANGED <<users, granted, wanted>> /\ session' = [c \in Sessions |-> Rested]
      /\ GrantsIntact' => GrantsIntact /\ \A c \in Sessions : session[c].at \notin Replacing
    BY DEF Restart, library, GrantsIntact
<1>2. SessionsTyped' /\ \A c \in Sessions : session'[c].at = "idle"
    BY <1>1, RestedTyped DEF SessionsTyped
<1>3. GrantsSettle'
    BY <1>1 DEF GrantsInv, GrantsSettle, GrantsIntact
<1> QED
    BY <1>1, <1>2, <1>3 DEF GrantsInv, ReplacingGrants, Replacing

LEMMA LibraryHolds ==
    ASSUME GrantsInv, LibraryNext
    PROVE  GrantsInv'
<1> USE DEF GrantsInv
<1>1. ASSUME NEW c \in Sessions, SetEnabled(c)
      PROVE  GrantsInv'
  <2>1. PICK value \in {"on", "off"} :
         session' = [session EXCEPT ![c].at = "set.write", ![c].value = value,
                                    ![c].found = enabled # "unset"]
      BY <1>1 DEF SetEnabled
  <2>2. SessionsTyped' /\ session'[c].at = "set.write" /\ \A d \in Sessions \ {c} : session'[d] = session[d]
    <3>1. PICK there \in BOOLEAN : there = (enabled # "unset")
        OBVIOUS
    <3>2. [session[c] EXCEPT !.at = "set.write", !.value = value, !.found = there] \in SessionStates
        BY DEF SessionsTyped, SessionStates, SessionAwaits
    <3>3. session' = [session EXCEPT ![c] = [session[c] EXCEPT !.at = "set.write", !.value = value,
                                                               !.found = there]]
        BY <2>1, <3>1 DEF SessionsTyped
    <3> QED
        BY <3>2, <3>3 DEF SessionsTyped, SessionStates
  <2> QED
      BY <1>1, <2>2, GrantsLeftAlone DEF SetEnabled, InSession, library, ReplacingGrants, Replacing, GrantsIntact
<1>2. ASSUME NEW c \in Sessions, SetEnabledWrite(c)
      PROVE  GrantsInv'
    BY <1>2, CloseTyped, GrantsLeftAlone
       DEF SetEnabledWrite, InSession, ReplacingGrants, Replacing, GrantsIntact
<1>3. ASSUME NEW c \in Sessions, SetGrants(c)
      PROVE  GrantsInv'
  <2>1. PICK list \in SUBSET Users :
         session' = [session EXCEPT ![c].at = "grants.delete", ![c].keep = list \intersect users]
      BY <1>3 DEF SetGrants
  <2>2. SessionsTyped' /\ session'[c].at = "grants.delete" /\ \A d \in Sessions \ {c} : session'[d] = session[d]
      BY <2>1 DEF SessionsTyped, SessionStates, SessionAwaits, Replacing
  <2>3. UNCHANGED <<users, granted, wanted>>
      BY <1>3 DEF SetGrants, library
  <2>4. GrantsIntact' => \A d \in Sessions : ~ReplacingGrants(d)
      BY <1>3 DEF SetGrants, GrantsIntact, ReplacingGrants
  <2>5. GrantsSettle'
      BY <2>2 DEF GrantsSettle, Replacing
  <2>6. \A d \in Sessions : ~ReplacingGrants(d) => session[d].at \notin {"grants.have", "grants.create"}
      BY DEF ReplacingGrants, Replacing
  <2> QED
      BY <2>2, <2>3, <2>4, <2>5, <2>6 DEF ReplacingGrants
<1>4. ASSUME NEW c \in Sessions, DeleteUnwanted(c)
      PROVE  GrantsInv'
  <2>1. /\ granted' = granted \intersect session[c].keep /\ UNCHANGED <<users, wanted, muddled>>
        /\ session' = [session EXCEPT ![c].at = "grants.have"] /\ session[c].at = "grants.delete"
      BY <1>4 DEF DeleteUnwanted, Move, InSession
  <2>2. /\ SessionsTyped' /\ session'[c].at = "grants.have" /\ session'[c].keep = session[c].keep
        /\ \A d \in Sessions \ {c} : session'[d] = session[d]
      BY <2>1 DEF SessionsTyped, SessionStates, SessionAwaits, Replacing
  <2>3. GrantsSettle'
      BY <2>2 DEF GrantsSettle, Replacing
  <2>4. GrantsIntact => \A d \in Sessions \ {c} : ~ReplacingGrants(d)
      BY <2>1 DEF ReplacingGrants, Replacing
  <2> QED
      BY <2>1, <2>2, <2>3, <2>4 DEF ReplacingGrants, Replacing, GrantsIntact
<1>5. ASSUME NEW c \in Sessions, FindExisting(c)
      PROVE  GrantsInv'
  <2>1. /\ UNCHANGED <<users, granted, wanted, muddled>> /\ session[c].at = "grants.have"
        /\ session' = [session EXCEPT ![c].have = granted, ![c].at = "grants.create"]
      BY <1>5 DEF FindExisting, InSession, library
  <2>2. /\ SessionsTyped' /\ session'[c].at = "grants.create" /\ session'[c].keep = session[c].keep
        /\ session'[c].have = granted
        /\ \A d \in Sessions \ {c} : session'[d] = session[d]
    <3>1. granted \in SUBSET Users
        OBVIOUS
    <3>2. [session[c] EXCEPT !.have = granted, !.at = "grants.create"] \in SessionStates
        BY <3>1 DEF SessionsTyped, SessionStates, SessionAwaits, Replacing
    <3> QED
        BY <2>1, <3>2 DEF SessionsTyped, SessionStates
  <2>3. GrantsSettle'
      BY <2>2 DEF GrantsSettle, Replacing
  <2>4. GrantsIntact => \A d \in Sessions \ {c} : ~ReplacingGrants(d)
      BY <2>1 DEF ReplacingGrants, Replacing
  <2> QED
      BY <2>1, <2>2, <2>3, <2>4 DEF ReplacingGrants, Replacing, GrantsIntact
<1>6. ASSUME NEW c \in Sessions, CreateMissing(c)
      PROVE  GrantsInv'
  <2> DEFINE missing == session[c].keep \ session[c].have
  <2>1. Close(c) /\ users' = users /\ session[c].at = "grants.create"
      BY <1>6 DEF CreateMissing, InSession
  <2>2. /\ SessionsTyped' /\ session'[c].at = "idle"
        /\ \A d \in Sessions \ {c} : session'[d] = session[d]
      BY <2>1, CloseTyped
  <2>3. CASE missing \intersect granted = {} /\ missing \subseteq users
    <3>1. granted' = granted \union missing /\ wanted' = session[c].keep /\ muddled' = muddled
        BY <1>6, <2>3 DEF CreateMissing
    <3>2. GrantsIntact => /\ granted \subseteq session[c].keep
                          /\ granted = session[c].have \intersect users
                          /\ \A d \in Sessions \ {c} : ~ReplacingGrants(d)
        BY <2>1 DEF ReplacingGrants, Replacing
    <3>3. GrantsIntact => granted' = wanted' \intersect users'
        BY <2>1, <2>3, <3>1, <3>2
    <3> QED
        BY <2>1, <2>2, <2>3, <3>1, <3>2, <3>3 DEF GrantsSettle, ReplacingGrants, Replacing, GrantsIntact
  <2>4. CASE ~(missing \intersect granted = {} /\ missing \subseteq users)
    <3>1. UNCHANGED <<granted, wanted>> /\ ~GrantsIntact'
        BY <1>6, <2>4 DEF CreateMissing, GrantsIntact
    <3> QED
        BY <2>1, <2>2, <3>1 DEF GrantsSettle, GrantsIntact
  <2> QED
      BY <2>3, <2>4
<1>7. ASSUME UserLeaves
      PROVE  GrantsInv'
  <2>1. PICK u \in users : users' = users \ {u} /\ granted' = granted \ {u}
      BY <1>7 DEF UserLeaves
  <2>2. UNCHANGED <<wanted, session, muddled>>
      BY <1>7 DEF UserLeaves
  <2> QED
      BY <2>1, <2>2 DEF GrantsSettle, SessionsTyped, ReplacingGrants, GrantsIntact
<1> QED
    BY <1>1, <1>2, <1>3, <1>4, <1>5, <1>6, <1>7, GrantsRestart DEF LibraryNext

LEMMA AskHolds ==
    ASSUME GrantsInv, AskNext
    PROVE  GrantsInv'
<1> DEFINE Elsewhere(c) == /\ session[c].at \notin Replacing /\ session'[c].at \notin Replacing
                           /\ \A d \in Sessions \ {c} : session'[d] = session[d]
<1>1. ASSUME NEW c \in Sessions,
             \/ RunTool(c) \/ HasGrant(c) \/ AskCopilot(c)
             \/ Send(c) \/ AppendQuestion(c) \/ AppendAnswer(c)
             \/ Allow(c) \/ Refuse(c) \/ Model(c) \/ ProviderFails(c)
      PROVE  GrantsInv'
  <2>1. UNCHANGED <<users, granted, wanted>>
      BY <1>1 DEF RunTool, HasGrant, AskCopilot, Send, AppendQuestion, AppendAnswer, Allow, Refuse,
                  Model, ProviderFails, library
  <2>2. GrantsIntact' = GrantsIntact
      BY <1>1, UnansweredOnly DEF RunTool, HasGrant, AskCopilot, Send, AppendQuestion, AppendAnswer,
                  Allow, Refuse, Model, ProviderFails, GrantsIntact
  <2>3. session[c].at \notin Replacing
      BY <1>1 DEF RunTool, HasGrant, AskCopilot, Send, AppendQuestion, AppendAnswer, Allow, Refuse,
                  Model, ProviderFails, InSession, Replacing
  <2>4. Close(c) \/ \E label \in SessionAwaits \ Replacing : Move(c, label)
    <3>1. {"tool.ask", "tool.grant", "turn.write", "turn.ask", "tool.model", "turn.model", "turn.answer"}
            \subseteq SessionAwaits \ Replacing
        BY DEF SessionAwaits, Replacing, Asking
    <3> QED
        BY <1>1, <3>1 DEF RunTool, HasGrant, AskCopilot, Send, AppendQuestion, AppendAnswer, Allow,
                          Refuse, Model, ProviderFails
  <2>5. SessionsTyped' /\ Elsewhere(c)
    <3>1. CASE Close(c)
        BY <2>3, <3>1, CloseTyped DEF GrantsInv, Replacing
    <3>2. ASSUME NEW label \in SessionAwaits \ Replacing, Move(c, label)
          PROVE  SessionsTyped' /\ Elsewhere(c)
        BY <2>3, <3>2, MoveTyped DEF GrantsInv
    <3> QED
        BY <2>4, <3>1, <3>2
  <2> QED
      BY <2>1, <2>2, <2>5, GrantsLeftAlone DEF ReplacingGrants
<1>2. CASE CreateConversation \/ DeleteConversation \/ Tick
  <2>1. UNCHANGED <<users, granted, wanted, session, muddled>>
      BY <1>2 DEF CreateConversation, DeleteConversation, Tick, library
  <2> QED
      BY <2>1, GrantsLeftAlone DEF GrantsInv, SessionsTyped, GrantsIntact
<1> QED
    BY <1>1, <1>2, GrantsRestart DEF AskNext

LEMMA GrantsStart == Init => GrantsInv
BY RestedTyped DEF Init, AssistantInit, GrantsInv, SessionsTyped, GrantsSettle, ReplacingGrants, Replacing

LEMMA GrantsStay == GrantsInv /\ [Next]_vars => GrantsInv'
<1> SUFFICES ASSUME GrantsInv, [Next]_vars PROVE GrantsInv'
    OBVIOUS
<1>1. CASE UNCHANGED assistantVars
  <2>1. UNCHANGED <<users, granted, wanted, session, muddled>>
      BY <1>1 DEF assistantVars, library
  <2> QED
      BY <2>1, GrantsLeftAlone DEF GrantsInv, SessionsTyped, GrantsIntact
<1> QED
    BY <1>1, StepOfOnePart, LibraryHolds, AskHolds

(* The grants of a tool, replaced by four calls and no transaction, settle  *)
(* on the list that was asked for, less the users who left, whatever is     *)
(* asked, deleted or restarted in between.                                  *)
THEOREM GrantsAlwaysSettle == Spec => []GrantsSettle
<1>1. GrantsInv => GrantsSettle
    BY DEF GrantsInv
<1> QED
    BY <1>1, GrantsStart, GrantsStay, PTL DEF Spec
-------------------------------------------------------------------------------
(* Blind hiring *)

ViewsTyped ==
    /\ blind \in BOOLEAN /\ hiringTeam \subseteq Colleagues
    /\ applicants \in Seq(Candidates)
    /\ look \in [Looks -> LookStates]
    /\ aliases \in [Candidates -> SUBSET Nat]

AppliedOnce == \A i, j \in 1..Len(applicants) : applicants[i] = applicants[j] => i = j

(* A candidate was only ever shown as the number of the own application. *)
AliasIsPlace == \A c \in Candidates : \A n \in aliases[c] : n \in 1..Len(applicants) /\ applicants[n] = c

(* A screen that was blind all along still is, shows nobody who is not      *)
(* there, and is past the question for the file only if it was not blind.   *)
ScreensHold == \A l \in Looks :
    /\ look[l].shown \subseteq Rows
    /\ look[l].blindAllAlong => blind
    /\ look[l].at = "file" => ~look[l].blindAllAlong

ViewsInv ==
    /\ ViewsTyped /\ AppliedOnce /\ AliasIsPlace /\ ScreensHold
    /\ exposed \subseteq {"trail"}

LEMMA NobodyLooksTyped ==
    NobodyLooks \in LookStates /\ NobodyLooks.shown = {} /\ ~NobodyLooks.blindAllAlong
BY DEF NobodyLooks, LookStates, LookAwaits, Places, Employees

LEMMA OnePlaceEach ==
    ASSUME ViewsInv
    PROVE  BlindHolds
<1> USE DEF ViewsInv
<1>1. ASSUME NEW c \in Candidates
      PROVE  Cardinality(aliases[c]) <= 1
  <2>1. CASE aliases[c] = {}
      BY <2>1, FS_EmptySet
  <2>2. CASE aliases[c] # {}
    <3>1. PICK n \in aliases[c] : TRUE
        BY <2>2
    <3>2. aliases[c] = {n}
        BY <3>1 DEF AliasIsPlace, AppliedOnce
    <3>3. Cardinality({n}) = 1
        BY FS_Singleton
    <3> QED
        BY <3>2, <3>3
  <2> QED
      BY <2>1, <2>2
<1>2. \A c, d \in Candidates : c # d => aliases[c] \intersect aliases[d] = {}
    BY DEF AliasIsPlace
<1> QED
    BY <1>1, <1>2 DEF BlindHolds

(* The next step of a screen, which shows whom it showed. *)
LEMMA LoadHolds ==
    ASSUME ViewsInv, UNCHANGED <<hiring, aliases>>, NEW l \in Looks, NEW label \in LookAwaits,
           Load(l, label), label = "file" => ~blind, exposed' = exposed
    PROVE  ViewsInv'
<1>1. look' = [look EXCEPT ![l].at = label] /\ UNCHANGED <<blind, hiringTeam, applicants, aliases, exposed>>
    BY DEF Load, hiring
<1>2. look' \in [Looks -> LookStates]
    BY <1>1 DEF ViewsInv, ViewsTyped, LookStates
<1>3. ScreensHold'
    BY <1>1 DEF ViewsInv, ViewsTyped, LookStates, ScreensHold, Rows
<1> QED
    BY <1>1, <1>2, <1>3 DEF ViewsInv, ViewsTyped, AppliedOnce, AliasIsPlace

(* A screen that is done, having shown a name where it was not blind. *)
LEMMA RenderedHolds ==
    ASSUME ViewsInv, UNCHANGED <<hiring, aliases>>, NEW l \in Looks, Rendered(l),
           exposed' \subseteq {"trail"}
    PROVE  ViewsInv'
<1>1. look' = [look EXCEPT ![l] = NobodyLooks] /\ UNCHANGED <<blind, hiringTeam, applicants, aliases>>
    BY DEF Rendered, hiring
<1>2. look' \in [Looks -> LookStates]
    BY <1>1, NobodyLooksTyped DEF ViewsInv, ViewsTyped
<1>3. ScreensHold'
    BY <1>1, NobodyLooksTyped DEF ViewsInv, ViewsTyped, ScreensHold, Rows, NobodyLooks
<1> QED
    BY <1>1, <1>2, <1>3 DEF ViewsInv, ViewsTyped, AppliedOnce, AliasIsPlace

(* A screen that is asked for. *)
LEMMA OpenHolds ==
    ASSUME ViewsInv, UNCHANGED <<hiring, aliases, exposed>>, NEW l \in Looks,
           NEW e \in Employees, NEW place \in Places, NEW label \in LookAwaits \ {"file"},
           NEW shown \in SUBSET Rows,
           look' = [look EXCEPT ![l] = [at |-> label, who |-> e, place |-> place, shown |-> shown,
                                        blindAllAlong |-> blind]]
    PROVE  ViewsInv'
<1>1. UNCHANGED <<blind, hiringTeam, applicants, aliases, exposed>>
    BY DEF hiring
<1>2. shown \in SUBSET Candidates
    BY DEF ViewsInv, ViewsTyped, Rows
<1>3. [at |-> label, who |-> e, place |-> place, shown |-> shown, blindAllAlong |-> blind] \in LookStates
    BY <1>2 DEF ViewsInv, ViewsTyped, LookStates
<1>4. look' \in [Looks -> LookStates]
    BY <1>3 DEF ViewsInv, ViewsTyped
<1>5. ScreensHold'
    BY <1>1 DEF ViewsInv, ViewsTyped, ScreensHold, Rows
<1> QED
    BY <1>1, <1>4, <1>5 DEF ViewsInv, ViewsTyped, AppliedOnce, AliasIsPlace

LEMMA ViewsHold ==
    ASSUME ViewsInv, [ViewsNext]_viewVars
    PROVE  ViewsInv'
<1> USE DEF ViewsInv
<1>0. {"list.rows", "list.blind", "ordinals", "access", "member", "profile", "file.blind"} \subseteq LookAwaits
    BY DEF LookAwaits
<1>1. CASE UNCHANGED viewVars
    BY <1>1 DEF viewVars, hiring, ViewsTyped, AppliedOnce, AliasIsPlace, ScreensHold, Rows
<1>2. ASSUME NEW l \in Looks, GetRequisitionCandidates(l) \/ GetAssignedCandidates(l) \/ GetCandidate(l)
      PROVE  ViewsInv'
  <2>1. CASE GetRequisitionCandidates(l)
    <3>1. PICK e \in Employees : Open(l, e, "list", "list.rows")
        BY <2>1 DEF GetRequisitionCandidates
    <3>2. look' = [look EXCEPT ![l] = [at |-> "list.rows", who |-> e, place |-> "list", shown |-> {},
                                       blindAllAlong |-> blind]]
        BY <3>1 DEF Open
    <3>3. /\ UNCHANGED <<hiring, aliases, exposed>> /\ {} \in SUBSET Rows
          /\ "list" \in Places /\ "list.rows" \in LookAwaits \ {"file"}
        BY <1>0, <2>1 DEF GetRequisitionCandidates, Places
    <3> QED
        BY <3>2, <3>3, OpenHolds
  <2>2. CASE GetAssignedCandidates(l)
    <3>1. CASE blind
      <4>1. PICK e \in hiringTeam :
              look' = [look EXCEPT ![l] = [at |-> "ordinals", who |-> e, place |-> "assigned",
                                           shown |-> Rows, blindAllAlong |-> TRUE]]
          BY <2>2, <3>1 DEF GetAssignedCandidates
      <4>2. e \in Employees /\ TRUE = blind
          BY <3>1 DEF ViewsTyped, Employees
      <4> QED
          BY <1>0, <2>2, <4>1, <4>2, OpenHolds DEF GetAssignedCandidates, Places
    <3>2. CASE ~blind
        BY <2>2, <3>2 DEF GetAssignedCandidates, hiring, ViewsTyped, AppliedOnce, AliasIsPlace,
                          ScreensHold, Rows
    <3> QED
        BY <3>1, <3>2
  <2>3. CASE GetCandidate(l)
    <3>1. PICK e \in Employees, c \in Rows, place \in {"profile", "file"} :
            look' = [look EXCEPT ![l] = [at |-> "access", who |-> e, place |-> place, shown |-> {c},
                                         blindAllAlong |-> blind]]
        BY <2>3 DEF GetCandidate
    <3>2. {c} \in SUBSET Rows /\ place \in Places
        BY DEF Places
    <3> QED
        BY <1>0, <2>3, <3>1, <3>2, OpenHolds DEF GetCandidate
  <2> QED
      BY <1>2, <2>1, <2>2, <2>3
<1>3. ASSUME NEW l \in Looks, Access(l)
      PROVE  ViewsInv'
    BY <1>0, <1>3, LoadHolds DEF Access
<1>4. ASSUME NEW l \in Looks, Member(l)
      PROVE  ViewsInv'
    BY <1>0, <1>4, LoadHolds, RenderedHolds DEF Member
<1>5. ASSUME NEW l \in Looks, ListRows(l)
      PROVE  ViewsInv'
  <2>1. look' = [look EXCEPT ![l].shown = Rows, ![l].at = "list.blind"]
        /\ UNCHANGED <<blind, hiringTeam, applicants, aliases, exposed>>
      BY <1>5 DEF ListRows, hiring
  <2>2. Rows \in SUBSET Candidates
      BY DEF ViewsTyped, Rows
  <2>3. look' \in [Looks -> LookStates]
      BY <2>1, <2>2, <1>0 DEF ViewsTyped, LookStates
  <2>4. ScreensHold'
      BY <2>1 DEF ViewsTyped, LookStates, ScreensHold, Rows
  <2> QED
      BY <2>1, <2>3, <2>4 DEF ViewsTyped, AppliedOnce, AliasIsPlace
<1>6. ASSUME NEW l \in Looks, ListBlind(l) \/ Profile(l)
      PROVE  ViewsInv'
  <2>1. UNCHANGED <<hiring, aliases>>
      BY <1>6 DEF ListBlind, Profile
  <2>2. CASE blind
      BY <1>0, <1>6, <2>1, <2>2, LoadHolds DEF ListBlind, Profile
  <2>3. CASE ~blind
    <3>1. ~look[l].blindAllAlong
        BY <2>3 DEF ScreensHold
    <3>2. exposed' = exposed /\ Rendered(l)
        BY <1>6, <2>3, <3>1 DEF ListBlind, Profile, Expose
    <3> QED
        BY <2>1, <3>2, RenderedHolds
  <2> QED
      BY <2>2, <2>3
<1>7. ASSUME NEW l \in Looks, Ordinals(l)
      PROVE  ViewsInv'
  <2>1. /\ aliases' = [c \in Candidates |-> aliases[c] \union
                (IF c \in look[l].shown THEN {blindOrdinals(c, look[l].shown)} ELSE {})]
        /\ UNCHANGED <<blind, hiringTeam, applicants>> /\ Rendered(l)
      BY <1>7 DEF Ordinals, hiring
  <2>2. ASSUME NEW c \in look[l].shown
        PROVE  /\ blindOrdinals(c, look[l].shown) \in 1..Len(applicants)
               /\ applicants[blindOrdinals(c, look[l].shown)] = c
    <3>1. \E i \in 1..Len(applicants) : applicants[i] = c
        BY DEF ScreensHold, Rows
    <3> QED
        BY <3>1 DEF blindOrdinals
  <2>3. AliasIsPlace' /\ aliases' \in [Candidates -> SUBSET Nat]
    <3>1. \A c \in Candidates : \A n \in aliases'[c] : n \in 1..Len(applicants) /\ applicants[n] = c
        BY <2>1, <2>2 DEF AliasIsPlace
    <3>2. aliases' \in [Candidates -> SUBSET Nat]
        BY <2>1, <2>2 DEF ViewsTyped
    <3> QED
        BY <2>1, <3>1, <3>2 DEF AliasIsPlace
  <2>4. exposed' \subseteq {"trail"}
      BY <1>7 DEF Ordinals, Expose
  <2>5. look' = [look EXCEPT ![l] = NobodyLooks] /\ look' \in [Looks -> LookStates]
      BY <2>1, NobodyLooksTyped DEF ViewsTyped, Rendered
  <2>6. ScreensHold'
      BY <2>1, <2>5, NobodyLooksTyped DEF ViewsTyped, ScreensHold, Rows, NobodyLooks
  <2> QED
      BY <2>1, <2>3, <2>4, <2>5, <2>6 DEF ViewsTyped, AppliedOnce
<1>8. ASSUME NEW l \in Looks, FileBlind(l)
      PROVE  ViewsInv'
  <2>1. "file" \in LookAwaits
      BY DEF LookAwaits
  <2> QED
      BY <1>8, <2>1, LoadHolds, RenderedHolds DEF FileBlind
<1>9. ASSUME NEW l \in Looks, GetResumeFile(l)
      PROVE  ViewsInv'
  <2>1. ~look[l].blindAllAlong
      BY <1>9 DEF GetResumeFile, Loading, ScreensHold
  <2> QED
      BY <1>9, <2>1, RenderedHolds DEF GetResumeFile, Expose
<1>10. CASE SwitchBlind
  <2>1. /\ blind' = ~blind /\ look' = [l \in Looks |-> [look[l] EXCEPT !.blindAllAlong = FALSE]]
        /\ UNCHANGED <<hiringTeam, applicants, aliases, exposed>>
      BY <1>10 DEF SwitchBlind
  <2>2. look' \in [Looks -> LookStates]
      BY <2>1 DEF ViewsTyped, LookStates
  <2>3. ScreensHold'
      BY <2>1 DEF ViewsTyped, LookStates, ScreensHold, Rows
  <2> QED
      BY <2>1, <2>2, <2>3 DEF ViewsTyped, AppliedOnce, AliasIsPlace
<1>11. CASE Post \/ EditHiringTeam
  <2>1. hiringTeam' \in SUBSET Colleagues
      BY <1>11 DEF Post, EditHiringTeam, ViewsTyped
  <2>2. UNCHANGED <<blind, applicants, look, exposed, aliases>>
      BY <1>11 DEF Post, EditHiringTeam
  <2> QED
      BY <2>1, <2>2 DEF ViewsTyped, AppliedOnce, AliasIsPlace, ScreensHold, Rows
<1>12. CASE ApplyToJob
  <2>1. PICK c \in Candidates \ Rows : applicants' = Append(applicants, c)
      BY <1>12 DEF ApplyToJob
  <2>2. UNCHANGED <<blind, hiringTeam, look, exposed, aliases>>
      BY <1>12 DEF ApplyToJob
  <2>3. /\ applicants' \in Seq(Candidates) /\ Len(applicants') = Len(applicants) + 1
        /\ \A i \in 1..Len(applicants) : applicants'[i] = applicants[i]
        /\ applicants'[Len(applicants) + 1] = c /\ Len(applicants) \in Nat
      BY <2>1 DEF ViewsTyped
  <2>4. \A i \in 1..Len(applicants) : applicants[i] # c
      BY DEF Rows
  <2>5. AppliedOnce'
      BY <2>3, <2>4 DEF AppliedOnce
  <2>6. AliasIsPlace'
      BY <2>2, <2>3 DEF AliasIsPlace
  <2>7. Rows \subseteq Rows'
    <3>1. SUFFICES ASSUME NEW i \in 1..Len(applicants)
                   PROVE  \E j \in 1..Len(applicants') : applicants'[j] = applicants[i]
        BY DEF Rows
    <3> QED
        BY <2>3
  <2> QED
      BY <2>2, <2>3, <2>5, <2>6, <2>7 DEF ViewsTyped, ScreensHold
<1> QED
    BY <1>1, <1>2, <1>3, <1>4, <1>5, <1>6, <1>7, <1>8, <1>9, <1>10, <1>11, <1>12 DEF ViewsNext

(* While a posting stays blind no list, profile or resume shows a name, and *)
(* every screen shows a candidate under the one alias that is only theirs,  *)
(* however the switch, the team and the applicants change between the       *)
(* calls.                                                                   *)
THEOREM BlindAlwaysHolds == Spec => []BlindHolds
<1>1. Init => ViewsInv
  <2> SUFFICES ASSUME ViewsInit PROVE ViewsInv
      BY DEF Init
  <2>1. applicants \in Seq(Candidates) /\ Len(applicants) = 0
      BY DEF ViewsInit
  <2>2. look \in [Looks -> LookStates] /\ aliases \in [Candidates -> SUBSET Nat]
      BY NobodyLooksTyped DEF ViewsInit
  <2>3. ScreensHold
      BY NobodyLooksTyped DEF ViewsInit, ScreensHold, NobodyLooks
  <2> QED
      BY <2>1, <2>2, <2>3 DEF ViewsInit, ViewsInv, ViewsTyped, AppliedOnce, AliasIsPlace
<1>2. ViewsInv /\ [Next]_vars => ViewsInv'
    BY StepOfOnePart, ViewsHold
<1> QED
    BY <1>1, <1>2, OnePlaceEach, PTL DEF Spec
-------------------------------------------------------------------------------
(* The founders' logins *)

InFlight(w) == signup[w].at # "idle"

SignupRequests(slugs) ==
    [at : SignupAwaits, email : Emails \union {Waiting.email}, existing : Nat, uid : Nat,
     slug : slugs, made : BOOLEAN, id : Nat]

FoundersTyped ==
    /\ account \in [Emails -> [uid : Nat, password : Nat]] /\ nextUid \in Nat
    /\ founder \in [Emails -> [employed : BOOLEAN, uid : Nat]]
    /\ signups \in Nat /\ welcomed \in [Emails -> Nat]
    /\ DOMAIN signup = Workers
    /\ \A w \in Workers : /\ signup[w] \in SignupRequests({signup[w].slug})
                          /\ InFlight(w) => signup[w].email \in Emails

AloneWithAddress == \A e \in Emails \ doubtful : \A v, w \in Workers :
    InFlight(v) /\ InFlight(w) /\ signup[v].email = e /\ signup[w].email = e => v = w

UserIsEmployed == \A e \in Emails : founder[e].uid # 0 => founder[e].employed

(* What a signup that is alone with its address relies on. *)
GoesOn(w) == LET e == signup[w].email IN
    /\ signup[w].at = "linked" => signup[w].existing = account[e].uid
    /\ signup[w].at \in {"slug", "get", "create", "password", "transaction", "undo"} => founder[e].uid = 0
    /\ signup[w].at = "transaction" => account[e] = [uid |-> signup[w].uid, password |-> signup[w].id]

FoundersInv ==
    /\ FoundersTyped /\ AloneWithAddress /\ UserIsEmployed /\ FounderSignsIn
    /\ \A w \in Workers : InFlight(w) /\ signup[w].email \notin doubtful => GoesOn(w)

LEMMA WaitingTyped == Waiting \in SignupRequests({0}) /\ Waiting.at = "idle" /\ Waiting.slug = 0
<1> DEFINE email == CHOOSE e \in Emails : TRUE
<1>1. Waiting = [at |-> "idle", email |-> email, existing |-> 0, uid |-> 0, slug |-> 0,
                 made |-> FALSE, id |-> 0]
    BY DEF Waiting
<1> HIDE DEF email
<1> QED
    BY <1>1 DEF SignupRequests, SignupAwaits

(* A signup touches the rows of its own address; what is left to show is    *)
(* about that address alone.                                                *)
LEMMA SignupStep ==
    ASSUME FoundersInv, NEW w \in Workers, InFlight(w), FoundersTyped', doubtful \subseteq doubtful',
           \A v \in Workers \ {w} : signup'[v] = signup[v],
           \A f \in Emails \ {signup[w].email} :
              account'[f] = account[f] /\ founder'[f] = founder[f] /\ welcomed'[f] = welcomed[f],
           InFlight(w)' => signup'[w].email = signup[w].email,
           UserIsEmployed',
           signup[w].email \notin doubtful' =>
              /\ InFlight(w)' => GoesOn(w)'
              /\ founder'[signup[w].email].uid # 0 =>
                   account'[signup[w].email] = [uid |-> founder'[signup[w].email].uid,
                                                password |-> welcomed'[signup[w].email]]
    PROVE  FoundersInv'
<1> USE DEF FoundersInv
<1>1. \A v \in Workers : InFlight(v)' => InFlight(v) /\ signup'[v].email = signup[v].email
    BY DEF InFlight
<1>2. AloneWithAddress'
    BY <1>1 DEF AloneWithAddress
<1>3. ASSUME NEW v \in Workers, InFlight(v)', signup'[v].email \notin doubtful'
      PROVE  GoesOn(v)'
  <2>1. CASE v = w
      BY <1>1, <1>3, <2>1
  <2>2. CASE v # w
    <3>1. signup'[v] = signup[v] /\ InFlight(v) /\ signup[v].email \in Emails /\ GoesOn(v)
        BY <1>3, <2>2 DEF InFlight, FoundersTyped
    <3>2. signup[v].email # signup[w].email
        BY <1>3, <2>2, <3>1 DEF AloneWithAddress
    <3> QED
        BY <3>1, <3>2 DEF GoesOn
  <2> QED
      BY <2>1, <2>2
<1>4. FounderSignsIn'
    BY DEF FounderSignsIn
<1> QED
    BY <1>2, <1>3, <1>4

(* A signup that ends. *)
LEMMA RespondTyped ==
    ASSUME FoundersTyped, NEW w \in Workers, Respond(w)
    PROVE  /\ DOMAIN signup' = Workers /\ ~InFlight(w)'
           /\ \A v \in Workers \ {w} : signup'[v] = signup[v]
           /\ \A v \in Workers : /\ signup'[v] \in SignupRequests({signup'[v].slug})
                                 /\ InFlight(v)' => signup'[v].email \in Emails
<1>1. signup' = [signup EXCEPT ![w] = Waiting]
    BY DEF Respond
<1>2. DOMAIN signup' = Workers /\ signup'[w] = Waiting /\ \A v \in Workers \ {w} : signup'[v] = signup[v]
    BY <1>1 DEF FoundersTyped
<1> QED
    BY <1>2, WaitingTyped DEF FoundersTyped, InFlight

(* One that goes on, from a label to the next. *)
LEMMA ContinueTyped ==
    ASSUME FoundersTyped, NEW w \in Workers, InFlight(w), NEW label \in SignupAwaits, label # "idle",
           Continue(w, label)
    PROVE  /\ DOMAIN signup' = Workers
           /\ \A v \in Workers \ {w} : signup'[v] = signup[v]
           /\ \A v \in Workers : /\ signup'[v] \in SignupRequests({signup'[v].slug})
                                 /\ InFlight(v)' => signup'[v].email \in Emails
           /\ signup'[w].at = label /\ signup'[w].email = signup[w].email
           /\ signup'[w].uid = signup[w].uid /\ signup'[w].id = signup[w].id
           /\ signup'[w].existing = signup[w].existing
<1>1. signup' = [signup EXCEPT ![w].at = label]
    BY DEF Continue
<1>2. signup[w] \in SignupRequests({signup[w].slug})
    BY DEF FoundersTyped
<1>3. /\ [signup[w] EXCEPT !.at = label] \in SignupRequests({signup[w].slug})
      /\ [signup[w] EXCEPT !.at = label].slug = signup[w].slug
    BY <1>2 DEF SignupRequests
<1>4. DOMAIN signup' = Workers /\ signup'[w] = [signup[w] EXCEPT !.at = label]
      /\ \A v \in Workers \ {w} : signup'[v] = signup[v]
    BY <1>1 DEF FoundersTyped
<1>5. /\ signup'[w].at = label /\ signup'[w].email = signup[w].email
      /\ signup'[w].uid = signup[w].uid /\ signup'[w].id = signup[w].id
      /\ signup'[w].existing = signup[w].existing
    BY <1>2, <1>4 DEF SignupRequests
<1> QED
    BY <1>3, <1>4, <1>5 DEF FoundersTyped, InFlight
-------------------------------------------------------------------------------
(* An account has the uid of the founder's user. *)
LEMMA FoundersUid ==
    ASSUME FoundersInv, NEW e \in Emails \ doubtful
    PROVE  founder[e].uid # 0 => account[e].uid = founder[e].uid /\ founder[e].employed
<1> SUFFICES ASSUME founder[e].uid # 0 PROVE account[e].uid = founder[e].uid /\ founder[e].employed
    OBVIOUS
<1>1. account[e] = [uid |-> founder[e].uid, password |-> welcomed[e]]
    BY DEF FoundersInv, FounderSignsIn
<1>2. account[e].uid = founder[e].uid
    BY <1>1
<1> QED
    BY <1>2 DEF FoundersInv, UserIsEmployed

LEMMA FoundersHold ==
    ASSUME FoundersInv, [AccountsNext]_accountVars
    PROVE  FoundersInv'
<1> USE DEF FoundersInv
<1>0. {"find", "linked", "slug", "get", "create", "password", "transaction", "undo"} \subseteq SignupAwaits
    BY DEF SignupAwaits
<1>1. CASE UNCHANGED accountVars
    BY <1>1 DEF accountVars, FoundersTyped, AloneWithAddress, UserIsEmployed, FounderSignsIn, InFlight, GoesOn
<1>2. ASSUME NEW w \in Workers, CompanySignup(w)
      PROVE  FoundersInv'
  <2>1. PICK e \in Emails :
          /\ signup' = [signup EXCEPT ![w].at = "find", ![w].email = e, ![w].id = signups']
          /\ doubtful' = doubtful \union
               {f \in {e} : \E v \in Workers : ~SigningUp(v, "idle") /\ signup[v].email = f}
      BY <1>2 DEF CompanySignup
  <2>2. UNCHANGED <<account, nextUid, founder, welcomed>> /\ signups' \in Nat /\ ~InFlight(w)
      BY <1>2 DEF CompanySignup, firebase, workspaces, FoundersTyped, SigningUp, InFlight
  <2>3. /\ signup'[w] \in SignupRequests({signup'[w].slug}) /\ signup'[w].at = "find"
        /\ signup'[w].email = e
        /\ \A v \in Workers \ {w} : signup'[v] = signup[v]
      BY <1>0, <2>1, <2>2 DEF FoundersTyped, SignupRequests
  <2>4. FoundersTyped'
      BY <2>1, <2>2, <2>3 DEF FoundersTyped, InFlight
  <2>5. e \notin doubtful' => \A v \in Workers : InFlight(v) => signup[v].email # e
      BY <2>1 DEF SigningUp, InFlight
  <2>6. doubtful \subseteq doubtful'
      BY <2>1
  <2>7. AloneWithAddress'
      BY <2>2, <2>3, <2>5, <2>6 DEF AloneWithAddress, InFlight
  <2>8. \A v \in Workers : InFlight(v)' /\ signup'[v].email \notin doubtful' => GoesOn(v)'
      BY <2>2, <2>3, <2>6 DEF GoesOn, InFlight
  <2> QED
      BY <2>2, <2>4, <2>6, <2>7, <2>8 DEF UserIsEmployed, FounderSignsIn
<1>3. ASSUME NEW w \in Workers, FindUser(w)
      PROVE  FoundersInv'
  <2> DEFINE e == signup[w].email
  <2>1. PICK found \in BOOLEAN :
          /\ signup' = [signup EXCEPT ![w].existing = IF found THEN account[e].uid ELSE 0,
                ![w].at = IF (IF found THEN account[e].uid ELSE 0) = 0 THEN "slug" ELSE "linked"]
          /\ doubtful' = doubtful \union {f \in {e} : ~found /\ Linked(account[f].uid)}
    <3>1. PICK found \in {TRUE, ~Failures} :
            /\ signup' = [signup EXCEPT ![w].existing = IF found THEN account[e].uid ELSE 0,
                  ![w].at = IF (IF found THEN account[e].uid ELSE 0) = 0 THEN "slug" ELSE "linked"]
            /\ doubtful' = doubtful \union {f \in {e} : ~found /\ Linked(account[f].uid)}
        BY <1>3 DEF FindUser
    <3> QED
        BY <3>1
  <2> DEFINE uid == IF found THEN account[e].uid ELSE 0
  <2>2. /\ UNCHANGED <<account, nextUid, founder, signups, welcomed>> /\ InFlight(w)
        /\ e \in Emails /\ uid \in Nat
      BY <1>3 DEF FindUser, firebase, workspaces, SigningUp, InFlight, FoundersTyped
  <2>3. /\ signup'[w] \in SignupRequests({signup'[w].slug})
        /\ signup'[w].at = (IF uid = 0 THEN "slug" ELSE "linked") /\ signup'[w].existing = uid
        /\ signup'[w].email = e
        /\ \A v \in Workers \ {w} : signup'[v] = signup[v]
      BY <1>0, <2>1, <2>2 DEF FoundersTyped, SignupRequests
  <2>4. FoundersTyped' /\ UserIsEmployed' /\ doubtful \subseteq doubtful'
      BY <2>1, <2>2, <2>3 DEF FoundersTyped, InFlight, UserIsEmployed
  <2>5. e \notin doubtful' => GoesOn(w)'
    <3>1. e \notin doubtful' /\ uid = 0 => founder[e].uid = 0
      <4> SUFFICES ASSUME e \notin doubtful', uid = 0, founder[e].uid # 0 PROVE FALSE
          OBVIOUS
      <4>1. account[e].uid = founder[e].uid /\ founder[e].employed
          BY <2>2, <2>4, FoundersUid
      <4>2. ~found /\ Linked(account[e].uid)
          BY <2>2, <4>1 DEF Linked
      <4> QED
          BY <2>1, <4>2
    <3>2. e \notin doubtful' /\ uid # 0 => uid = account[e].uid
        OBVIOUS
    <3> QED
        BY <2>2, <2>3, <3>1, <3>2 DEF GoesOn
  <2> QED
      BY <2>2, <2>3, <2>4, <2>5, SignupStep DEF FounderSignsIn
<1>4. ASSUME NEW w \in Workers, RefuseLinked(w)
      PROVE  FoundersInv'
  <2>1. /\ UNCHANGED <<account, nextUid, founder, signups, welcomed, doubtful>>
        /\ InFlight(w) /\ signup[w].at = "linked"
        /\ IF Linked(signup[w].existing) THEN Respond(w) ELSE Continue(w, "slug")
      BY <1>4 DEF RefuseLinked, firebase, workspaces, SigningUp, InFlight
  <2>2. signup[w].email \in Emails
      BY <2>1 DEF FoundersTyped
  <2>3. UserIsEmployed'
      BY <2>1 DEF UserIsEmployed
  <2>4. CASE Linked(signup[w].existing)
    <3>1. Respond(w)
        BY <2>1, <2>4
    <3> QED
        BY <2>1, <2>2, <2>3, <3>1, RespondTyped, SignupStep DEF FoundersTyped, FounderSignsIn
  <2>5. CASE ~Linked(signup[w].existing)
    <3>1. Continue(w, "slug")
        BY <2>1, <2>5
    <3>2. signup[w].email \notin doubtful => founder[signup[w].email].uid = 0
        BY <2>1, <2>2, <2>5, FoundersUid DEF Linked, GoesOn
    <3>3. FoundersTyped' /\ signup'[w].at = "slug" /\ signup'[w].email = signup[w].email
          /\ \A v \in Workers \ {w} : signup'[v] = signup[v]
        BY <1>0, <2>1, <3>1, ContinueTyped DEF FoundersTyped
    <3>4. signup[w].email \notin doubtful => GoesOn(w)'
        BY <2>1, <3>2, <3>3 DEF GoesOn
    <3> QED
        BY <2>1, <2>2, <2>3, <3>3, <3>4, SignupStep DEF FounderSignsIn
  <2> QED
      BY <2>4, <2>5
<1>5. ASSUME NEW w \in Workers, UniqueCompanySlug(w) \/ ProvisionGet(w)
      PROVE  FoundersInv'
  <2>1. /\ UNCHANGED <<account, nextUid, founder, signups, welcomed, doubtful>>
        /\ InFlight(w) /\ signup[w].at \in {"slug", "get"}
      BY <1>5 DEF UniqueCompanySlug, ProvisionGet, firebase, workspaces, SigningUp, InFlight
  <2>2. signup[w].email \in Emails
      BY <2>1 DEF FoundersTyped
  <2>3. /\ signup'[w] \in SignupRequests({signup'[w].slug})
        /\ signup'[w].at \in {"get", "create", "password"} /\ signup'[w].email = signup[w].email
        /\ \A v \in Workers \ {w} : signup'[v] = signup[v]
        /\ DOMAIN signup' = Workers
    <3>1. CASE UniqueCompanySlug(w)
        BY <1>0, <3>1 DEF UniqueCompanySlug, FoundersTyped, SignupRequests
    <3>2. CASE ProvisionGet(w)
      <4>1. PICK u \in Nat : signup' = [signup EXCEPT ![w].uid = u,
                                          ![w].at = IF u = 0 THEN "create" ELSE "password"]
        <5>1. account[signup[w].email].uid \in Nat
            BY <2>2 DEF FoundersTyped
        <5> QED
            BY <3>2, <5>1 DEF ProvisionGet
      <4> QED
          BY <1>0, <4>1 DEF FoundersTyped, SignupRequests
    <3> QED
        BY <1>5, <3>1, <3>2
  <2>4. FoundersTyped' /\ UserIsEmployed'
      BY <2>1, <2>2, <2>3 DEF FoundersTyped, InFlight, UserIsEmployed
  <2>5. signup[w].email \notin doubtful => GoesOn(w)'
      BY <2>1, <2>3 DEF GoesOn
  <2> QED
      BY <2>1, <2>2, <2>3, <2>4, <2>5, SignupStep DEF FounderSignsIn
<1>6. ASSUME NEW w \in Workers, ProvisionCreate(w)
      PROVE  FoundersInv'
  <2>1. /\ UNCHANGED <<founder, signups, welcomed, doubtful>>
        /\ InFlight(w) /\ signup[w].at = "create"
      BY <1>6 DEF ProvisionCreate, workspaces, SigningUp, InFlight
  <2>2. signup[w].email \in Emails
      BY <2>1 DEF FoundersTyped
  <2>3. UserIsEmployed' /\ (signup[w].email \notin doubtful => founder[signup[w].email].uid = 0)
      BY <2>1 DEF UserIsEmployed, GoesOn
  <2>4. CASE account[signup[w].email].uid = 0
    <3>1. /\ account' = [account EXCEPT ![signup[w].email] = [uid |-> nextUid, password |-> 0]]
          /\ nextUid' = nextUid + 1
          /\ signup' = [signup EXCEPT ![w].uid = nextUid, ![w].made = TRUE, ![w].at = "password"]
        BY <1>6, <2>4 DEF ProvisionCreate
    <3>2. /\ signup'[w] \in SignupRequests({signup'[w].slug})
          /\ signup'[w].at = "password" /\ signup'[w].email = signup[w].email
          /\ \A v \in Workers \ {w} : signup'[v] = signup[v]
          /\ DOMAIN signup' = Workers
        BY <1>0, <3>1 DEF FoundersTyped, SignupRequests
    <3>3. account' \in [Emails -> [uid : Nat, password : Nat]] /\ nextUid' \in Nat
      <4>1. PICK fresh \in [uid : Nat, password : Nat] : fresh = [uid |-> nextUid, password |-> 0]
          BY DEF FoundersTyped
      <4>2. account' = [account EXCEPT ![signup[w].email] = fresh] /\ nextUid' = nextUid + 1
          BY <3>1, <4>1
      <4>3. account \in [Emails -> [uid : Nat, password : Nat]] /\ nextUid \in Nat
          BY DEF FoundersTyped
      <4>4. account' \in [Emails -> [uid : Nat, password : Nat]]
        <5> DEFINE Accounts == [uid : Nat, password : Nat]
        <5>1. account \in [Emails -> Accounts] /\ fresh \in Accounts
            BY <4>3
        <5> HIDE DEF Accounts
        <5>2. account' \in [Emails -> Accounts]
            BY <4>2, <5>1
        <5> QED
            BY <5>2 DEF Accounts
      <4> QED
          BY <4>2, <4>3, <4>4
    <3>4. FoundersTyped'
        BY <2>1, <2>2, <3>2, <3>3 DEF FoundersTyped, InFlight
    <3>5. \A f \in Emails \ {signup[w].email} : account'[f] = account[f]
        BY <3>1 DEF FoundersTyped
    <3> QED
        BY <2>1, <2>2, <2>3, <3>2, <3>4, <3>5, SignupStep DEF GoesOn
  <2>5. CASE account[signup[w].email].uid # 0
    <3>1. UNCHANGED <<account, nextUid>> /\ Respond(w)
        BY <1>6, <2>5 DEF ProvisionCreate, firebase
    <3> QED
        BY <2>1, <2>2, <2>3, <3>1, RespondTyped, SignupStep DEF FoundersTyped, FounderSignsIn
  <2> QED
      BY <2>4, <2>5
<1>7. ASSUME NEW w \in Workers, SetPassword(w)
      PROVE  FoundersInv'
  <2> DEFINE e == signup[w].email
  <2>1. /\ UNCHANGED <<nextUid, founder, signups, welcomed, doubtful>>
        /\ InFlight(w) /\ signup[w].at = "password"
      BY <1>7 DEF SetPassword, workspaces, SigningUp, InFlight
  <2>2. e \in Emails /\ signup[w].id \in Nat
      BY <2>1 DEF FoundersTyped, SignupRequests
  <2>3. UserIsEmployed' /\ (e \notin doubtful => founder[e].uid = 0)
      BY <2>1 DEF UserIsEmployed, GoesOn
  <2>4. CASE account[e].uid = signup[w].uid /\ account' = [account EXCEPT ![e].password = signup[w].id]
             /\ Continue(w, "transaction")
    <3>1. account' \in [Emails -> [uid : Nat, password : Nat]]
        BY <2>2, <2>4 DEF FoundersTyped
    <3>2. account'[e] = [uid |-> signup[w].uid, password |-> signup[w].id]
          /\ \A f \in Emails \ {e} : account'[f] = account[f]
        BY <2>2, <2>4 DEF FoundersTyped
    <3>3. /\ FoundersTyped' /\ signup'[w].at = "transaction" /\ signup'[w].email = e
          /\ signup'[w].uid = signup[w].uid /\ signup'[w].id = signup[w].id
          /\ \A v \in Workers \ {w} : signup'[v] = signup[v]
        BY <1>0, <2>1, <2>4, <3>1, ContinueTyped DEF FoundersTyped
    <3> QED
        BY <2>1, <2>2, <2>3, <3>2, <3>3, SignupStep DEF GoesOn
  <2>5. CASE UNCHANGED account /\ Continue(w, "undo")
    <3>1. FoundersTyped' /\ signup'[w].at = "undo" /\ signup'[w].email = e
          /\ \A v \in Workers \ {w} : signup'[v] = signup[v]
        BY <1>0, <2>1, <2>5, ContinueTyped DEF FoundersTyped
    <3> QED
        BY <2>1, <2>2, <2>3, <2>5, <3>1, SignupStep DEF GoesOn
  <2> QED
      BY <1>7, <2>4, <2>5 DEF SetPassword
<1>8. ASSUME NEW w \in Workers, FinishCompanySignup(w)
      PROVE  FoundersInv'
  <2> DEFINE e == signup[w].email
  <2>1. /\ UNCHANGED <<account, nextUid, signups, doubtful>>
        /\ InFlight(w) /\ signup[w].at = "transaction"
      BY <1>8 DEF FinishCompanySignup, firebase, SigningUp, InFlight
  <2>2. e \in Emails /\ signup[w].id \in Nat /\ signup[w].uid \in Nat
      BY <2>1 DEF FoundersTyped, SignupRequests
  <2>3. e \notin doubtful => /\ founder[e].uid = 0
                               /\ account[e] = [uid |-> signup[w].uid, password |-> signup[w].id]
      BY <2>1 DEF GoesOn
  <2>4. CASE /\ founder' = [founder EXCEPT ![e] = [employed |-> TRUE, uid |-> signup[w].uid]]
             /\ welcomed' = [welcomed EXCEPT ![e] = signup[w].id]
             /\ Respond(w)
    <3>1. /\ founder' \in [Emails -> [employed : BOOLEAN, uid : Nat]]
          /\ welcomed' \in [Emails -> Nat]
          /\ founder'[e] = [employed |-> TRUE, uid |-> signup[w].uid] /\ welcomed'[e] = signup[w].id
          /\ \A f \in Emails \ {e} : founder'[f] = founder[f] /\ welcomed'[f] = welcomed[f]
        BY <2>2, <2>4 DEF FoundersTyped
    <3>2. UserIsEmployed'
        BY <3>1 DEF UserIsEmployed
    <3>3. /\ FoundersTyped' /\ ~InFlight(w)' /\ \A v \in Workers \ {w} : signup'[v] = signup[v]
        BY <2>1, <2>4, <3>1, RespondTyped DEF FoundersTyped
    <3> QED
        BY <2>1, <2>2, <2>3, <3>1, <3>2, <3>3, SignupStep
  <2>5. CASE UNCHANGED workspaces /\ Continue(w, "undo")
    <3>1. FoundersTyped' /\ signup'[w].at = "undo" /\ signup'[w].email = e
          /\ UNCHANGED <<founder, welcomed>>
          /\ \A v \in Workers \ {w} : signup'[v] = signup[v]
        BY <1>0, <2>1, <2>5, ContinueTyped DEF FoundersTyped, workspaces
    <3> QED
        BY <2>1, <2>2, <2>3, <3>1, SignupStep DEF GoesOn, UserIsEmployed
  <2> QED
      BY <1>8, <2>4, <2>5 DEF FinishCompanySignup
<1>9. ASSUME NEW w \in Workers, Undo(w)
      PROVE  FoundersInv'
  <2> DEFINE e == signup[w].email
  <2>1. /\ UNCHANGED <<nextUid, founder, welcomed, signups, doubtful>> /\ Respond(w)
        /\ InFlight(w) /\ signup[w].at = "undo"
      BY <1>9 DEF Undo, workspaces, SigningUp, InFlight
  <2>2. account' = [account EXCEPT ![e] = NoAccount] \/ account' = [account EXCEPT ![e] = account[e]]
      BY <1>9 DEF Undo
  <2>3. e \in Emails
      BY <2>1 DEF FoundersTyped
  <2>4. account' \in [Emails -> [uid : Nat, password : Nat]]
        /\ \A f \in Emails \ {e} : account'[f] = account[f]
      BY <2>2, <2>3 DEF FoundersTyped, NoAccount
  <2>5. UserIsEmployed' /\ (e \notin doubtful => founder[e].uid = 0)
      BY <2>1 DEF UserIsEmployed, GoesOn
  <2>6. FoundersTyped' /\ ~InFlight(w)' /\ \A v \in Workers \ {w} : signup'[v] = signup[v]
      BY <2>1, <2>4, RespondTyped DEF FoundersTyped
  <2> QED
      BY <2>1, <2>3, <2>4, <2>5, <2>6, SignupStep
<1>10. ASSUME NEW w \in Workers, SignupDies(w)
       PROVE  FoundersInv'
  <2>1. /\ UNCHANGED <<account, nextUid, founder, welcomed, signups, doubtful>> /\ Respond(w)
        /\ InFlight(w)
      BY <1>10 DEF SignupDies, firebase, workspaces, SigningUp, InFlight
  <2>2. signup[w].email \in Emails
      BY <2>1 DEF FoundersTyped
  <2>3. FoundersTyped' /\ ~InFlight(w)' /\ \A v \in Workers \ {w} : signup'[v] = signup[v]
      BY <2>1, RespondTyped DEF FoundersTyped
  <2> QED
      BY <2>1, <2>2, <2>3, SignupStep DEF UserIsEmployed, FounderSignsIn
<1>11. CASE CreateCompany \/ DeleteCompany \/ DeleteUser
  <2>1. UNCHANGED <<account, nextUid, welcomed, signups, signup, doubtful>>
      BY <1>11 DEF CreateCompany, DeleteCompany, DeleteUser, firebase
  <2>2. /\ founder' \in [Emails -> [employed : BOOLEAN, uid : Nat]]
        /\ \A e \in Emails : founder'[e].uid # 0 => founder'[e] = founder[e]
    <3>1. CASE CreateCompany
        BY <3>1 DEF CreateCompany, FoundersTyped
    <3>2. CASE DeleteCompany
        BY <3>2 DEF DeleteCompany, FoundersTyped, Stranger
    <3>3. CASE DeleteUser
        BY <3>3 DEF DeleteUser, FoundersTyped
    <3> QED
        BY <1>11, <3>1, <3>2, <3>3
  <2>3. FoundersTyped'
      BY <2>1, <2>2 DEF FoundersTyped, InFlight
  <2>4. ASSUME NEW w \in Workers, InFlight(w), signup[w].email \notin doubtful
        PROVE  GoesOn(w)'
    <3>1. signup[w].email \in Emails /\ GoesOn(w)
        BY <2>4 DEF FoundersTyped
    <3>2. founder[signup[w].email].uid = 0 => founder'[signup[w].email].uid = 0
        BY <2>2, <3>1
    <3> QED
        BY <2>1, <3>1, <3>2 DEF GoesOn
  <2> QED
      BY <2>1, <2>2, <2>3, <2>4 DEF AloneWithAddress, UserIsEmployed, FounderSignsIn, InFlight
<1> QED
    BY <1>1, <1>2, <1>3, <1>4, <1>5, <1>6, <1>7, <1>8, <1>9, <1>10, <1>11 DEF AccountsNext, Signup

(* A founder who was told the workspace is there signs in with the password *)
(* of that signup as long as nobody deletes company or login, whatever      *)
(* later signups are tried, fail or die: unless two of them overlapped, or  *)
(* a failed lookup told one of them that the founder has no account.        *)
THEOREM FounderAlwaysSignsIn == Spec => []FounderSignsIn
<1>1. Init => FoundersInv
  <2> SUFFICES ASSUME AccountsInit PROVE FoundersInv
      BY DEF Init
  <2>1. FoundersTyped
      BY WaitingTyped DEF AccountsInit, FoundersTyped, NoAccount, Stranger, InFlight
  <2>2. \A w \in Workers : ~InFlight(w)
      BY WaitingTyped DEF AccountsInit, InFlight
  <2>3. UserIsEmployed /\ FounderSignsIn
      BY DEF AccountsInit, UserIsEmployed, FounderSignsIn, Stranger
  <2> QED
      BY <2>1, <2>2, <2>3 DEF FoundersInv, AloneWithAddress
<1>2. FoundersInv /\ [Next]_vars => FoundersInv'
    BY StepOfOnePart, FoundersHold
<1>3. FoundersInv => FounderSignsIn
    BY DEF FoundersInv
<1> QED
    BY <1>1, <1>2, <1>3, PTL DEF Spec
-------------------------------------------------------------------------------
(* The conversation *)

(* The turns of one speaker among the first n. *)
Said(s, who, n) == Cardinality({i \in 1..n : s[i] = who})

OweAnswer == {"turn.ask", "turn.model", "turn.answer"}
Owing == {c \in Sessions : session[c].at \in OweAnswer}

(* At every prefix there are no more answers than questions; a conversation *)
(* that is there has, beyond the answered questions, those in flight, and   *)
(* no others unless one was left without an answer.                         *)
ChatInv ==
    /\ turns \in Seq(Speakers)
    /\ \A n \in 0..Len(turns) : Said(turns, "assistant", n) <= Said(turns, "user", n)
    /\ Said(turns, "user", Len(turns)) + Said(turns, "assistant", Len(turns)) = Len(turns)
    /\ chatting # "open" => turns = <<>>
    /\ chatting = "none" => Owing = {}
    /\ chatting = "open" =>
         /\ Said(turns, "user", Len(turns)) >= Said(turns, "assistant", Len(turns)) + Cardinality(Owing)
         /\ "unanswered" \notin muddled =>
              Said(turns, "user", Len(turns)) = Said(turns, "assistant", Len(turns)) + Cardinality(Owing)

LEMMA SaidIsCount ==
    ASSUME NEW s, NEW who, NEW n \in Nat
    PROVE  IsFiniteSet({i \in 1..n : s[i] = who}) /\ Said(s, who, n) \in Nat
<1>1. IsFiniteSet(1..n)
    BY FS_Interval
<1>2. IsFiniteSet({i \in 1..n : s[i] = who})
    BY <1>1, FS_Subset
<1> QED
    BY <1>2, FS_CardinalityType DEF Said

LEMMA SaidNothing ==
    ASSUME NEW s, NEW who
    PROVE  Said(s, who, 0) = 0
<1>1. {i \in 1..0 : s[i] = who} = {}
    OBVIOUS
<1> QED
    BY <1>1, FS_EmptySet DEF Said

(* One more turn. *)
LEMMA SaidAppend ==
    ASSUME NEW s \in Seq(Speakers), NEW x \in Speakers, NEW who \in Speakers
    PROVE  /\ Append(s, x) \in Seq(Speakers) /\ Len(Append(s, x)) = Len(s) + 1
           /\ \A n \in 0..Len(s) : Said(Append(s, x), who, n) = Said(s, who, n)
           /\ Said(Append(s, x), who, Len(s) + 1) = Said(s, who, Len(s)) + (IF x = who THEN 1 ELSE 0)
<1> DEFINE t == Append(s, x)
           Turns(u, n) == {i \in 1..n : u[i] = who}
<1>1. /\ t \in Seq(Speakers) /\ Len(t) = Len(s) + 1 /\ Len(s) \in Nat
      /\ \A i \in 1..Len(s) : t[i] = s[i]
      /\ t[Len(s) + 1] = x
    OBVIOUS
<1> HIDE DEF t
<1>2. ASSUME NEW n \in 0..Len(s)
      PROVE  Turns(t, n) = Turns(s, n)
    BY <1>1
<1>3. Turns(t, Len(s) + 1) = Turns(s, Len(s)) \union (IF x = who THEN {Len(s) + 1} ELSE {})
    BY <1>1
<1>4. IsFiniteSet(Turns(s, Len(s))) /\ Len(s) + 1 \notin Turns(s, Len(s))
  <2>1. IsFiniteSet({i \in 1..Len(s) : s[i] = who})
      BY <1>1, SaidIsCount
  <2>2. Len(s) + 1 \notin 1..Len(s)
      BY <1>1
  <2> QED
      BY <2>1, <2>2
<1>5. Cardinality(Turns(s, Len(s)) \union {Len(s) + 1}) = Cardinality(Turns(s, Len(s))) + 1
    BY <1>4, FS_AddElement
<1>6. Cardinality(Turns(s, Len(s))) \in Nat
    BY <1>4, FS_CardinalityType
<1>7. Said(t, who, Len(s) + 1) = Said(s, who, Len(s)) + (IF x = who THEN 1 ELSE 0)
  <2>1. CASE x = who
      BY <1>3, <1>5, <2>1 DEF Said
  <2>2. CASE x # who
    <3>1. Turns(t, Len(s) + 1) = Turns(s, Len(s))
        BY <1>3, <2>2
    <3>2. Said(t, who, Len(s) + 1) = Cardinality(Turns(s, Len(s)))
        BY <3>1 DEF Said
    <3>3. Said(s, who, Len(s)) = Cardinality(Turns(s, Len(s)))
        BY DEF Said
    <3> HIDE DEF Turns
    <3> QED
        BY <1>6, <2>2, <3>2, <3>3
  <2> QED
      BY <2>1, <2>2
<1> QED
    BY <1>1, <1>2, <1>7 DEF Said, t

LEMMA OwingFinite == IsFiniteSet(Owing) /\ Cardinality(Owing) \in Nat
<1>1. IsFiniteSet(Owing)
    BY AssistantAssumption, FS_Subset DEF Owing
<1> QED
    BY <1>1, FS_CardinalityType

(* Requests that come and go, or leave their question without an answer. *)
LEMMA ChatMoves ==
    ASSUME ChatInv, UNCHANGED <<turns, chatting>>, Owing' \subseteq Owing,
           "unanswered" \in muddled => "unanswered" \in muddled',
           Owing' = Owing \/ "unanswered" \in muddled'
    PROVE  ChatInv'
<1>1. Cardinality(Owing') <= Cardinality(Owing) /\ Cardinality(Owing') \in Nat /\ Cardinality(Owing) \in Nat
  <2>1. IsFiniteSet(Owing) /\ Cardinality(Owing) \in Nat
      BY OwingFinite
  <2>2. IsFiniteSet(Owing') /\ Cardinality(Owing') <= Cardinality(Owing)
      BY <2>1, FS_Subset
  <2> QED
      BY <2>1, <2>2, FS_CardinalityType
<1>2. Len(turns) \in Nat
    BY DEF ChatInv
<1>3. Said(turns, "user", Len(turns)) \in Nat /\ Said(turns, "assistant", Len(turns)) \in Nat
    BY <1>2, SaidIsCount
<1> QED
    BY <1>1, <1>3 DEF ChatInv

(* A question is stored and its answer owed, or an answer and no longer owed. *)
LEMMA TurnAdded ==
    ASSUME ChatInv, chatting = "open", UNCHANGED <<chatting, muddled>>, Cardinality(Owing) \in Nat,
           \/ turns' = Append(turns, "user") /\ Cardinality(Owing') = Cardinality(Owing) + 1
           \/ /\ turns' = Append(turns, "assistant") /\ Cardinality(Owing') = Cardinality(Owing) - 1
              /\ Cardinality(Owing') \in Nat
    PROVE  ChatInv'
<1> DEFINE q(s, n) == Said(s, "user", n)
           a(s, n) == Said(s, "assistant", n)
           len == Len(turns)
<1>1. turns \in Seq(Speakers) /\ len \in Nat
    BY DEF ChatInv
<1>2. q(turns, len) \in Nat /\ a(turns, len) \in Nat /\ a(turns, len) <= q(turns, len)
      /\ q(turns, len) + a(turns, len) = len
  <2>1. q(turns, len) \in Nat /\ a(turns, len) \in Nat
      BY <1>1, SaidIsCount
  <2> QED
      BY <1>1, <2>1 DEF ChatInv
<1>3. "user" \in Speakers /\ "assistant" \in Speakers
    BY DEF Speakers
<1>4. /\ turns' \in Seq(Speakers) /\ Len(turns') = len + 1
      /\ \A n \in 0..len : q(turns', n) = q(turns, n) /\ a(turns', n) = a(turns, n)
  <2>1. ASSUME NEW x \in Speakers, turns' = Append(turns, x)
        PROVE  /\ turns' \in Seq(Speakers) /\ Len(turns') = len + 1
               /\ \A n \in 0..len : q(turns', n) = q(turns, n) /\ a(turns', n) = a(turns, n)
    <3>1. \A n \in 0..len : Said(Append(turns, x), "user", n) = Said(turns, "user", n)
        BY <1>1, <1>3, SaidAppend
    <3>2. \A n \in 0..len : Said(Append(turns, x), "assistant", n) = Said(turns, "assistant", n)
        BY <1>1, <1>3, SaidAppend
    <3>3. Append(turns, x) \in Seq(Speakers) /\ Len(Append(turns, x)) = len + 1
        BY <1>1, <1>3, SaidAppend
    <3> QED
        BY <2>1, <3>1, <3>2, <3>3
  <2> QED
      BY <1>3, <2>1
<1>5. \/ /\ q(turns', len + 1) = q(turns, len) + 1 /\ a(turns', len + 1) = a(turns, len)
         /\ Cardinality(Owing') = Cardinality(Owing) + 1
      \/ /\ q(turns', len + 1) = q(turns, len) /\ a(turns', len + 1) = a(turns, len) + 1
         /\ Cardinality(Owing') = Cardinality(Owing) - 1 /\ Cardinality(Owing') \in Nat
  <2>1. q(turns, len) + 0 = q(turns, len) /\ a(turns, len) + 0 = a(turns, len)
      BY <1>2
  <2>2. ASSUME turns' = Append(turns, "user")
        PROVE  q(turns', len + 1) = q(turns, len) + 1 /\ a(turns', len + 1) = a(turns, len)
    <3>1. /\ Said(Append(turns, "user"), "user", len + 1) = q(turns, len) + 1
          /\ Said(Append(turns, "user"), "assistant", len + 1) = a(turns, len) + 0
        BY <1>1, <1>3, SaidAppend
    <3> QED
        BY <2>1, <2>2, <3>1
  <2>3. ASSUME turns' = Append(turns, "assistant")
        PROVE  q(turns', len + 1) = q(turns, len) /\ a(turns', len + 1) = a(turns, len) + 1
    <3>1. /\ Said(Append(turns, "assistant"), "user", len + 1) = q(turns, len) + 0
          /\ Said(Append(turns, "assistant"), "assistant", len + 1) = a(turns, len) + 1
        BY <1>1, <1>3, SaidAppend
    <3> QED
        BY <2>1, <2>3, <3>1
  <2> QED
      BY <2>2, <2>3
<1>6. /\ q(turns, len) >= a(turns, len) + Cardinality(Owing)
      /\ "unanswered" \notin muddled => q(turns, len) = a(turns, len) + Cardinality(Owing)
    BY DEF ChatInv
<1>7. /\ q(turns', len + 1) >= a(turns', len + 1) + Cardinality(Owing')
      /\ a(turns', len + 1) <= q(turns', len + 1)
      /\ q(turns', len + 1) + a(turns', len + 1) = len + 1
      /\ "unanswered" \notin muddled' => q(turns', len + 1) = a(turns', len + 1) + Cardinality(Owing')
    BY <1>1, <1>2, <1>5, <1>6
<1>8. \A n \in 0..(len + 1) : a(turns', n) <= q(turns', n)
  <2> SUFFICES ASSUME NEW n \in 0..(len + 1) PROVE a(turns', n) <= q(turns', n)
      OBVIOUS
  <2>1. CASE n \in 0..len
      BY <1>4, <2>1 DEF ChatInv
  <2>2. CASE n = len + 1
      BY <1>7, <2>2
  <2> QED
      BY <1>1, <2>1, <2>2
<1> QED
    BY <1>4, <1>7, <1>8 DEF ChatInv

LEMMA ChatHolds ==
    ASSUME GrantsInv, GrantsInv', ChatInv, [LibraryNext \/ AskNext]_assistantVars
    PROVE  ChatInv'
<1> USE DEF GrantsInv
<1>1. CASE UNCHANGED assistantVars
    BY <1>1, ChatMoves DEF assistantVars, chat, Owing
<1>2. ASSUME NEW c \in Sessions,
             \/ SetEnabled(c) \/ SetEnabledWrite(c)
             \/ SetGrants(c) \/ DeleteUnwanted(c) \/ FindExisting(c) \/ CreateMissing(c)
             \/ RunTool(c) \/ HasGrant(c) \/ AskCopilot(c) \/ Send(c)
      PROVE  ChatInv'
  <2>1. UNCHANGED <<turns, chatting>>
      BY <1>2 DEF SetEnabled, SetEnabledWrite, SetGrants, DeleteUnwanted, FindExisting, CreateMissing,
                  RunTool, HasGrant, AskCopilot, Send, chat
  <2>2. session[c].at \notin OweAnswer
      BY <1>2 DEF SetEnabled, SetEnabledWrite, SetGrants, DeleteUnwanted, FindExisting, CreateMissing,
                  RunTool, HasGrant, AskCopilot, Send, InSession, OweAnswer
  <2>3. session'[c].at \notin OweAnswer /\ \A d \in Sessions \ {c} : session'[d] = session[d]
    <3>1. CASE SetEnabled(c) \/ SetGrants(c) \/ FindExisting(c)
        BY <3>1 DEF SetEnabled, SetGrants, FindExisting, SessionsTyped, SessionStates, OweAnswer
    <3>2. CASE SetEnabledWrite(c) \/ DeleteUnwanted(c) \/ CreateMissing(c)
               \/ RunTool(c) \/ HasGrant(c) \/ AskCopilot(c) \/ Send(c)
        BY <3>2, RestedTyped DEF SetEnabledWrite, DeleteUnwanted, CreateMissing, RunTool, HasGrant,
                  AskCopilot, Send, Move, Close, SessionsTyped, SessionStates, OweAnswer
    <3> QED
        BY <1>2, <3>1, <3>2
  <2>4. Owing' = Owing
      BY <2>2, <2>3 DEF Owing
  <2>5. "unanswered" \in muddled => "unanswered" \in muddled'
      BY <1>2 DEF SetEnabled, SetEnabledWrite, SetGrants, DeleteUnwanted, FindExisting, CreateMissing,
                  RunTool, HasGrant, AskCopilot, Send
  <2>6. "unanswered" \in muddled' => "unanswered" \in muddled
      BY <1>2 DEF SetEnabled, SetEnabledWrite, SetGrants, DeleteUnwanted, FindExisting, CreateMissing,
                  RunTool, HasGrant, AskCopilot, Send
  <2> QED
      BY <2>1, <2>4, <2>5, ChatMoves
<1>3. ASSUME NEW c \in Sessions, Allow(c) \/ Model(c)
      PROVE  ChatInv'
  <2>1. UNCHANGED <<turns, chatting, muddled>>
      BY <1>3 DEF Allow, Model, chat
  <2>2. /\ session[c].at \in OweAnswer <=> session'[c].at \in OweAnswer
        /\ \A d \in Sessions \ {c} : session'[d] = session[d]
      BY <1>3, RestedTyped DEF Allow, Model, InSession, Move, Close, SessionsTyped, SessionStates, OweAnswer
  <2>3. Owing' = Owing
      BY <2>2 DEF Owing
  <2> QED
      BY <2>1, <2>3, ChatMoves
<1>4. ASSUME NEW c \in Sessions, Refuse(c) \/ ProviderFails(c)
      PROVE  ChatInv'
  <2>1. UNCHANGED <<turns, chatting>> /\ Unanswered(c) /\ Close(c)
      BY <1>4 DEF Refuse, ProviderFails, chat
  <2>2. session'[c].at = "idle" /\ \A d \in Sessions \ {c} : session'[d] = session[d]
      BY <2>1, CloseTyped
  <2>3. Owing' \subseteq Owing /\ (Owing' = Owing \/ session[c].at \in OweAnswer)
      BY <2>2 DEF Owing, OweAnswer
  <2>4. session[c].at \in OweAnswer => session[c].at \in {"turn.ask", "turn.model"}
      BY <1>4 DEF Refuse, ProviderFails, OweAnswer
  <2>5. muddled \subseteq muddled' /\ (session[c].at \in {"turn.ask", "turn.model"} => "unanswered" \in muddled')
      BY <2>1 DEF Unanswered
  <2> QED
      BY <2>1, <2>3, <2>4, <2>5, ChatMoves
<1>5. CASE Restart
  <2>1. /\ UNCHANGED <<turns, chatting>> /\ muddled \subseteq muddled'
        /\ session' = [c \in Sessions |-> Rested]
        /\ (\E c \in Sessions : session[c].at \in OweAnswer) => "unanswered" \in muddled'
      BY <1>5 DEF Restart, chat, OweAnswer
  <2>2. Owing' = {}
      BY <2>1, RestedTyped DEF Owing, OweAnswer
  <2>3. Owing = {} \/ "unanswered" \in muddled'
      BY <2>1 DEF Owing
  <2> QED
      BY <2>1, <2>2, <2>3, ChatMoves
<1>6. CASE UserLeaves \/ Tick
  <2>1. UNCHANGED <<turns, chatting, muddled, session>>
      BY <1>6 DEF UserLeaves, Tick, chat
  <2>2. Owing' = Owing
      BY <2>1 DEF Owing
  <2> QED
      BY <2>1, <2>2, ChatMoves
<1>7. CASE CreateConversation
  <2>1. /\ UNCHANGED <<turns, session, muddled>> /\ chatting = "none" /\ chatting' = "open"
      BY <1>7 DEF CreateConversation
  <2>2. Owing' = {} /\ turns = <<>> /\ Len(turns) = 0
      BY <2>1 DEF Owing, ChatInv
  <2>3. Cardinality(Owing') = 0
      BY <2>2, FS_EmptySet
  <2>4. Said(turns, "user", 0) = 0 /\ Said(turns, "assistant", 0) = 0
      BY SaidNothing
  <2> QED
      BY <2>1, <2>2, <2>3, <2>4 DEF ChatInv
<1>8. CASE DeleteConversation
  <2>1. chatting' = "deleted" /\ turns' = <<>>
      BY <1>8 DEF DeleteConversation
  <2>2. turns' \in Seq(Speakers) /\ Len(turns') = 0
      BY <2>1
  <2>3. Said(turns', "user", 0) = 0 /\ Said(turns', "assistant", 0) = 0
      BY SaidNothing
  <2> QED
      BY <2>1, <2>2, <2>3 DEF ChatInv
<1>9. ASSUME NEW c \in Sessions, AppendQuestion(c)
      PROVE  ChatInv'
  <2>1. UNCHANGED <<chatting, muddled>> /\ session[c].at = "turn.write"
      BY <1>9 DEF AppendQuestion, InSession
  <2>2. c \notin Owing
      BY <2>1 DEF Owing, OweAnswer
  <2>3. CASE chatting = "open"
    <3>1. turns' = Append(turns, "user") /\ session' = [session EXCEPT ![c].at = "turn.ask"]
        BY <1>9, <2>3 DEF AppendQuestion, Move
    <3>2. session'[c].at = "turn.ask" /\ \A d \in Sessions \ {c} : session'[d] = session[d]
        BY <3>1 DEF SessionsTyped, SessionStates
    <3>3. Owing' = Owing \union {c}
        BY <3>2 DEF Owing, OweAnswer
    <3>4. Cardinality(Owing') = Cardinality(Owing) + 1 /\ Cardinality(Owing) \in Nat
        BY <2>2, <3>3, OwingFinite, FS_AddElement
    <3> QED
        BY <2>1, <2>3, <3>1, <3>4, TurnAdded
  <2>4. CASE chatting # "open"
    <3>1. turns' = turns /\ Close(c)
        BY <1>9, <2>4 DEF AppendQuestion
    <3>2. session'[c].at = "idle" /\ \A d \in Sessions \ {c} : session'[d] = session[d]
        BY <3>1, CloseTyped
    <3>3. Owing' = Owing
        BY <2>2, <3>2 DEF Owing, OweAnswer
    <3> QED
        BY <2>1, <3>1, <3>3, ChatMoves
  <2> QED
      BY <2>3, <2>4
<1>10. ASSUME NEW c \in Sessions, AppendAnswer(c)
       PROVE  ChatInv'
  <2>1. UNCHANGED <<chatting, muddled>> /\ session[c].at = "turn.answer" /\ Close(c)
        /\ turns' = IF chatting = "open" THEN Append(turns, "assistant") ELSE turns
      BY <1>10 DEF AppendAnswer, InSession
  <2>2. session'[c].at = "idle" /\ \A d \in Sessions \ {c} : session'[d] = session[d]
      BY <2>1, CloseTyped
  <2>3. c \in Owing /\ Owing' = Owing \ {c}
      BY <2>1, <2>2 DEF Owing, OweAnswer
  <2>4. Cardinality(Owing') = Cardinality(Owing) - 1 /\ Cardinality(Owing') \in Nat /\ Cardinality(Owing) \in Nat
      BY <2>3, OwingFinite, FS_RemoveElement, FS_CardinalityType
  <2>5. CASE chatting = "open"
      BY <2>1, <2>4, <2>5, TurnAdded
  <2>6. CASE chatting # "open"
      BY <2>1, <2>3, <2>6 DEF ChatInv
  <2> QED
      BY <2>5, <2>6
<1> QED
    BY <1>1, <1>2, <1>3, <1>4, <1>5, <1>6, <1>7, <1>8, <1>9, <1>10 DEF LibraryNext, AskNext

LEMMA QuestionsAnsweredThen ==
    ASSUME ChatInv
    PROVE  QuestionsAnswered
<1>1. Len(turns) \in Nat
    BY DEF ChatInv
<1>2. \A n \in 0..Len(turns) :
        /\ Said(turns, "user", n) = Cardinality({i \in 1..n : turns[i] = "user"})
        /\ Said(turns, "assistant", n) = Cardinality({i \in 1..n : turns[i] = "assistant"})
    BY DEF Said
<1>3. ASSUME "unanswered" \notin muddled, \A c \in Sessions : session[c].at \notin Asking
      PROVE  2 * Said(turns, "user", Len(turns)) = Len(turns)
  <2>1. Owing = {}
      BY <1>3 DEF Owing, OweAnswer, Asking
  <2>2. Cardinality(Owing) = 0
      BY <2>1, FS_EmptySet
  <2>3. Said(turns, "user", Len(turns)) \in Nat /\ Said(turns, "assistant", Len(turns)) \in Nat
      BY <1>1, SaidIsCount
  <2>4. CASE chatting = "open"
      BY <1>1, <1>3, <2>2, <2>3, <2>4 DEF ChatInv
  <2>5. CASE chatting # "open"
    <3>1. Len(turns) = 0
        BY <2>5 DEF ChatInv
    <3> QED
        BY <3>1, SaidNothing
  <2> QED
      BY <2>4, <2>5
<1>4. \A n \in 1..Len(turns) : Said(turns, "assistant", n) <= Said(turns, "user", n)
    BY <1>1 DEF ChatInv
<1> QED
    BY <1>3, <1>4 DEF Said, QuestionsAnswered

(* No answer is stored before its question, and every question has one once *)
(* nothing is in flight, unless a request was turned away or lost: however  *)
(* many requests overlap, and whenever the conversation is deleted.         *)
THEOREM QuestionsAlwaysAnswered == Spec => []QuestionsAnswered
<1> DEFINE Inv == GrantsInv /\ ChatInv
<1>1. Init => Inv
  <2> SUFFICES ASSUME Init PROVE ChatInv
      BY GrantsStart
  <2>1. turns = <<>> /\ turns \in Seq(Speakers) /\ Len(turns) = 0 /\ chatting = "none"
      BY DEF Init, AssistantInit
  <2>2. Owing = {}
      BY RestedTyped DEF Init, AssistantInit, Owing, OweAnswer
  <2>3. Said(turns, "user", 0) = 0 /\ Said(turns, "assistant", 0) = 0
      BY SaidNothing
  <2> QED
      BY <2>1, <2>2, <2>3 DEF ChatInv
<1>2. Inv /\ [Next]_vars => Inv'
    BY GrantsStay, StepOfOnePart, ChatHolds
<1>3. Inv => QuestionsAnswered
    BY QuestionsAnsweredThen
<1> QED
    BY <1>1, <1>2, <1>3, PTL DEF Spec
===============================================================================
