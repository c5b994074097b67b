------------------------------ MODULE Workspace ------------------------------
(***************************************************************************)
(* The company around its HR work: the logins of the founders (Accounts),  *)
(* the reporting line (ReportingLine), the tools and the assistant         *)
(* (Assistant), whose rows a request reaches (Tenancy), who sees whom      *)
(* among the candidates (HiringViews), a hire's personal data              *)
(* (PersonnelRecord) and the settings (CompanySettings).  They share no    *)
(* row but the user and the company; the workload says which is busy.      *)
(***************************************************************************)
EXTENDS Accounts, ReportingLine, Assistant, Tenancy, HiringViews, PersonnelRecord,
        CompanySettings

CONSTANT Workloads  \* a subset of {"signups", "lines", "library", "chat", "tenants", "views",
                    \*             "records", "settings"}

VARIABLE workload

vars == <<accountVars, directoryVars, assistantVars, tenantVars, viewVars, recordVars, settingsVars, workload>>
-------------------------------------------------------------------------------
WorkspaceTypeOK ==
    /\ AccountsTypeOK /\ DirectoryTypeOK /\ AssistantTypeOK /\ TenancyTypeOK /\ ViewsTypeOK
    /\ RecordTypeOK /\ SettingsTypeOK
    /\ workload \in Workloads

Init ==
    /\ AccountsInit /\ DirectoryInit /\ AssistantInit /\ TenancyInit /\ ViewsInit
    /\ RecordInit /\ SettingsInit
    /\ workload \in Workloads
    /\ workload = "tenants" \/ \A k \in CaseIds : caseOf[k] = "unborn" /\ standing = [c \in Companies |-> "new"]
    /\ workload = "records" \/ ~linked
    /\ workload = "settings" \/ settings.exists
    /\ workload = "views" \/ (~blind /\ hiringTeam = {})

SignupsNext ==
    /\ workload = "signups" /\ AccountsNext
    /\ UNCHANGED <<directoryVars, assistantVars, tenantVars, viewVars, recordVars, settingsVars, workload>>

LinesNext ==
    /\ workload = "lines" /\ LineNext
    /\ UNCHANGED <<accountVars, assistantVars, tenantVars, viewVars, recordVars, settingsVars, workload>>

ToolsNext ==
    /\ workload = "library" /\ LibraryNext
    /\ UNCHANGED <<accountVars, directoryVars, tenantVars, viewVars, recordVars, settingsVars, workload>>

ChatNext ==
    /\ workload = "chat" /\ AskNext
    /\ UNCHANGED <<accountVars, directoryVars, tenantVars, viewVars, recordVars, settingsVars, workload>>

TenantsNext ==
    /\ workload = "tenants" /\ TenancyNext
    /\ UNCHANGED <<accountVars, directoryVars, assistantVars, viewVars, recordVars, settingsVars, workload>>

ViewsOpenNext ==
    /\ workload = "views" /\ ViewsNext
    /\ UNCHANGED <<accountVars, directoryVars, assistantVars, tenantVars, recordVars, settingsVars, workload>>

RecordsNext ==
    /\ workload = "records" /\ RecordNext
    /\ UNCHANGED <<accountVars, directoryVars, assistantVars, tenantVars, viewVars, settingsVars, workload>>

SavesNext ==
    /\ workload = "settings" /\ SettingsNext
    /\ UNCHANGED <<accountVars, directoryVars, assistantVars, tenantVars, viewVars, recordVars, workload>>

Next == SignupsNext \/ LinesNext \/ ToolsNext \/ ChatNext \/ TenantsNext \/ ViewsOpenNext
        \/ RecordsNext \/ SavesNext

Spec == Init /\ [][Next]_vars
===============================================================================
