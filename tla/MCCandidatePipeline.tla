------------------------- MODULE MCCandidatePipeline -------------------------
(* Two overlapping requests on one candidate, two members of the hiring     *)
(* team next to HR.  The workloads keep apart what shares no state: the     *)
(* stages with their mails, the privacy of the record, the panel.           *)
EXTENDS CandidatePipeline, TLC

MCWorkloads == {
    {"apply", "stage", "template", "withdraw"},
    {"apply", "stage", "purge", "manual"},
    {"apply", "purge", "inbound", "note", "questions"},
    {"apply", "team", "score", "detail"},
    {"apply", "score", "detail", "criteria"} }

Alike == Permutations(Workers) \union Permutations(Team)
===============================================================================
