---------------------------- MODULE MCRequisition ----------------------------
(* Two approvers and two overlapping requests; a form may name both       *)
(* approvers, one or, as the DTO allows, none.                              *)
EXTENDS Requisition, TLC

MCApprovers == {"mia", "noor"}
MCApproverLists == {{}, {"mia"}, {"mia", "noor"}}

RequestsAreAlike == Permutations(Workers)
===============================================================================
