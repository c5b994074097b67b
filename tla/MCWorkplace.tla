----------------------------- MODULE MCWorkplace -----------------------------
(* Two overlapping requests; three letters on two lanes, so that one lane   *)
(* has to take a second letter; two employees to be trained.                *)
EXTENDS Workplace

MCWorkloads == {{"letters"}, {"course"}}
===============================================================================
