---------------------------- MODULE MCPerformance ----------------------------
(* Two overlapping requests.  Two hires, of one name or not, so that the    *)
(* announcement of one can hide the other's.  The workloads share no state. *)
EXTENDS Performance, TLC

MCWorkloads == {{"review"}, {"sweep"}, {"agenda"}, {"growth"}}

Alike == Permutations(Workers) \union Permutations(Hires)
===============================================================================
