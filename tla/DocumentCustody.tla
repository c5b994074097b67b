--------------------------- MODULE DocumentCustody ---------------------------
(* What onboarding promises about the paperwork in a hire's vault: a file   *)
(* gets there one at a time, only after someone vouched for it, and stays.  *)

VARIABLES
    approved,   \* the files verified by HR or signed by the generator
    filed       \* the files in the hire's vault

custody == <<approved, filed>>

Init == approved = {} /\ filed = {}

Approve == approved \subseteq approved' /\ UNCHANGED filed

File == \E f \in approved : filed' = filed \union {f} /\ UNCHANGED approved

Next == Approve \/ File

Spec == Init /\ [][Next]_custody

(* Nothing is filed that nobody vouched for. *)
OnlyApproved == filed \subseteq approved
===============================================================================
