-------------------------- MODULE MCHireProvisioning --------------------------
(* Two cases for one person whose address HR typed in two spellings, so     *)
(* that every unique column (address, number, uid) can refuse a write.      *)
EXTENDS HireProvisioning, TLC

MCCases == {"c1", "c2"}
MCAddresses == {"kate@x.com", "Kate@x.com"}
MCMailboxes == {"kate"}
MCAddressOf == [c \in MCCases |-> IF c = "c1" THEN "Kate@x.com" ELSE "kate@x.com"]
MCMailboxOf == [a \in MCAddresses |-> "kate"]
MCLowerCase == [m \in MCMailboxes |-> "kate@x.com"]

(* One case whose address is in lower case already. *)
MCOneCase == {"c2"}
MCOneAddress == {"kate@x.com"}
MCOneAddressOf == [c \in MCOneCase |-> "kate@x.com"]
MCOneMailboxOf == [a \in MCOneAddress |-> "kate"]

RequestsAreAlike == Permutations(Workers)
===============================================================================
