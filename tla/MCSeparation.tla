---------------------------- MODULE MCSeparation ----------------------------
(* Two days, two requests in flight; leave is filed as overtime of one day  *)
(* or as a protected leave of both days, and edited by either end or, HR    *)
(* only, by status.                                                         *)
EXTENDS Separation, TLC

MCDays == 1 .. 2
MCFilings == {[type |-> "overtime", start |-> 1, end |-> 1, hours |-> TRUE],
              [type |-> "statutory", start |-> 1, end |-> 2, hours |-> FALSE]}
MCEdits == {[start |-> 2], [end |-> 1], [status |-> "PENDING"]}

RequestsAreAlike == Permutations(Workers)
===============================================================================
