--------------------------- MODULE WorkplaceProofs ---------------------------
(***************************************************************************)
(* What mass letters and peer courses guarantee for a cohort of any size   *)
(* on any number of lanes and any number of requests: nobody of the cohort *)
(* is left out, what is issued is in the vault once, and what employees    *)
(* are assigned is what HR published.  The last part is about the policy   *)
(* handbook, for any uploads, slots and sizes of a batch.                  *)
(***************************************************************************)
EXTENDS Workplace, PolicyIngestion, FiniteSetTheorems, TLAPS

Filers == {"file", "commit", "fail"}

(* Whom the lanes have taken has a draft, or is being drafted for; and no  *)
(* lane is done before everybody is taken.                                 *)
Drafted(r) ==
    /\ \A i \in Employees : i < r.cursor => r.list[i] # "none" \/ \E l \in 1..Lanes : r.lane[l] = i
    /\ \A l \in 1..Lanes : r.lane[l] = 0 => r.cursor = Cohort + 1
    /\ \A i \in Employees : r.list[i] # "Issued"

(* What a request carries at its await: at rest nothing; in an approval an *)
(* item that was pending when read, and a count that leaves room for the   *)
(* pending ones.                                                           *)
Sense(r) ==
    /\ r.at = "idle" => r = Idle
    /\ r.at = "draft" => Drafted(r)
    /\ r.at \in {"commit", "fail"} => r.item \in Employees /\ r.list[r.item] = "Pending"
    /\ r.at \in Filers => r.issued + Cardinality(Having(r.list, "Pending")) <= Cohort

CoreInv == TypeOK /\ \A w \in Workers : Sense(req[w])
-------------------------------------------------------------------------------
(* The sizes of what a list has in one status. *)
LEMMA HavingFinite ==
    ASSUME NEW list, NEW s
    PROVE  IsFiniteSet(Having(list, s)) /\ Cardinality(Having(list, s)) \in 0..Cohort
<1>1. IsFiniteSet(Employees) /\ Cardinality(Employees) = Cohort
    BY FS_Interval, WorkplaceAssumption DEF Employees
<1>2. Having(list, s) \in SUBSET Employees
    BY DEF Having
<1>3. /\ IsFiniteSet(Having(list, s)) /\ Cardinality(Having(list, s)) <= Cardinality(Employees)
    BY <1>1, <1>2, FS_Subset
<1> QED
    BY <1>1, <1>3, FS_CardinalityType, WorkplaceAssumption

LEMMA HavingMore ==
    ASSUME NEW list \in Lists, NEW i \in Employees, NEW s \in ItemStatus, list[i] # s
    PROVE  Cardinality(Having([list EXCEPT ![i] = s], s)) = Cardinality(Having(list, s)) + 1
<1>1. Having([list EXCEPT ![i] = s], s) = Having(list, s) \union {i} /\ i \notin Having(list, s)
    BY DEF Having, Lists
<1> QED
    BY <1>1, HavingFinite, FS_AddElement

LEMMA HavingLess ==
    ASSUME NEW list \in Lists, NEW i \in Employees, NEW s, NEW t, list[i] = s, s # t
    PROVE  Cardinality(Having([list EXCEPT ![i] = t], s)) = Cardinality(Having(list, s)) - 1
<1>1. Having([list EXCEPT ![i] = t], s) = Having(list, s) \ {i} /\ i \in Having(list, s)
    BY DEF Having, Lists
<1> QED
    BY <1>1, HavingFinite, FS_RemoveElement

LEMMA HavingRoom ==
    ASSUME NEW list
    PROVE  Cardinality(Having(list, "Issued")) + Cardinality(Having(list, "Pending")) <= Cohort
<1> DEFINE S == Having(list, "Issued")
           T == Having(list, "Pending")
<1>1. IsFiniteSet(S) /\ IsFiniteSet(T) /\ S \cap T = {}
    BY HavingFinite DEF Having
<1>2. S \union T \in SUBSET Employees /\ IsFiniteSet(Employees) /\ Cardinality(Employees) = Cohort
    BY FS_Interval, WorkplaceAssumption DEF Having, Employees
<1>3. Cardinality(S \union T) = Cardinality(S) + Cardinality(T) - Cardinality(S \cap T)
    BY <1>1, FS_Union
<1>4. Cardinality(S \union T) <= Cohort
    BY <1>2, FS_Subset
<1>5. Cardinality(S) \in Nat /\ Cardinality(T) \in Nat
    BY <1>1, FS_CardinalityType
<1>6. Cardinality(S \cap T) = 0
    BY <1>1, FS_EmptySet
<1> HIDE DEF S, T
<1>7. Cardinality(S) + Cardinality(T) <= Cohort
    BY <1>3, <1>4, <1>5, <1>6
<1> QED
    BY <1>7 DEF S, T
-------------------------------------------------------------------------------
LEMMA IdleTyped == Idle \in Requests /\ Idle.at = "idle" /\ Sense(Idle) /\ Idle.list = Nobody
<1>1. Nobody \in Lists /\ 1 \in 1..(Cohort + 1) /\ [l \in 1..Lanes |-> 0] \in [1..Lanes -> 0..Cohort]
      /\ 0 \in 0..Cohort /\ "ASSIGNED" \in TrainingStatus /\ "idle" \in Awaits
    BY WorkplaceAssumption DEF Nobody, Lists, TrainingStatus, Awaits
<1> QED
    BY <1>1 DEF Idle, Requests, Sense, Filers

(* The request in flight becomes r. *)
Becomes(w, r) == req' = [req EXCEPT ![w] = r]

LEMMA BecomesTyped ==
    ASSUME req \in [Workers -> Requests], NEW w \in Workers, NEW r \in Requests, Becomes(w, r)
    PROVE  req' \in [Workers -> Requests] /\ req'[w] = r /\ \A v \in Workers \ {w} : req'[v] = req[v]
BY DEF Becomes

LEMMA AnswerTyped ==
    ASSUME req \in [Workers -> Requests], NEW w \in Workers, Answer(w)
    PROVE  req' \in [Workers -> Requests] /\ req'[w] = Idle /\ \A v \in Workers \ {w} : req'[v] = req[v]
BY IdleTyped DEF Answer

LEMMA MassIssueTyped ==
    ASSUME CoreInv, NEW w \in Workers, MassIssue(w)
    PROVE  \E r \in Requests : Becomes(w, r) /\ Sense(r) /\ r.at = "draft"
<1>0. req[w] = Idle
    BY DEF CoreInv, Sense, MassIssue, AtAwait
<1>1. FirstTaken \in [1..Lanes -> 0..Cohort]
    BY WorkplaceAssumption DEF FirstTaken
<1>2. PICK cursor \in 1..(Cohort + 1) : cursor = IF Lanes < Cohort THEN Lanes + 1 ELSE Cohort + 1
    BY WorkplaceAssumption
<1>3. PICK r \in Requests : r = [Idle EXCEPT !.at = "draft", !.lane = FirstTaken, !.cursor = cursor]
    BY <1>1, IdleTyped DEF Requests, Awaits
<1>4. r.at = "draft" /\ r.lane = FirstTaken /\ r.cursor = cursor /\ r.list = Nobody
    BY <1>3, IdleTyped DEF Requests
<1>5. Becomes(w, r)
    BY <1>0, <1>2, <1>3 DEF MassIssue, Becomes
<1>6. ASSUME NEW i \in Employees, i < cursor
      PROVE  \E l \in 1..Lanes : FirstTaken[l] = i
    BY <1>2, <1>6, WorkplaceAssumption DEF FirstTaken, Employees
<1>7. ASSUME NEW l \in 1..Lanes, FirstTaken[l] = 0
      PROVE  cursor = Cohort + 1
    BY <1>2, <1>7, WorkplaceAssumption DEF FirstTaken
<1>8. Drafted(r)
    BY <1>4, <1>6, <1>7 DEF Drafted, Nobody
<1> QED
    BY <1>4, <1>5, <1>8 DEF Sense, Filers

LEMMA TakeTyped ==
    ASSUME NEW r \in Requests, NEW l \in 1..Lanes
    PROVE  /\ Take(r, l) \in Requests
           /\ Take(r, l).at = r.at /\ Take(r, l).list = r.list
           /\ \A m \in 1..Lanes \ {l} : Take(r, l).lane[m] = r.lane[m]
           /\ r.cursor > Cohort => Take(r, l).lane[l] = 0 /\ Take(r, l).cursor = r.cursor
           /\ r.cursor <= Cohort => Take(r, l).lane[l] = r.cursor /\ Take(r, l).cursor = r.cursor + 1
<1>0. r.cursor \in 1..(Cohort + 1) /\ r.lane \in [1..Lanes -> 0..Cohort]
    BY DEF Requests
<1>1. CASE r.cursor > Cohort
  <2>0. 0 \in 0..Cohort
      BY WorkplaceAssumption
  <2>1. PICK lane \in [1..Lanes -> 0..Cohort] : lane = [r.lane EXCEPT ![l] = 0]
      BY <1>0, <2>0
  <2>2. PICK s \in Requests : s = [r EXCEPT !.lane = lane]
      BY DEF Requests
  <2>3. s.at = r.at /\ s.list = r.list /\ s.lane = lane /\ s.cursor = r.cursor
      BY <2>2 DEF Requests
  <2>4. Take(r, l) = s
      BY <1>1, <2>1, <2>2 DEF Take
  <2> QED
      BY <1>0, <1>1, <2>1, <2>3, <2>4, WorkplaceAssumption
<1>2. CASE ~(r.cursor > Cohort)
  <2>0. r.cursor \in 0..Cohort /\ r.cursor + 1 \in 1..(Cohort + 1)
      BY <1>0, <1>2, WorkplaceAssumption
  <2>1. PICK lane \in [1..Lanes -> 0..Cohort] : lane = [r.lane EXCEPT ![l] = r.cursor]
      BY <1>0, <2>0
  <2>2. PICK s \in Requests : s = [r EXCEPT !.lane = lane, !.cursor = r.cursor + 1]
      BY <2>0 DEF Requests
  <2>3. s.at = r.at /\ s.list = r.list /\ s.lane = lane /\ s.cursor = r.cursor + 1
      BY <2>2 DEF Requests
  <2>4. Take(r, l) = s
      BY <1>2, <2>1, <2>2 DEF Take
  <2> QED
      BY <1>0, <1>2, <2>1, <2>3, <2>4, WorkplaceAssumption
<1> QED
    BY <1>1, <1>2

LEMMA DraftTyped ==
    ASSUME CoreInv, NEW w \in Workers, Draft(w)
    PROVE  \E r \in Requests : Becomes(w, r) /\ Sense(r) /\ r.at = "draft"
<1>0. req[w] \in Requests /\ Sense(req[w]) /\ req[w].at = "draft" /\ Drafted(req[w])
    BY DEF CoreInv, TypeOK, Sense, Draft, AtAwait
<1>1. PICK l \in 1..Lanes, newStatus \in {"Pending", "Failed"} :
          /\ req[w].lane[l] # 0
          /\ req' = [req EXCEPT ![w] = Take([req[w] EXCEPT !.list[req[w].lane[l]] = newStatus], l)]
    BY DEF Draft
<1>2. PICK i \in Employees : i = req[w].lane[l]
    BY <1>0, <1>1, WorkplaceAssumption DEF Requests, Employees
<1>3. PICK list \in Lists : list = [req[w].list EXCEPT ![i] = newStatus]
    BY <1>0, <1>1 DEF Requests, Lists, ItemStatus
<1>4. PICK q \in Requests : q = [req[w] EXCEPT !.list = list]
    BY <1>0 DEF Requests
<1>5. q.at = "draft" /\ q.list = list /\ q.lane = req[w].lane /\ q.cursor = req[w].cursor
    BY <1>0, <1>4 DEF Requests
<1>6. PICK r \in Requests : r = Take(q, l)
    BY TakeTyped
<1>7. Becomes(w, r)
    BY <1>1, <1>2, <1>3, <1>4, <1>6 DEF Becomes
<1>8. /\ r.at = "draft" /\ r.list = list
      /\ \A m \in 1..Lanes \ {l} : r.lane[m] = req[w].lane[m]
      /\ req[w].cursor > Cohort => r.lane[l] = 0 /\ r.cursor = req[w].cursor
      /\ req[w].cursor <= Cohort => r.lane[l] = req[w].cursor /\ r.cursor = req[w].cursor + 1
    BY <1>5, <1>6, TakeTyped
<1>9. req[w].cursor \in 1..(Cohort + 1) /\ Cohort \in Nat /\ Lanes \in Nat /\ Employees = 1..Cohort
    BY <1>0, WorkplaceAssumption DEF Requests, Employees
<1>10. /\ list[i] = newStatus /\ newStatus \notin {"none", "Issued"}
       /\ \A j \in Employees \ {i} : list[j] = req[w].list[j]
    BY <1>0, <1>1, <1>3 DEF Lists, Requests
<1>11. ASSUME NEW j \in Employees, j < r.cursor
       PROVE  list[j] # "none" \/ \E m \in 1..Lanes : r.lane[m] = j
  <2>1. CASE j = i
      BY <1>10, <2>1
  <2>2. CASE j # i /\ j < req[w].cursor
    <3>1. list[j] # "none" \/ \E m \in 1..Lanes : req[w].lane[m] = j
        BY <1>0, <1>10, <2>2 DEF Drafted
    <3>2. \A m \in 1..Lanes : req[w].lane[m] = j => m # l /\ r.lane[m] = j
        BY <1>2, <1>8, <2>2
    <3> QED
        BY <3>1, <3>2
  <2>3. CASE ~(j < req[w].cursor)
      BY <1>8, <1>9, <1>11, <2>3
  <2> QED
      BY <2>1, <2>2, <2>3
<1>12. \A m \in 1..Lanes : r.lane[m] = 0 => r.cursor = Cohort + 1
  <2> SUFFICES ASSUME NEW m \in 1..Lanes, r.lane[m] = 0
               PROVE  r.cursor = Cohort + 1
      OBVIOUS
  <2>1. req[w].cursor > Cohort
    <3>1. CASE m = l
        BY <1>8, <1>9, <3>1
    <3>2. CASE m # l
      <4>1. req[w].cursor = Cohort + 1
          BY <1>0, <1>8, <3>2 DEF Drafted
      <4> QED
          BY <1>9, <4>1
    <3> QED
        BY <3>1, <3>2
  <2> QED
      BY <1>8, <1>9, <2>1
<1>13. \A j \in Employees : list[j] # "Issued"
    BY <1>0, <1>10 DEF Drafted
<1> QED
    BY <1>7, <1>8, <1>11, <1>12, <1>13 DEF Sense, Drafted, Filers
-------------------------------------------------------------------------------
(* The approval, item by item. *)
LEMMA ClaimTyped ==
    ASSUME CoreInv, NEW w \in Workers, Claim(w), run.status = "AWAITING_APPROVAL"
    PROVE  \E r \in Requests : /\ Becomes(w, r) /\ Sense(r) /\ r.at = "file" /\ r.list = req[w].list
                               /\ r.issued = Cardinality(Having(req[w].list, "Issued"))
<1>0. req[w] \in Requests
    BY DEF CoreInv, TypeOK
<1>1. PICK issued \in 0..Cohort : issued = Cardinality(Having(req[w].list, "Issued"))
    BY HavingFinite
<1>2. PICK r \in Requests : r = [req[w] EXCEPT !.at = "file", !.issued = issued]
    BY <1>0 DEF Requests, Awaits
<1>3. r.at = "file" /\ r.list = req[w].list /\ r.issued = issued
    BY <1>0, <1>2 DEF Requests
<1>4. Becomes(w, r)
    BY <1>1, <1>2 DEF Claim, Becomes
<1>5. r.issued + Cardinality(Having(r.list, "Pending")) <= Cohort
    BY <1>1, <1>3, HavingRoom
<1> QED
    BY <1>1, <1>3, <1>4, <1>5 DEF Sense

LEMMA FileReadTyped ==
    ASSUME CoreInv, NEW w \in Workers, FileRead(w)
    PROVE  \E r \in Requests : /\ Becomes(w, r) /\ Sense(r) /\ r.at \in {"commit", "fail"}
                               /\ r.list = req[w].list /\ r.issued = req[w].issued
<1>0. req[w] \in Requests /\ Sense(req[w]) /\ req[w].at = "file"
    BY DEF CoreInv, TypeOK, FileRead, AtAwait
<1>1. PICK i \in Employees, readable \in BOOLEAN :
         /\ NextItem(w, i)
         /\ req' = [req EXCEPT ![w].item = i,
                               ![w].at = IF readable /\ items[i] = "Pending" THEN "commit" ELSE "fail"]
    BY DEF FileRead
<1>2. PICK at \in {"commit", "fail"} : at = IF readable /\ items[i] = "Pending" THEN "commit" ELSE "fail"
    OBVIOUS
<1>3. i \in 0..Cohort
    BY WorkplaceAssumption DEF Employees
<1>4. PICK r \in Requests : r = [req[w] EXCEPT !.item = i, !.at = at]
    BY <1>0, <1>3 DEF Requests, Awaits
<1>5. r.at = at /\ r.item = i /\ r.list = req[w].list /\ r.issued = req[w].issued
    BY <1>0, <1>4 DEF Requests
<1>6. Becomes(w, r)
    BY <1>1, <1>2, <1>4 DEF Becomes
<1>7. r.list[i] = "Pending" /\ r.issued + Cardinality(Having(r.list, "Pending")) <= Cohort
    BY <1>0, <1>1, <1>5 DEF NextItem, Sense, Filers
<1> QED
    BY <1>5, <1>6, <1>7 DEF Sense

(* An item that is done is no longer pending in the list of its approval. *)
LEMMA FiledTyped ==
    ASSUME NEW q \in Requests, Sense(q), q.at \in {"commit", "fail"}
    PROVE  /\ Filed(q) \in Requests /\ Filed(q).at = "file" /\ Filed(q).issued = q.issued
           /\ Filed(q).list = [q.list EXCEPT ![q.item] = "none"]
           /\ q.issued + 1 + Cardinality(Having(Filed(q).list, "Pending")) <= Cohort
<1>0. q.item \in Employees /\ q.list[q.item] = "Pending" /\ q.list \in Lists /\ q.issued \in Nat
      /\ q.issued + Cardinality(Having(q.list, "Pending")) <= Cohort
    BY WorkplaceAssumption DEF Sense, Requests, Filers
<1>1. PICK list \in Lists : list = [q.list EXCEPT ![q.item] = "none"]
    BY <1>0 DEF Lists
<1>2. 0 \in 0..Cohort
    BY WorkplaceAssumption
<1>3. PICK r \in Requests : r = [q EXCEPT !.at = "file", !.list = list, !.item = 0]
    BY <1>2 DEF Requests, Awaits
<1>4. r.at = "file" /\ r.list = list /\ r.issued = q.issued
    BY <1>3 DEF Requests
<1>5. Filed(q) = r
    BY <1>1, <1>3 DEF Filed
<1>6. Cardinality(Having(list, "Pending")) = Cardinality(Having(q.list, "Pending")) - 1
  <2>1. PICK i \in Employees : i = q.item
      BY <1>0
  <2>2. q.list \in Lists /\ q.list[i] = "Pending"
      BY <1>0, <2>1
  <2>3. Cardinality(Having([q.list EXCEPT ![i] = "none"], "Pending")) = Cardinality(Having(q.list, "Pending")) - 1
      BY <2>2, HavingLess
  <2> QED
      BY <1>1, <2>1, <2>3
<1>7. Cardinality(Having(q.list, "Pending")) \in 0..Cohort /\ Cardinality(Having(list, "Pending")) \in 0..Cohort
    BY HavingFinite
<1>8. q.issued + 1 + Cardinality(Having(list, "Pending")) <= Cohort
    BY <1>0, <1>6, <1>7, WorkplaceAssumption
<1> QED
    BY <1>1, <1>4, <1>5, <1>8

LEMMA FailTyped ==
    ASSUME CoreInv, NEW w \in Workers, req[w].at = "commit", req' = [req EXCEPT ![w].at = "fail"]
    PROVE  \E r \in Requests : /\ Becomes(w, r) /\ Sense(r) /\ r.at = "fail"
                               /\ r.list = req[w].list /\ r.issued = req[w].issued
<1>0. req[w] \in Requests /\ Sense(req[w])
    BY DEF CoreInv, TypeOK
<1>1. PICK r \in Requests : r = [req[w] EXCEPT !.at = "fail"]
    BY <1>0 DEF Requests, Awaits
<1>2. r.at = "fail" /\ r.item = req[w].item /\ r.list = req[w].list /\ r.issued = req[w].issued
    BY <1>0, <1>1 DEF Requests
<1>3. Becomes(w, r)
    BY <1>1 DEF Becomes
<1> QED
    BY <1>0, <1>2, <1>3 DEF Sense, Filers

LEMMA CommitTyped ==
    ASSUME CoreInv, NEW w \in Workers, req[w].at = "commit",
           req' = [req EXCEPT ![w] = [Filed(req[w]) EXCEPT !.issued = req[w].issued + 1]]
    PROVE  \E r \in Requests : /\ Becomes(w, r) /\ Sense(r) /\ r.at = "file" /\ r.issued = req[w].issued + 1
                               /\ r.list = [req[w].list EXCEPT ![req[w].item] = "none"]
<1>0. req[w] \in Requests /\ Sense(req[w]) /\ req[w].issued \in Nat
    BY WorkplaceAssumption DEF CoreInv, TypeOK, Requests
<1>1. PICK q \in Requests : /\ q = Filed(req[w]) /\ q.at = "file"
                            /\ q.list = [req[w].list EXCEPT ![req[w].item] = "none"]
                            /\ req[w].issued + 1 + Cardinality(Having(q.list, "Pending")) <= Cohort
    BY <1>0, FiledTyped
<1>2. Cardinality(Having(q.list, "Pending")) \in 0..Cohort
    BY HavingFinite
<1>3. PICK issued \in 0..Cohort : issued = req[w].issued + 1
    BY <1>0, <1>1, <1>2, WorkplaceAssumption
<1>4. PICK r \in Requests : r = [q EXCEPT !.issued = issued]
    BY <1>1 DEF Requests
<1>5. r.at = "file" /\ r.list = q.list /\ r.issued = issued
    BY <1>1, <1>4 DEF Requests
<1>6. Becomes(w, r)
    BY <1>1, <1>3, <1>4 DEF Becomes
<1> QED
    BY <1>1, <1>3, <1>5, <1>6 DEF Sense

LEMMA MarkFailedTyped ==
    ASSUME CoreInv, NEW w \in Workers, MarkFailed(w)
    PROVE  \E r \in Requests : /\ Becomes(w, r) /\ Sense(r) /\ r.at = "file" /\ r.issued = req[w].issued
                               /\ r.list = [req[w].list EXCEPT ![req[w].item] = "none"]
<1>0. req[w] \in Requests /\ Sense(req[w]) /\ req[w].at = "fail" /\ req[w].issued \in Nat
    BY WorkplaceAssumption DEF CoreInv, TypeOK, Requests, MarkFailed, AtAwait
<1>1. PICK r \in Requests : /\ r = Filed(req[w]) /\ r.at = "file" /\ r.issued = req[w].issued
                            /\ r.list = [req[w].list EXCEPT ![req[w].item] = "none"]
                            /\ req[w].issued + 1 + Cardinality(Having(r.list, "Pending")) <= Cohort
    BY <1>0, FiledTyped
<1>2. Cardinality(Having(r.list, "Pending")) \in 0..Cohort
    BY HavingFinite
<1>3. r.issued + Cardinality(Having(r.list, "Pending")) <= Cohort
    BY <1>0, <1>1, <1>2, WorkplaceAssumption
<1>4. Becomes(w, r)
    BY <1>1 DEF Becomes, MarkFailed
<1> QED
    BY <1>1, <1>3, <1>4 DEF Sense

(* The requests that only read, and those of the courses. *)
Learners == {"edit", "remove", "assign", "progress"}

LEMMA TryApproveTyped ==
    ASSUME CoreInv, NEW w \in Workers, TryApprove(w)
    PROVE  \E r \in Requests : Becomes(w, r) /\ Sense(r) /\ r.at = "claim" /\ r.list = items
<1>0. req[w] \in Requests /\ items \in Lists
    BY DEF CoreInv, TypeOK
<1>1. PICK r \in Requests : r = [req[w] EXCEPT !.at = "claim", !.list = items]
    BY <1>0 DEF Requests, Awaits
<1>2. r.at = "claim" /\ r.list = items
    BY <1>0, <1>1 DEF Requests
<1>3. Becomes(w, r)
    BY <1>1 DEF Becomes, TryApprove
<1> QED
    BY <1>2, <1>3 DEF Sense, Filers

LEMMA LearnerTyped ==
    ASSUME CoreInv, NEW w \in Workers,
           UpdatePeerCourse(w) \/ DeletePeerCourse(w) \/ AssignTraining(w) \/ UpdateAssignment(w)
    PROVE  \E r \in Requests : /\ Becomes(w, r) /\ Sense(r) /\ r.at \in Learners
                               /\ UpdatePeerCourse(w) \/ r.at # "edit"
                               /\ AssignTraining(w) \/ r.at # "assign"
<1>0. req[w] \in Requests
    BY DEF CoreInv, TypeOK
<1>1. \A r : r.at \in Learners => Sense(r)
    BY DEF Sense, Learners, Filers
<1>2. CASE UpdatePeerCourse(w)
  <2>1. PICK submit \in BOOLEAN : req' = [req EXCEPT ![w].at = "edit", ![w].submit = submit]
      BY <1>2 DEF UpdatePeerCourse
  <2>2. PICK r \in Requests : r = [req[w] EXCEPT !.at = "edit", !.submit = submit]
      BY <1>0 DEF Requests, Awaits
  <2>3. r.at = "edit" /\ Becomes(w, r)
      BY <1>0, <2>1, <2>2 DEF Requests, Becomes
  <2> QED
      BY <1>1, <1>2, <2>3 DEF Learners
<1>3. CASE DeletePeerCourse(w)
  <2>2. PICK r \in Requests : r = [req[w] EXCEPT !.at = "remove"]
      BY <1>0 DEF Requests, Awaits
  <2>3. r.at = "remove" /\ Becomes(w, r)
      BY <1>0, <1>3, <2>2 DEF Requests, Becomes, DeletePeerCourse
  <2> QED
      BY <1>1, <2>3 DEF Learners
<1>4. CASE AssignTraining(w)
  <2>1. PICK to \in SUBSET Staff : req' = [req EXCEPT ![w].at = "assign", ![w].to = to]
      BY <1>4 DEF AssignTraining
  <2>2. PICK r \in Requests : r = [req[w] EXCEPT !.at = "assign", !.to = to]
      BY <1>0 DEF Requests, Awaits
  <2>3. r.at = "assign" /\ Becomes(w, r)
      BY <1>0, <2>1, <2>2 DEF Requests, Becomes
  <2> QED
      BY <1>1, <1>4, <2>3 DEF Learners
<1>5. CASE UpdateAssignment(w)
  <2>1. PICK e \in Staff, newStatus \in TrainingStatus :
            req' = [req EXCEPT ![w].at = "progress", ![w].to = {e}, ![w].status = newStatus]
      BY <1>5 DEF UpdateAssignment
  <2>2. PICK r \in Requests : r = [req[w] EXCEPT !.at = "progress", !.to = {e}, !.status = newStatus]
      BY <1>0 DEF Requests, Awaits
  <2>3. r.at = "progress" /\ Becomes(w, r)
      BY <1>0, <2>1, <2>2 DEF Requests, Becomes
  <2> QED
      BY <1>1, <2>3 DEF Learners
<1> QED
    BY <1>2, <1>3, <1>4, <1>5

LEMMA UpsertTyped ==
    ASSUME CoreInv, NEW w \in Workers, Upsert(w)
    PROVE  \E r \in Requests : Becomes(w, r) /\ Sense(r) /\ r.at \in {"idle", "assign"}
<1>0. req[w] \in Requests /\ req[w].at = "assign"
    BY DEF CoreInv, TypeOK, Upsert, AtAwait
<1>1. CASE Answer(w)
    BY <1>1, IdleTyped DEF Answer, Becomes
<1>2. CASE ~Answer(w)
  <2>1. PICK e \in req[w].to : req' = [req EXCEPT ![w] = IF @.to = {e} THEN Idle ELSE [@ EXCEPT !.to = req[w].to \ {e}]]
      BY <1>2 DEF Upsert
  <2>2. req[w].to # {e}
      BY <1>2, <2>1 DEF Answer
  <2>3. PICK r \in Requests : r = [req[w] EXCEPT !.to = req[w].to \ {e}]
      BY <1>0 DEF Requests
  <2>4. r.at = "assign" /\ Becomes(w, r)
      BY <1>0, <2>1, <2>2, <2>3 DEF Requests, Becomes
  <2> QED
      BY <2>4 DEF Sense, Filers
<1> QED
    BY <1>1, <1>2
-------------------------------------------------------------------------------
(* The request that moves: one that arrives and needs no await stays at    *)
(* rest, and one that is answered comes to rest.                           *)
Answered(w) ==
    CreateRun(w) \/ Finish(w) \/ EditWrite(w) \/ RemoveWrite(w) \/ ProgressWrite(w) \/ Die(w)
Immediate(w) == SetAgentRunStatus(w) \/ CreatePeerCourse(w) \/ DeleteCourse(w) \/ UpdateCourse(w)

LEMMA AnsweredTyped ==
    ASSUME NEW w \in Workers, Answered(w) \/ Answer(w)
    PROVE  Becomes(w, Idle)
BY DEF Answered, Answer, Becomes, CreateRun, Finish, EditWrite, RemoveWrite, ProgressWrite, Die

LEMMA RequestMoves ==
    ASSUME CoreInv, NEW w \in Workers, Arrive(w) \/ Handle(w) \/ Die(w)
    PROVE  /\ req' \in [Workers -> Requests] /\ \A v \in Workers \ {w} : req'[v] = req[v]
           /\ Sense(req[w])'
<1>0. req \in [Workers -> Requests] /\ Sense(req[w])
    BY DEF CoreInv, TypeOK
<1>1. ASSUME NEW r \in Requests, Becomes(w, r), Sense(r)
      PROVE  /\ req' \in [Workers -> Requests] /\ \A v \in Workers \ {w} : req'[v] = req[v]
             /\ Sense(req[w])'
  <2>1. /\ req' \in [Workers -> Requests] /\ req'[w] = r
        /\ \A v \in Workers \ {w} : req'[v] = req[v]
      BY <1>0, <1>1, BecomesTyped
  <2> QED
      BY <1>1, <2>1 DEF Sense, Drafted, Having
<1>2. CASE UNCHANGED req
    BY <1>0, <1>2 DEF Sense, Drafted, Having
<1>3. CASE Answered(w) \/ Answer(w)
    BY <1>1, <1>3, AnsweredTyped, IdleTyped
<1>4. CASE Immediate(w)
    BY <1>2, <1>4 DEF Immediate, SetAgentRunStatus, CreatePeerCourse, DeleteCourse, UpdateCourse
<1>5. CASE MassIssue(w) \/ Draft(w)
    BY <1>1, <1>5, MassIssueTyped, DraftTyped
<1>6. CASE TryApprove(w) \/ FileRead(w) \/ MarkFailed(w)
    BY <1>1, <1>6, TryApproveTyped, FileReadTyped, MarkFailedTyped
<1>7. CASE Claim(w)
    BY <1>1, <1>3, <1>7, ClaimTyped DEF Claim
<1>8. CASE Commit(w)
    BY <1>1, <1>8, CommitTyped, FailTyped DEF Commit, AtAwait
<1>9. CASE UpdatePeerCourse(w) \/ DeletePeerCourse(w) \/ AssignTraining(w) \/ UpdateAssignment(w) \/ Upsert(w)
    BY <1>1, <1>9, LearnerTyped, UpsertTyped
<1> QED
    BY <1>3, <1>4, <1>5, <1>6, <1>7, <1>8, <1>9 DEF Arrive, Handle, Answered, Immediate

(* The steps that are not about the letters, and those not about the       *)
(* course.                                                                 *)
LetterStep(w) ==
    CreateRun(w) \/ Claim(w) \/ Commit(w) \/ MarkFailed(w) \/ Finish(w) \/ SetAgentRunStatus(w)
CourseStep(w) ==
    \/ CreatePeerCourse(w) \/ EditWrite(w) \/ DeleteCourse(w) \/ RemoveWrite(w) \/ UpdateCourse(w)
    \/ Upsert(w) \/ ProgressWrite(w)

LEMMA Frames ==
    ASSUME NEW w \in Workers, Arrive(w) \/ Handle(w) \/ Die(w)
    PROVE  /\ LetterStep(w) \/ UNCHANGED lettering
           /\ CourseStep(w) \/ UNCHANGED learning
           /\ UNCHANGED workload
           /\ SetAgentRunStatus(w) \/ UpdateCourse(w) \/ Die(w) \/ UNCHANGED crossed
<1>1. LetterStep(w) \/ UNCHANGED lettering
    BY DEF LetterStep, Arrive, Handle, Die, MassIssue, Draft, TryApprove, FileRead, CreatePeerCourse,
         UpdatePeerCourse, EditWrite, DeletePeerCourse, RemoveWrite, DeleteCourse, UpdateCourse, AssignTraining,
         Upsert, UpdateAssignment, ProgressWrite
<1>2. CourseStep(w) \/ UNCHANGED learning
    BY DEF CourseStep, Arrive, Handle, Die, MassIssue, Draft, CreateRun, TryApprove, Claim, FileRead, Commit,
         MarkFailed, Finish, SetAgentRunStatus, UpdatePeerCourse, DeletePeerCourse, AssignTraining, UpdateAssignment
<1>3. UNCHANGED workload
    BY DEF Arrive, Handle, Die, MassIssue, Draft, CreateRun, TryApprove, Claim, FileRead, Commit,
         MarkFailed, Finish, SetAgentRunStatus, CreatePeerCourse,
         UpdatePeerCourse, EditWrite, DeletePeerCourse, RemoveWrite, DeleteCourse, UpdateCourse, AssignTraining,
         Upsert, UpdateAssignment, ProgressWrite
<1>4. SetAgentRunStatus(w) \/ UpdateCourse(w) \/ Die(w) \/ UNCHANGED crossed
    BY DEF Arrive, Handle, MassIssue, Draft, CreateRun, TryApprove, Claim, FileRead, Commit,
         MarkFailed, Finish, CreatePeerCourse,
         UpdatePeerCourse, EditWrite, DeletePeerCourse, RemoveWrite, DeleteCourse, AssignTraining,
         Upsert, UpdateAssignment, ProgressWrite
<1> QED
    BY <1>1, <1>2, <1>3, <1>4

LEMMA LetteringTyped ==
    ASSUME CoreInv, NEW w \in Workers, Arrive(w) \/ Handle(w) \/ Die(w)
    PROVE  /\ run' \in [status : AgentStatus \union {"none"}, affected : 0..Cohort]
           /\ items' \in Lists /\ letters' \in [Employees -> Nat]
<1>0. /\ run \in [status : AgentStatus \union {"none"}, affected : 0..Cohort]
      /\ items \in Lists /\ letters \in [Employees -> Nat]
      /\ req[w] \in Requests /\ req[w].list \in Lists /\ req[w].issued \in 0..Cohort /\ Sense(req[w])
    BY DEF CoreInv, TypeOK, Requests
<1>1. CASE UNCHANGED lettering
    BY <1>0, <1>1 DEF lettering
<1>2. CASE CreateRun(w)
  <2>1. Cohort \in 0..Cohort
      BY WorkplaceAssumption
  <2> QED
      BY <1>0, <1>2, <2>1 DEF CreateRun, AgentStatus
<1>3. CASE Claim(w)
  <2>1. run' \in [status : AgentStatus \union {"none"}, affected : 0..Cohort]
    <3>1. CASE run.status = "AWAITING_APPROVAL"
        BY <1>0, <1>3, <3>1 DEF Claim, AgentStatus
    <3>2. CASE run.status # "AWAITING_APPROVAL"
        BY <1>0, <1>3, <3>2 DEF Claim
    <3> QED
        BY <3>1, <3>2
  <2> QED
      BY <1>0, <1>3, <2>1 DEF Claim
<1>4. CASE Commit(w)
  <2>1. UNCHANGED run
      BY <1>4 DEF Commit
  <2>2. \/ UNCHANGED <<letters, items>>
        \/ /\ letters' = [letters EXCEPT ![req[w].item] = @ + 1]
           /\ items' = [items EXCEPT ![req[w].item] = "Issued"]
      BY <1>4 DEF Commit
  <2> QED
      BY <1>0, <2>1, <2>2 DEF Lists, ItemStatus
<1>5. CASE MarkFailed(w)
    BY <1>0, <1>5 DEF MarkFailed, Lists, ItemStatus
<1>6. CASE Finish(w)
    BY <1>0, <1>6 DEF Finish, AgentStatus
<1>7. CASE SetAgentRunStatus(w)
    BY <1>0, <1>7 DEF SetAgentRunStatus, AgentStatus
<1> QED
    BY <1>1, <1>2, <1>3, <1>4, <1>5, <1>6, <1>7, Frames DEF LetterStep

LEMMA LearningTyped ==
    ASSUME CoreInv, NEW w \in Workers, Arrive(w) \/ Handle(w) \/ Die(w)
    PROVE  /\ course' \in [status : CourseStatus \union {"none"}, text : 0..MaxEdits]
           /\ approved' \in 0..MaxEdits /\ withdrawn' \in BOOLEAN
           /\ assigned' \in [Staff -> TrainingStatus \union {"none"}]
<1>0. /\ course \in [status : CourseStatus \union {"none"}, text : 0..MaxEdits]
      /\ approved \in 0..MaxEdits /\ withdrawn \in BOOLEAN
      /\ assigned \in [Staff -> TrainingStatus \union {"none"}]
      /\ req[w] \in Requests
    BY DEF CoreInv, TypeOK
<1>1. CASE UNCHANGED learning
    BY <1>0, <1>1 DEF learning
<1>2. CASE CreatePeerCourse(w)
  <2>1. 1 \in 0..MaxEdits
      BY WorkplaceAssumption
  <2> QED
      BY <1>0, <1>2, <2>1 DEF CreatePeerCourse, CourseStatus
<1>3. CASE EditWrite(w)
  <2>0. course.text < MaxEdits /\ UNCHANGED <<approved, withdrawn, assigned>>
      BY <1>3 DEF EditWrite
  <2>1. course.text + 1 \in 0..MaxEdits
      BY <1>0, <2>0, WorkplaceAssumption
  <2>2. course' = course \/ \E newStatus \in {"PENDING_APPROVAL", course.status} :
                                course' = [status |-> newStatus, text |-> course.text + 1]
      BY <1>3 DEF EditWrite
  <2> QED
      BY <1>0, <2>0, <2>1, <2>2 DEF CourseStatus
<1>4. CASE DeleteCourse(w) \/ RemoveWrite(w)
    BY <1>0, <1>4 DEF DeleteCourse, RemoveWrite, Removal
<1>5. CASE UpdateCourse(w)
  <2>1. PICK newStatus \in {"PUBLISHED", "REJECTED"} :
            /\ course' = [course EXCEPT !.status = newStatus]
            /\ approved' = IF newStatus = "PUBLISHED" THEN course.text ELSE approved
      BY <1>5 DEF UpdateCourse
  <2> QED
      BY <1>0, <1>5, <2>1 DEF UpdateCourse, CourseStatus
<1>6. CASE Upsert(w)
  <2>1. UNCHANGED assigned \/ \E e \in req[w].to : assigned' = [assigned EXCEPT ![e] = IF @ = "none" THEN "ASSIGNED" ELSE @]
      BY <1>6 DEF Upsert
  <2> QED
      BY <1>0, <1>6, <2>1 DEF Upsert, TrainingStatus
<1>7. CASE ProgressWrite(w)
    BY <1>0, <1>7 DEF ProgressWrite, Requests
<1> QED
    BY <1>1, <1>2, <1>3, <1>4, <1>5, <1>6, <1>7, Frames DEF CourseStep

LEMMA CoreStarts == Init => CoreInv
<1> SUFFICES ASSUME Init PROVE CoreInv
    OBVIOUS
<1>1. req \in [Workers -> Requests] /\ \A w \in Workers : req[w] = Idle
    BY IdleTyped DEF Init
<1>2. Nobody \in Lists /\ 0 \in 0..Cohort /\ 0 \in 0..MaxEdits
    BY WorkplaceAssumption DEF Nobody, Lists
<1> QED
    BY <1>1, <1>2, IdleTyped DEF Init, CoreInv, TypeOK

LEMMA CoreHolds == CoreInv /\ [Next]_vars => CoreInv'
<1> SUFFICES ASSUME CoreInv, [Next]_vars PROVE CoreInv'
    OBVIOUS
<1>1. CASE UNCHANGED vars
  <2>1. \A w \in Workers : Sense(req[w])' <=> Sense(req[w])
      BY <1>1 DEF vars, Sense, Drafted, Having
  <2> QED
      BY <1>1, <2>1 DEF vars, lettering, learning, CoreInv, TypeOK
<1>2. ASSUME NEW w \in Workers, Arrive(w) \/ Handle(w) \/ Die(w)
      PROVE  CoreInv'
  <2>1. \A v \in Workers : Sense(req[v])'
    <3> SUFFICES ASSUME NEW v \in Workers PROVE Sense(req[v])'
        OBVIOUS
    <3>1. CASE v = w
        BY <1>2, <3>1, RequestMoves
    <3>2. CASE v # w
      <4>1. req'[v] = req[v] /\ Sense(req[v])
          BY <1>2, <3>2, RequestMoves DEF CoreInv
      <4> QED
          BY <4>1 DEF Sense, Drafted, Having
    <3> QED
        BY <3>1, <3>2
  <2>2. crossed' \subseteq {"set", "reopened", "course", "died"} /\ workload' \in Workloads
    <3>1. crossed \subseteq {"set", "reopened", "course", "died"} /\ workload \in Workloads
        BY DEF CoreInv, TypeOK
    <3>2. crossed' \subseteq crossed \union {"set", "reopened", "course", "died"}
        BY <1>2, Frames DEF SetAgentRunStatus, UpdateCourse, Die, Cross
    <3> QED
        BY <1>2, <3>1, <3>2, Frames
  <2> QED
      BY <1>2, <2>1, <2>2, RequestMoves, LetteringTyped, LearningTyped DEF CoreInv, TypeOK
<1> QED
    BY <1>1, <1>2 DEF Next

(* The types of the run, its letters, the course and the requests hold in  *)
(* every behaviour; no approval counts more letters than there are.        *)
THEOREM TypesHold == Spec => []TypeOK
<1>1. CoreInv => TypeOK
    BY DEF CoreInv
<1> QED
    BY <1>1, CoreStarts, CoreHolds, PTL DEF Spec
-------------------------------------------------------------------------------
Approvers == {"claim"} \union Filers

(* Letters are drafted once, before there is a run.                        *)
NotYet ==
    /\ \A v, w \in Workers : req[v].at = "draft" /\ req[w].at = "draft" => v = w
    /\ \A w \in Workers : req[w].at = "draft" => run.status = "none"
    /\ \A w \in Workers : req[w].at \in Approvers => run.status # "none"
    /\ run.status = "none" => \A i \in Employees : items[i] = "none" /\ letters[i] = 0

(* While the run is not reopened under an approval, one approval works on  *)
(* it; what it has still to file is pending, and its count is right.       *)
OneApproval ==
    /\ \A v, w \in Workers : req[v].at \in Filers /\ req[w].at \in Filers => v = w
    /\ \A w \in Workers : req[w].at \in Filers => run.status = "RUNNING"
ClaimFresh == \A w \in Workers : req[w].at = "claim" /\ run.status = "AWAITING_APPROVAL" => req[w].list = items
FilerFresh == \A w \in Workers : req[w].at \in Filers =>
    /\ \A i \in Employees : req[w].list[i] = "Pending" => items[i] = "Pending"
    /\ req[w].issued = Cardinality(Having(items, "Issued"))
VaultMatches == \A i \in Employees : letters[i] = IF items[i] = "Issued" THEN 1 ELSE 0
CountMatches == run.status = "COMPLETED" => run.affected = Cardinality(Having(items, "Issued"))

LettersInv ==
    /\ NotYet
    /\ "reopened" \notin crossed => OneApproval /\ ClaimFresh /\ FilerFresh /\ VaultMatches /\ CountMatches

(* What is published was approved, and nobody edits it unless that crossed *)
(* HR's decision.                                                          *)
CourseInv ==
    /\ course.status # "none" => course.text # 0
    /\ course.text = 0 => approved = 0
    /\ course.status = "none" => \A e \in Staff : assigned[e] = "none"
    /\ "course" \notin crossed =>
         /\ course.status = "PUBLISHED" => course.text = approved
         /\ \A w \in Workers : req[w].at = "edit" => course.status # "PUBLISHED"
         /\ \A w \in Workers : req[w].at = "assign" => approved # 0
         /\ (\E e \in Staff : assigned[e] # "none") => approved # 0
         /\ approved # 0 /\ ~withdrawn => course.status \in {"PUBLISHED", "none"}
-------------------------------------------------------------------------------
(* What a request comes to while the run stays as it is.                   *)
Fresh(w) ==
    /\ req'[w].at = "draft" => run.status = "none" /\ (req[w].at = "draft" \/ ~Others(w, {"draft"}))
    /\ req'[w].at = "claim" => run.status # "none" /\ req'[w].list = items
    /\ req'[w].at \in Filers =>
         req[w].at \in Filers /\ req'[w].list = req[w].list /\ req'[w].issued = req[w].issued

(* A step that leaves the run, its items and the vault alone. *)
LEMMA QuietKeepsLetters ==
    ASSUME LettersInv, NEW w \in Workers, UNCHANGED lettering,
           \A v \in Workers \ {w} : req'[v] = req[v], Fresh(w),
           "reopened" \in crossed => "reopened" \in crossed'
    PROVE  LettersInv'
<1>0. UNCHANGED <<run, items, letters>>
    BY DEF lettering
<1>1. NotYet'
  <2>1. \A u, v \in Workers : req'[u].at = "draft" /\ req'[v].at = "draft" => u = v
      BY DEF LettersInv, NotYet, Fresh, Others
  <2>2. \A v \in Workers : req'[v].at = "draft" => run.status = "none"
      BY DEF LettersInv, NotYet, Fresh
  <2>3. \A v \in Workers : req'[v].at \in Approvers => run.status # "none"
      BY DEF LettersInv, NotYet, Fresh, Approvers
  <2> QED
      BY <1>0, <2>1, <2>2, <2>3 DEF LettersInv, NotYet
<1>2. ASSUME "reopened" \notin crossed
      PROVE  OneApproval' /\ ClaimFresh' /\ FilerFresh' /\ VaultMatches' /\ CountMatches'
  <2>0. \A v \in Workers : req'[v].at \in Filers =>
            req[v].at \in Filers /\ req'[v].list = req[v].list /\ req'[v].issued = req[v].issued
      BY DEF Fresh
  <2>1. OneApproval'
      BY <1>0, <1>2, <2>0 DEF LettersInv, OneApproval
  <2>2. ClaimFresh'
      BY <1>0, <1>2 DEF LettersInv, ClaimFresh, Fresh
  <2>3. FilerFresh'
      BY <1>0, <1>2, <2>0 DEF LettersInv, FilerFresh, Having
  <2>4. VaultMatches' /\ CountMatches'
      BY <1>0, <1>2 DEF LettersInv, VaultMatches, CountMatches, Having
  <2> QED
      BY <2>1, <2>2, <2>3, <2>4
<1> QED
    BY <1>1, <1>2 DEF LettersInv

(* Which steps are quiet. *)
LEMMA QuietSteps ==
    ASSUME CoreInv, LettersInv, NEW w \in Workers, Arrive(w) \/ Handle(w) \/ Die(w),
           UNCHANGED lettering, ~MarkFailed(w)
    PROVE  LettersInv'
<1>0. /\ req \in [Workers -> Requests] /\ \A v \in Workers \ {w} : req'[v] = req[v]
      /\ \A v \in Workers : Sense(req[v])
    BY RequestMoves DEF CoreInv, TypeOK
<1>1. "reopened" \in crossed => "reopened" \in crossed'
    BY Frames DEF SetAgentRunStatus, UpdateCourse, Die, Cross
<1>2. ASSUME NEW r \in Requests, Becomes(w, r)
      PROVE  req'[w] = r
    BY <1>0, <1>2, BecomesTyped
<1>3. CASE Answered(w) \/ Answer(w)
  <2>1. req'[w] = Idle
      BY <1>2, <1>3, AnsweredTyped, IdleTyped
  <2>2. Fresh(w)
      BY <2>1, IdleTyped DEF Fresh, Filers
  <2> QED
      BY <1>0, <1>1, <2>2, QuietKeepsLetters
<1>4. CASE Immediate(w)
  <2>1. UNCHANGED req /\ req[w].at = "idle"
      BY <1>4 DEF Immediate, SetAgentRunStatus, CreatePeerCourse, DeleteCourse, UpdateCourse, AtAwait
  <2>2. Fresh(w)
      BY <2>1 DEF Fresh, Filers
  <2> QED
      BY <1>0, <1>1, <2>2, QuietKeepsLetters
<1>5. CASE MassIssue(w) \/ Draft(w)
  <2>1. req'[w].at = "draft"
      BY <1>2, <1>5, MassIssueTyped, DraftTyped
  <2>2. run.status = "none" /\ (req[w].at = "draft" \/ ~Others(w, {"draft"}))
      BY <1>5 DEF MassIssue, Draft, AtAwait, LettersInv, NotYet
  <2>3. Fresh(w)
      BY <2>1, <2>2 DEF Fresh, Filers
  <2> QED
      BY <1>0, <1>1, <2>3, QuietKeepsLetters
<1>6. CASE TryApprove(w)
  <2>1. req'[w].at = "claim" /\ req'[w].list = items /\ run.status # "none"
      BY <1>2, <1>6, TryApproveTyped DEF TryApprove
  <2>2. Fresh(w)
      BY <2>1 DEF Fresh, Filers
  <2> QED
      BY <1>0, <1>1, <2>2, QuietKeepsLetters
<1>7. CASE FileRead(w)
  <2>1. /\ req'[w].at \in {"commit", "fail"} /\ req[w].at = "file"
        /\ req'[w].list = req[w].list /\ req'[w].issued = req[w].issued
      BY <1>2, <1>7, FileReadTyped DEF FileRead, AtAwait
  <2>2. Fresh(w)
      BY <2>1 DEF Fresh, Filers
  <2> QED
      BY <1>0, <1>1, <2>2, QuietKeepsLetters
<1>8. CASE UpdatePeerCourse(w) \/ DeletePeerCourse(w) \/ AssignTraining(w) \/ UpdateAssignment(w) \/ Upsert(w)
  <2>1. req'[w].at \in Learners \union {"idle"}
      BY <1>2, <1>8, LearnerTyped, UpsertTyped DEF Learners
  <2>2. Fresh(w)
      BY <2>1 DEF Fresh, Filers, Learners
  <2> QED
      BY <1>0, <1>1, <2>2, QuietKeepsLetters
<1>9. CASE Claim(w) /\ ~Answer(w)
  <2>1. run.status = "AWAITING_APPROVAL" /\ run' = [run EXCEPT !.status = "RUNNING"]
      BY <1>9 DEF Claim
  <2>2. run'.status = "RUNNING"
      BY <2>1 DEF CoreInv, TypeOK
  <2> QED
      BY <2>1, <2>2 DEF lettering
<1>10. CASE Commit(w)
  <2>0. req[w] \in Requests /\ req[w].at = "commit" /\ letters \in [Employees -> Nat] /\ req[w].item \in Employees
      BY <1>0, <1>10 DEF Commit, AtAwait, CoreInv, TypeOK, Sense
  <2>1. ASSUME letters' = [letters EXCEPT ![req[w].item] = @ + 1]
        PROVE  FALSE
    <3>1. letters'[req[w].item] = letters[req[w].item] + 1 /\ letters[req[w].item] \in Nat
        BY <2>0, <2>1
    <3> QED
        BY <3>1 DEF lettering
  <2>2. req' = [req EXCEPT ![w].at = "fail"]
      BY <1>10, <2>1 DEF Commit
  <2>3. /\ req'[w].at = "fail"
        /\ req'[w].list = req[w].list /\ req'[w].issued = req[w].issued
      BY <1>2, <2>0, <2>2, FailTyped
  <2>4. Fresh(w)
      BY <2>0, <2>3 DEF Fresh, Filers
  <2> QED
      BY <1>0, <1>1, <2>4, QuietKeepsLetters
<1> QED
    BY <1>3, <1>4, <1>5, <1>6, <1>7, <1>8, <1>9, <1>10 DEF Arrive, Handle, Answered, Immediate

(* The steps that are not. *)
LEMMA CreateRunKeepsLetters ==
    ASSUME CoreInv, LettersInv, NEW w \in Workers, CreateRun(w)
    PROVE  LettersInv'
<1>0. /\ req[w] \in Requests /\ Drafted(req[w]) /\ req[w].at = "draft" /\ run.status = "none"
      /\ \A v \in Workers \ {w} : req'[v] = req[v]
      /\ req'[w] = Idle
    BY AnswerTyped DEF CreateRun, AtAwait, CoreInv, TypeOK, Sense, LettersInv, NotYet
<1>1. /\ run'.status = "AWAITING_APPROVAL" /\ items' = req[w].list /\ UNCHANGED <<letters, crossed>>
    BY DEF CreateRun
<1>2. \A v \in Workers : req'[v].at \notin {"draft", "claim"} \union Filers
    BY <1>0, IdleTyped DEF LettersInv, NotYet, Approvers, Filers
<1>3. NotYet'
    BY <1>1, <1>2 DEF NotYet, Approvers
<1>4. OneApproval' /\ ClaimFresh' /\ FilerFresh' /\ CountMatches'
    BY <1>1, <1>2 DEF OneApproval, ClaimFresh, FilerFresh, CountMatches
<1>5. VaultMatches'
    BY <1>0, <1>1 DEF VaultMatches, LettersInv, NotYet, Drafted
<1> QED
    BY <1>3, <1>4, <1>5 DEF LettersInv

LEMMA ClaimKeepsLetters ==
    ASSUME CoreInv, LettersInv, NEW w \in Workers, Claim(w), run.status = "AWAITING_APPROVAL"
    PROVE  LettersInv'
<1>0. PICK r \in Requests : /\ Becomes(w, r) /\ r.at = "file" /\ r.list = req[w].list
                            /\ r.issued = Cardinality(Having(req[w].list, "Issued"))
    BY ClaimTyped
<1>1. /\ req'[w] = r /\ \A v \in Workers \ {w} : req'[v] = req[v]
      /\ req[w].at = "claim"
    BY <1>0, BecomesTyped DEF CoreInv, TypeOK, Claim, AtAwait
<1>2. /\ run' = [run EXCEPT !.status = "RUNNING"]
      /\ UNCHANGED <<items, letters, crossed>>
    BY DEF Claim
<1>3. run'.status = "RUNNING"
    BY <1>2 DEF CoreInv, TypeOK
<1>4. NotYet'
    BY <1>0, <1>1, <1>2, <1>3 DEF LettersInv, NotYet
<1>5. ASSUME "reopened" \notin crossed
      PROVE  OneApproval' /\ ClaimFresh' /\ FilerFresh' /\ VaultMatches' /\ CountMatches'
  <2>1. \A v \in Workers : req[v].at \notin Filers
      BY <1>5 DEF LettersInv, OneApproval
  <2>2. OneApproval'
      BY <1>1, <1>3, <2>1 DEF OneApproval
  <2>3. ClaimFresh' /\ CountMatches'
      BY <1>3 DEF ClaimFresh, CountMatches
  <2>4. r.list = items
      BY <1>0, <1>1, <1>5 DEF LettersInv, ClaimFresh
  <2>5. FilerFresh'
    <3> SUFFICES ASSUME NEW v \in Workers, req'[v].at \in Filers
                 PROVE  /\ \A i \in Employees : req'[v].list[i] = "Pending" => items[i] = "Pending"
                        /\ req'[v].issued = Cardinality(Having(items, "Issued"))
        BY <1>2 DEF FilerFresh, Having
    <3>1. v = w
        BY <1>1, <2>1
    <3> QED
        BY <1>0, <1>1, <2>4, <3>1
  <2>6. VaultMatches'
      BY <1>2, <1>5 DEF LettersInv, VaultMatches
  <2> QED
      BY <2>2, <2>3, <2>5, <2>6
<1> QED
    BY <1>2, <1>4, <1>5 DEF LettersInv

(* An item is filed, or marked as failed. *)
LEMMA FilingKeepsLetters ==
    ASSUME CoreInv, LettersInv, NEW w \in Workers, UNCHANGED <<run, crossed>>,
           req[w].at \in {"commit", "fail"}, NEW i \in Employees, i = req[w].item,
           \A v \in Workers \ {w} : req'[v] = req[v],
           req'[w].at = "file", req'[w].list = [req[w].list EXCEPT ![i] = "none"],
           \/ /\ items' = [items EXCEPT ![i] = "Issued"] /\ letters' = [letters EXCEPT ![i] = @ + 1]
              /\ req'[w].issued = req[w].issued + 1
           \/ /\ items' = [items EXCEPT ![i] = "Failed"] /\ UNCHANGED letters
              /\ req'[w].issued = req[w].issued
    PROVE  LettersInv'
<1>0. /\ req[w] \in Requests /\ req[w].list \in Lists /\ req[w].list[i] = "Pending"
      /\ items \in Lists /\ letters \in [Employees -> Nat]
    BY DEF CoreInv, TypeOK, Sense, Requests
<1>1. run.status # "none"
    BY DEF LettersInv, NotYet, Approvers, Filers
<1>2. NotYet'
    BY <1>1 DEF LettersInv, NotYet, Approvers, Filers
<1>3. ASSUME "reopened" \notin crossed
      PROVE  OneApproval' /\ ClaimFresh' /\ FilerFresh' /\ VaultMatches' /\ CountMatches'
  <2>1. run.status = "RUNNING" /\ \A v \in Workers : req[v].at \in Filers => v = w
      BY <1>3 DEF LettersInv, OneApproval, Filers
  <2>2. OneApproval'
      BY <2>1 DEF OneApproval
  <2>3. ClaimFresh' /\ CountMatches'
      BY <2>1 DEF ClaimFresh, CountMatches
  <2>4. /\ items[i] = "Pending" /\ letters[i] = 0
        /\ \A j \in Employees : req[w].list[j] = "Pending" => items[j] = "Pending"
        /\ req[w].issued = Cardinality(Having(items, "Issued"))
        /\ VaultMatches
      BY <1>0, <1>3 DEF LettersInv, FilerFresh, VaultMatches, Filers
  <2>5. VaultMatches'
    <3> SUFFICES ASSUME NEW j \in Employees
                 PROVE  letters'[j] = IF items'[j] = "Issued" THEN 1 ELSE 0
        BY DEF VaultMatches
    <3>1. CASE j = i
        BY <1>0, <2>4, <3>1 DEF Lists
    <3>2. CASE j # i
        BY <1>0, <2>4, <3>2 DEF Lists, VaultMatches
    <3> QED
        BY <3>1, <3>2
  <2>6. req'[w].issued = Cardinality(Having(items, "Issued"))'
    <3>0. Having(items, "Issued")' = Having(items', "Issued")
        BY DEF Having
    <3>1. CASE items' = [items EXCEPT ![i] = "Issued"] /\ req'[w].issued = req[w].issued + 1
      <4>1. Cardinality(Having([items EXCEPT ![i] = "Issued"], "Issued")) = Cardinality(Having(items, "Issued")) + 1
          BY <1>0, <2>4, HavingMore DEF ItemStatus
      <4> QED
          BY <2>4, <3>0, <3>1, <4>1
    <3>2. CASE items' = [items EXCEPT ![i] = "Failed"] /\ req'[w].issued = req[w].issued
      <4>1. Having([items EXCEPT ![i] = "Failed"], "Issued") = Having(items, "Issued")
        <5>1. items \in Lists /\ items[i] # "Issued" /\ "Issued" # "Failed"
            BY <1>0, <2>4
        <5> QED
            BY <5>1 DEF Having, Lists
      <4> QED
          BY <2>4, <3>0, <3>2, <4>1
    <3> QED
        BY <3>1, <3>2
  <2>7. \A j \in Employees : req'[w].list[j] = "Pending" => items'[j] = "Pending"
    <3> SUFFICES ASSUME NEW j \in Employees, req'[w].list[j] = "Pending"
                 PROVE  items'[j] = "Pending"
        OBVIOUS
    <3>1. j # i /\ req[w].list[j] = "Pending"
        BY <1>0 DEF Lists
    <3> QED
        BY <1>0, <2>4, <3>1 DEF Lists
  <2>8. FilerFresh'
    <3> SUFFICES ASSUME NEW v \in Workers, req'[v].at \in Filers
                 PROVE  /\ \A j \in Employees : req'[v].list[j] = "Pending" => items'[j] = "Pending"
                        /\ req'[v].issued = Cardinality(Having(items, "Issued"))'
        BY DEF FilerFresh
    <3>1. v = w
        BY <2>1
    <3> QED
        BY <2>6, <2>7, <3>1
  <2> QED
      BY <2>2, <2>3, <2>5, <2>8
<1> QED
    BY <1>2, <1>3 DEF LettersInv

LEMMA FinishKeepsLetters ==
    ASSUME CoreInv, LettersInv, NEW w \in Workers, Finish(w)
    PROVE  LettersInv'
<1>0. /\ req[w].at = "file" /\ \A v \in Workers \ {w} : req'[v] = req[v]
      /\ req'[w] = Idle
    BY AnswerTyped DEF Finish, AtAwait, CoreInv, TypeOK
<1>1. /\ run' = [status |-> "COMPLETED", affected |-> req[w].issued]
      /\ UNCHANGED <<items, letters, crossed>>
    BY DEF Finish
<1>2. \A v \in Workers : req'[v].at = "idle" \/ (v # w /\ req'[v] = req[v])
    BY <1>0, IdleTyped
<1>3. NotYet'
  <2>1. run.status # "none"
      BY <1>0 DEF LettersInv, NotYet, Approvers, Filers
  <2>2. \A v \in Workers : req'[v].at # "draft"
      BY <1>2, <2>1 DEF LettersInv, NotYet
  <2> QED
      BY <1>1, <2>2 DEF NotYet
<1>4. ASSUME "reopened" \notin crossed
      PROVE  OneApproval' /\ ClaimFresh' /\ FilerFresh' /\ VaultMatches' /\ CountMatches'
  <2>1. \A v \in Workers : req'[v].at \notin Filers
      BY <1>0, <1>2, <1>4 DEF LettersInv, OneApproval, Filers
  <2>2. OneApproval' /\ ClaimFresh' /\ FilerFresh'
      BY <1>1, <2>1 DEF OneApproval, ClaimFresh, FilerFresh
  <2>3. CountMatches'
      BY <1>0, <1>1, <1>4 DEF LettersInv, FilerFresh, CountMatches, Having, Filers
  <2>4. VaultMatches'
      BY <1>1, <1>4 DEF LettersInv, VaultMatches
  <2> QED
      BY <2>2, <2>3, <2>4
<1> QED
    BY <1>1, <1>3, <1>4 DEF LettersInv

LEMMA SettingKeepsLetters ==
    ASSUME CoreInv, LettersInv, NEW w \in Workers, SetAgentRunStatus(w)
    PROVE  LettersInv'
<1>0. /\ req[w].at = "idle" /\ run.status # "none" /\ UNCHANGED <<items, letters, req>>
      /\ run'.status \in {"RUNNING", "AWAITING_APPROVAL"}
      /\ crossed' = crossed \union {"set"}
                  \union {x \in {"reopened"} : Others(w, {"claim", "file", "commit", "fail"})}
    BY DEF SetAgentRunStatus, AtAwait, CoreInv, TypeOK
<1>1. NotYet'
    BY <1>0 DEF LettersInv, NotYet
<1>2. ASSUME "reopened" \notin crossed'
      PROVE  OneApproval' /\ ClaimFresh' /\ FilerFresh' /\ VaultMatches' /\ CountMatches'
  <2>0. "reopened" \notin crossed /\ ~Others(w, {"claim", "file", "commit", "fail"})
      BY <1>0, <1>2
  <2>1. \A v \in Workers : req[v].at \notin Filers /\ req[v].at # "claim"
      BY <1>0, <2>0 DEF Others, Filers
  <2>2. OneApproval' /\ ClaimFresh' /\ FilerFresh'
      BY <1>0, <2>1 DEF OneApproval, ClaimFresh, FilerFresh
  <2>3. CountMatches' /\ VaultMatches'
      BY <1>0, <2>0 DEF LettersInv, CountMatches, VaultMatches
  <2> QED
      BY <2>2, <2>3
<1> QED
    BY <1>1, <1>2 DEF LettersInv

LEMMA LettersHold == CoreInv /\ LettersInv /\ [Next]_vars => LettersInv'
<1> SUFFICES ASSUME CoreInv, LettersInv, [Next]_vars PROVE LettersInv'
    OBVIOUS
<1>1. CASE UNCHANGED vars
    BY <1>1 DEF vars, lettering, LettersInv, NotYet, OneApproval, ClaimFresh, FilerFresh, VaultMatches,
         CountMatches, Having
<1>2. ASSUME NEW w \in Workers, Arrive(w) \/ Handle(w) \/ Die(w)
      PROVE  LettersInv'
  <2>0. /\ req \in [Workers -> Requests] /\ Sense(req[w])
        /\ \A v \in Workers \ {w} : req'[v] = req[v]
      BY <1>2, RequestMoves DEF CoreInv, TypeOK
  <2>1. CASE UNCHANGED lettering /\ ~MarkFailed(w)
      BY <1>2, <2>1, QuietSteps
  <2>2. CASE CreateRun(w)
      BY <2>2, CreateRunKeepsLetters
  <2>3. CASE Claim(w) /\ ~UNCHANGED lettering
      BY <2>3, ClaimKeepsLetters DEF Claim, lettering
  <2>4. CASE Commit(w) /\ ~UNCHANGED lettering
    <3>1. /\ req[w].at = "commit" /\ UNCHANGED <<run, crossed>>
          /\ items' = [items EXCEPT ![req[w].item] = "Issued"]
          /\ letters' = [letters EXCEPT ![req[w].item] = @ + 1]
          /\ req' = [req EXCEPT ![w] = [Filed(req[w]) EXCEPT !.issued = req[w].issued + 1]]
        BY <2>4 DEF Commit, AtAwait, lettering
    <3>2. PICK r \in Requests : /\ Becomes(w, r) /\ r.at = "file" /\ r.issued = req[w].issued + 1
                                /\ r.list = [req[w].list EXCEPT ![req[w].item] = "none"]
        BY <3>1, CommitTyped
    <3>3. req'[w] = r
        BY <2>0, <3>2, BecomesTyped
    <3>4. PICK i \in Employees : i = req[w].item
        BY <2>0, <3>1 DEF Sense
    <3> QED
        BY <2>0, <3>1, <3>2, <3>3, <3>4, FilingKeepsLetters
  <2>5. CASE MarkFailed(w)
    <3>1. /\ req[w].at = "fail" /\ UNCHANGED <<run, letters, crossed>>
          /\ items' = [items EXCEPT ![req[w].item] = "Failed"]
        BY <2>5 DEF MarkFailed, AtAwait
    <3>2. PICK r \in Requests : /\ Becomes(w, r) /\ r.at = "file" /\ r.issued = req[w].issued
                                /\ r.list = [req[w].list EXCEPT ![req[w].item] = "none"]
        BY <2>5, MarkFailedTyped
    <3>3. req'[w] = r
        BY <2>0, <3>2, BecomesTyped
    <3>4. PICK i \in Employees : i = req[w].item
        BY <2>0, <3>1 DEF Sense
    <3> QED
        BY <2>0, <3>1, <3>2, <3>3, <3>4, FilingKeepsLetters
  <2>6. CASE Finish(w)
      BY <2>6, FinishKeepsLetters
  <2>7. CASE SetAgentRunStatus(w)
      BY <2>7, SettingKeepsLetters
  <2> QED
      BY <1>2, <2>1, <2>2, <2>3, <2>4, <2>5, <2>6, <2>7, Frames DEF LetterStep
<1> QED
    BY <1>1, <1>2 DEF Next
-------------------------------------------------------------------------------
LEMMA LettersStart == Init => LettersInv
<1> SUFFICES ASSUME Init PROVE LettersInv
    OBVIOUS
<1>1. \A w \in Workers : req[w].at = "idle"
    BY IdleTyped DEF Init
<1>2. run.status = "none" /\ items = Nobody /\ letters = [i \in Employees |-> 0]
    BY DEF Init
<1>3. \A i \in Employees : items[i] = "none" /\ letters[i] = 0
    BY <1>2 DEF Nobody
<1> QED
    BY <1>1, <1>2, <1>3 DEF LettersInv, NotYet, OneApproval, ClaimFresh, FilerFresh, VaultMatches, CountMatches,
         Approvers, Filers

(* "An item is issued" and "the letter is in the vault" are one fact, once *)
(* each, and a completed run counts them, whatever approvals overlap, fail *)
(* or die half-way, unless HR reopened the run under one that was at work. *)
THEOREM LettersAlwaysMatch == Spec => []LettersMatch
<1>1. LettersInv => LettersMatch
    BY DEF LettersInv, VaultMatches, CountMatches, LettersMatch
<1> QED
    BY <1>1, LettersStart, LettersHold, CoreStarts, CoreHolds, PTL DEF Spec

(* However the lanes interleave, the run has one letter, drafted or failed, *)
(* for every employee of the cohort: the lanes are all done only when every *)
(* employee has been taken, and whoever was taken has a draft.              *)
THEOREM CohortAlwaysServed == Spec => []CohortServed
<1>1. Init => CohortServed
    BY DEF Init, CohortServed
<1>2. CoreInv /\ LettersInv /\ CohortServed /\ [Next]_vars => CohortServed'
  <2> SUFFICES ASSUME CoreInv, LettersInv, CohortServed, [Next]_vars PROVE CohortServed'
      OBVIOUS
  <2>1. CASE UNCHANGED lettering
      BY <2>1 DEF lettering, CohortServed, Having
  <2>2. ASSUME NEW w \in Workers, CreateRun(w)
        PROVE  CohortServed'
    <3>1. Drafted(req[w]) /\ req[w].cursor \in 1..(Cohort + 1)
        BY <2>2 DEF CreateRun, AtAwait, CoreInv, TypeOK, Requests, Sense
    <3>2. \A l \in 1..Lanes : req[w].lane[l] = 0
        BY <2>2 DEF CreateRun
    <3>3. 1 \in 1..Lanes /\ \A l \in 1..Lanes : l # 0
        BY WorkplaceAssumption
    <3>4. req[w].cursor = Cohort + 1
        BY <3>1, <3>2, <3>3 DEF Drafted
    <3>5. \A i \in Employees : i < req[w].cursor /\ i # 0
        BY <3>4, WorkplaceAssumption DEF Employees
    <3>6. \A i \in Employees : req[w].list[i] # "none"
        BY <3>1, <3>2, <3>5 DEF Drafted
    <3> QED
        BY <2>2, <3>6 DEF CreateRun, CohortServed, Having
  <2>3. ASSUME NEW w \in Workers, LetterStep(w), ~CreateRun(w), ~UNCHANGED lettering
        PROVE  CohortServed'
    <3>0. items \in Lists
        BY DEF CoreInv, TypeOK
    <3>1. run.status # "none"
      <4>1. CASE SetAgentRunStatus(w) \/ (Claim(w) /\ run.status = "AWAITING_APPROVAL")
          BY <4>1 DEF SetAgentRunStatus
      <4>2. CASE Commit(w) \/ MarkFailed(w) \/ Finish(w)
          BY <4>2 DEF Commit, MarkFailed, Finish, AtAwait, LettersInv, NotYet, Approvers, Filers
      <4> QED
          BY <2>3, <4>1, <4>2 DEF LetterStep, Claim, lettering
    <3>2. \A i \in Employees : items'[i] # "none"
      <4>1. \A i \in Employees : items[i] # "none"
          BY <3>1 DEF CohortServed, Having
      <4> QED
          BY <2>3, <3>0, <4>1 DEF LetterStep, Claim, Commit, MarkFailed, Finish, SetAgentRunStatus, Lists
    <3> QED
        BY <3>2 DEF CohortServed, Having
  <2> QED
      BY <2>1, <2>2, <2>3, Frames DEF Next, vars
<1> QED
    BY <1>1, <1>2, LettersStart, LettersHold, CoreStarts, CoreHolds, PTL DEF Spec
-------------------------------------------------------------------------------
(* A published course is the text HR published, and as long as HR has not  *)
(* rejected it since, that is the text of those it was assigned to, unless *)
(* HR's decision crossed an edit or a removal by the owner.                *)
THEOREM CoursesAreReviewed == Spec => []CourseReviewed
<1>1. Init => CourseInv
  <2> SUFFICES ASSUME Init PROVE CourseInv
      OBVIOUS
  <2>1. \A w \in Workers : req[w].at = "idle"
      BY IdleTyped DEF Init
  <2> QED
      BY <2>1 DEF Init, CourseInv
<1>2. CoreInv /\ CourseInv /\ [Next]_vars => CourseInv'
  <2> SUFFICES ASSUME CoreInv, CourseInv, [Next]_vars PROVE CourseInv'
      OBVIOUS
  <2>1. CASE UNCHANGED vars
      BY <2>1 DEF vars, learning, CourseInv
  <2>2. ASSUME NEW w \in Workers, Arrive(w) \/ Handle(w) \/ Die(w)
        PROVE  CourseInv'
    <3>0. /\ req \in [Workers -> Requests] /\ Sense(req[w]) /\ req[w] \in Requests
          /\ \A v \in Workers \ {w} : req'[v] = req[v]
          /\ course \in [status : CourseStatus \union {"none"}, text : 0..MaxEdits]
          /\ approved \in 0..MaxEdits /\ assigned \in [Staff -> TrainingStatus \union {"none"}]
        BY <2>2, RequestMoves DEF CoreInv, TypeOK
    <3>1. "course" \in crossed => "course" \in crossed'
        BY <2>2, Frames DEF SetAgentRunStatus, UpdateCourse, Die, Cross
    <3>2. ASSUME NEW r \in Requests, Becomes(w, r)
          PROVE  req'[w] = r
        BY <3>0, <3>2, BecomesTyped
    <3>3. Answered(w) \/ Answer(w) => req'[w].at = "idle"
        BY <3>2, AnsweredTyped, IdleTyped
    <3>4. /\ req'[w].at = "edit" => req[w].at = "edit" \/ UpdatePeerCourse(w)
          /\ req'[w].at = "assign" => req[w].at = "assign" \/ AssignTraining(w)
      <4>1. CASE Answered(w) \/ Answer(w)
          BY <3>3, <4>1
      <4>2. CASE UNCHANGED req
          BY <4>2
      <4>3. CASE MassIssue(w) \/ Draft(w) \/ TryApprove(w) \/ FileRead(w) \/ MarkFailed(w)
          BY <3>2, <4>3, MassIssueTyped, DraftTyped, TryApproveTyped, FileReadTyped, MarkFailedTyped
      <4>4. CASE Claim(w)
          BY <3>2, <4>1, <4>4, ClaimTyped DEF Claim
      <4>5. CASE Commit(w)
          BY <3>2, <4>5, CommitTyped, FailTyped DEF Commit, AtAwait
      <4>6. CASE UpdatePeerCourse(w) \/ DeletePeerCourse(w) \/ AssignTraining(w) \/ UpdateAssignment(w)
          BY <3>2, <4>6, LearnerTyped
      <4>7. CASE Upsert(w)
          BY <3>2, <4>7, UpsertTyped DEF Upsert, AtAwait
      <4> QED
          BY <2>2, <4>1, <4>2, <4>3, <4>4, <4>5, <4>6, <4>7 DEF Arrive, Handle, Answered, SetAgentRunStatus,
               CreatePeerCourse, DeleteCourse, UpdateCourse
    <3>5. CASE UNCHANGED learning
      <4>1. UpdatePeerCourse(w) => course.status # "PUBLISHED"
          BY DEF UpdatePeerCourse, OpenToOwner
      <4>2. AssignTraining(w) => course.status = "PUBLISHED"
          BY DEF AssignTraining
      <4>3. \A v \in Workers : /\ req'[v].at = "edit" => req[v].at = "edit" \/ course.status # "PUBLISHED"
                               /\ req'[v].at = "assign" => req[v].at = "assign" \/ course.status = "PUBLISHED"
          BY <3>0, <3>4, <4>1, <4>2
      <4> QED
          BY <3>1, <3>5, <4>3 DEF CourseInv, learning
    <3>6. ASSUME CourseStep(w), ~UpdateCourse(w)
          PROVE  \A v \in Workers : /\ req'[v].at = "edit" => req[v].at = "edit"
                                    /\ req'[v].at = "assign" => req[v].at = "assign"
      <4>1. CASE Answered(w) \/ UNCHANGED req
          BY <3>0, <3>3, <4>1, IdleTyped
      <4>2. CASE Upsert(w)
          BY <3>0, <3>2, <4>2, UpsertTyped DEF Upsert, AtAwait
      <4> QED
          BY <3>6, <4>1, <4>2 DEF CourseStep, Answered, CreatePeerCourse, DeleteCourse
    <3>7. CASE CreatePeerCourse(w)
      <4>1. course'.status = "DRAFT" /\ course'.text = 1 /\ UNCHANGED <<approved, withdrawn, assigned>>
          BY <3>7 DEF CreatePeerCourse
      <4>2. approved = 0 /\ \A e \in Staff : assigned[e] = "none"
          BY <3>7 DEF CreatePeerCourse, CourseInv
      <4> QED
          BY <3>1, <3>6, <3>7, <4>1, <4>2 DEF CourseInv, CourseStep, UpdateCourse, CreatePeerCourse
    <3>8. CASE EditWrite(w)
      <4>1. req[w].at = "edit" /\ UNCHANGED <<approved, withdrawn, assigned>>
          BY <3>8 DEF EditWrite, AtAwait
      <4>2. UNCHANGED course \/ /\ course'.text = course.text + 1 /\ course.status # "none"
                                /\ course'.status \in {course.status, "PENDING_APPROVAL"}
          BY <3>8 DEF EditWrite
      <4>3. course.text + 1 # 0
          BY <3>0, WorkplaceAssumption
      <4>4. course'.status # "none" => course'.text # 0
          BY <4>2, <4>3 DEF CourseInv
      <4>5. "course" \notin crossed => course'.status # "PUBLISHED"
          BY <4>1, <4>2 DEF CourseInv
      <4> QED
          BY <3>1, <3>6, <3>8, <4>1, <4>4, <4>5 DEF CourseInv, CourseStep, UpdateCourse, EditWrite
    <3>9. CASE DeleteCourse(w) \/ RemoveWrite(w)
      <4>1. /\ course'.status = "none" /\ course'.text = course.text /\ UNCHANGED <<approved, withdrawn>>
            /\ \A e \in Staff : assigned'[e] = "none"
          BY <3>0, <3>9 DEF DeleteCourse, RemoveWrite, Removal
      <4> QED
          BY <3>1, <3>6, <3>9, <4>1 DEF CourseInv, CourseStep, UpdateCourse, DeleteCourse, RemoveWrite
    <3>10. CASE UpdateCourse(w)
      <4>1. PICK newStatus \in {"PUBLISHED", "REJECTED"} :
                /\ course' = [course EXCEPT !.status = newStatus]
                /\ approved' = IF newStatus = "PUBLISHED" THEN course.text ELSE approved
                /\ withdrawn' = (newStatus = "REJECTED")
          BY <3>10 DEF UpdateCourse
      <4>2. /\ course'.status = newStatus /\ course'.text = course.text
            /\ course.status # "none" /\ course.text # 0 /\ UNCHANGED <<assigned, req>>
            /\ approved # 0 => approved' # 0
            /\ req[w].at = "idle"
          BY <3>0, <3>10, <4>1 DEF UpdateCourse, CourseInv, AtAwait
      <4>3. "course" \notin crossed' => "course" \notin crossed /\ \A v \in Workers : req[v].at # "edit"
          BY <3>10, <4>2 DEF UpdateCourse, Cross, Others
      <4> QED
          BY <4>1, <4>2, <4>3 DEF CourseInv
    <3>11. CASE Upsert(w)
      <4>1. req[w].at = "assign" /\ UNCHANGED <<course, approved, withdrawn>>
          BY <3>11 DEF Upsert, AtAwait
      <4> QED
          BY <3>1, <3>6, <3>11, <4>1 DEF CourseInv, CourseStep, UpdateCourse, Upsert
    <3>12. CASE ProgressWrite(w)
      <4>1. /\ UNCHANGED <<course, approved, withdrawn>>
            /\ \A e \in Staff : assigned'[e] # "none" => assigned[e] # "none"
          BY <3>0, <3>12 DEF ProgressWrite
      <4> QED
          BY <3>1, <3>6, <3>12, <4>1 DEF CourseInv, CourseStep, UpdateCourse, ProgressWrite
    <3> QED
        BY <2>2, <3>5, <3>7, <3>8, <3>9, <3>10, <3>11, <3>12, Frames DEF CourseStep
  <2> QED
      BY <2>1, <2>2 DEF Next
<1>3. CourseInv => CourseReviewed
    BY DEF CourseInv, CourseReviewed
<1> QED
    BY <1>1, <1>2, <1>3, CoreStarts, CoreHolds, PTL DEF Spec
-------------------------------------------------------------------------------
(* The handbook: a company's policy documents and the jobs that ingest them *)
(* (PolicyIngestion), beside the rest of the workplace.                     *)
(* The ordinals of a document's chunks when its whole text is there. *)
Whole(d) == 1 .. uploads[d].drafts

(* The job of an upload itself, until its chunks are there; and one that    *)
(* has the chunks there are embedded.                                       *)
Starting(w) == job[w].at \in {"create", "extract", "clear", "chunk"}
Vectoring(w) == job[w].at \in {"process", "list", "embed", "store", "ready"}

VectorsSoFar(w) ==
    LET d == Doc(w)
    IN  /\ uploads[d].drafts > 0 /\ chunks[d] = Whole(d)
        /\ job[w].at = "embed" => Whole(d) \ job[w].todo \subseteq embedded[d]
        /\ job[w].at = "store" =>
             Whole(d) \ (job[w].todo \union job[w].batch) \subseteq embedded[d]
        /\ job[w].at = "ready" => Whole(d) \subseteq embedded[d]

JobOk(w) == job[w].at # "idle" =>
    /\ Doc(w) \in DocumentIds /\ Doc(w) < nextId
    /\ Starting(w) => status[Doc(w)] \in {"absent", "Processing"}
    /\ job[w].at = "create" => ~Stored(Doc(w))
    /\ job[w].at \in {"clear", "chunk"} =>
         job[w].todo = Whole(Doc(w)) /\ uploads[Doc(w)].drafts > 0
    /\ job[w].at = "chunk" => chunks[Doc(w)] = {}
    /\ Vectoring(w) /\ Stored(Doc(w)) => VectorsSoFar(w)

DocumentOk(d) ==
    /\ d >= nextId => ~Stored(d)
    /\ embedded[d] \subseteq chunks[d] /\ chunks[d] \in {{}, Whole(d)}
    /\ ~Stored(d) => chunks[d] = {}
    /\ status[d] = "Ready" => uploads[d].drafts > 0 /\ embedded[d] = Whole(d)

(* An upload's own job shares its document with deletions only. *)
Apart(v, w) ==
    Starting(w) /\ job[v].at # "idle" /\ Doc(v) = Doc(w) => job[v].at = "remove"

IngestInv ==
    /\ IngestionTypeOK
    /\ \A w \in Slots : JobOk(w)
    /\ \A d \in DocumentIds : DocumentOk(d)
    /\ \A v, w \in Slots : v # w => Apart(v, w)

OpenInv == solo =>
    /\ \A v, w \in Slots : job[v].at \in Handling /\ job[w].at \in Handling => v = w
    /\ \A w \in Slots : At(w, "create") => \A d \in DocumentIds : ~Stored(d)
-------------------------------------------------------------------------------
(* What a call moves in the job it belongs to. *)
LEMMA GotoAt ==
    ASSUME IngestionTypeOK, NEW w \in Slots,
           NEW label \in {"idle"} \union Handling \union Ingesting, Goto(w, label)
    PROVE  /\ job' \in [Slots -> Jobs]
           /\ job'[w].at = label /\ job'[w].doc = job[w].doc
           /\ job'[w].todo = job[w].todo /\ job'[w].batch = job[w].batch
           /\ \A v \in Slots \ {w} : job'[v] = job[v]
BY DEF IngestionTypeOK, Goto, Jobs

(* A request that arrives begins in a fresh slot. *)
LEMMA BeginAt ==
    ASSUME IngestionTypeOK, NEW w \in Slots,
           NEW label \in {"idle"} \union Handling \union Ingesting, NEW d \in Nat,
             Begin(w, label, d)
    PROVE  /\ job' \in [Slots -> Jobs]
           /\ job'[w].at = label /\ job'[w].doc = d
           /\ \A v \in Slots \ {w} : job'[v] = job[v]
BY DEF IngestionTypeOK, Begin, Jobs, NoJob

(* What ends leaves its slot idle. *)
LEMMA EndAt ==
    ASSUME IngestionTypeOK, NEW w \in Slots, End(w)
    PROVE  /\ job' \in [Slots -> Jobs]
           /\ job'[w].at = "idle"
           /\ \A v \in Slots \ {w} : job'[v] = job[v]
BY DEF IngestionTypeOK, End, Jobs, NoJob

(* What becomes of a document's rows: nothing; they are deleted; the job    *)
(* of its chunks writes its outcome or a vector.                            *)
RowKept(e) == status'[e] = status[e] /\ chunks'[e] = chunks[e] /\ embedded'[e] = embedded[e]
RowGone(e) == status'[e] = "absent" /\ chunks'[e] = {} /\ embedded'[e] = {}
RowOn(e) == /\ (status'[e] # "absent") = (status[e] # "absent")
            /\ chunks'[e] = chunks[e] /\ embedded[e] \subseteq embedded'[e]

(* A call of a job, seen from the other jobs and documents. *)
Beside(w) ==
    /\ UNCHANGED <<uploads, nextId>>
    /\ \A v \in Slots \ {w} : job'[v] = job[v]
    /\ job'[w].at # "idle" =>
         /\ job'[w].doc = Doc(w) /\ job[w].at \notin {"idle", "remove"}
         /\ Starting(w)' => Starting(w)
    /\ \A e \in DocumentIds \ {Doc(w)} : RowKept(e)
    /\ \/ RowKept(Doc(w)) \/ RowGone(Doc(w)) \/ Starting(w)
       \/ RowOn(Doc(w)) /\ job[w].at # "remove"

(* A job is as good as it was beside one that leaves its rows alone, takes  *)
(* them away, or brings them on.                                            *)
LEMMA JobKept ==
    ASSUME IngestionTypeOK, NEW v \in Slots, JobOk(v), job'[v] = job[v], uploads' = uploads,
           nextId' \in Nat, nextId <= nextId',
           \/ job[v].at \in {"idle", "remove"}
           \/ RowKept(Doc(v)) \/ RowGone(Doc(v))
           \/ RowOn(Doc(v)) /\ ~Starting(v)
    PROVE  JobOk(v)'
<1> SUFFICES ASSUME job[v].at # "idle" PROVE JobOk(v)'
  BY DEF JobOk
<1>1. Doc(v)' = Doc(v) /\ Doc(v) \in DocumentIds /\ Doc(v) < nextId'
  <2>1. Doc(v) \in Nat /\ nextId \in Nat
    BY DEF IngestionTypeOK, Jobs, Doc
  <2> QED
    BY <2>1 DEF JobOk, Doc
<1>2. CASE job[v].at = "remove"
  BY <1>1, <1>2 DEF JobOk, Starting, Vectoring
<1>3. CASE RowKept(Doc(v))
  BY <1>1, <1>3 DEF JobOk, Starting, Vectoring, VectorsSoFar, RowKept, Stored, Whole
<1>4. CASE RowGone(Doc(v))
  BY <1>1, <1>4 DEF JobOk, Starting, Vectoring, RowGone, Stored, Whole
<1>5. CASE RowOn(Doc(v)) /\ ~Starting(v)
  BY <1>1, <1>5 DEF JobOk, Starting, Vectoring, VectorsSoFar, RowOn, Stored, Whole
<1> QED
  BY <1>2, <1>3, <1>4, <1>5

LEMMA DocumentKept ==
    ASSUME IngestionTypeOK, NEW d \in DocumentIds, DocumentOk(d), uploads' = uploads,
           nextId' \in Nat,
           nextId <= nextId', MaxDocuments \in Nat, RowKept(d) \/ RowGone(d)
    PROVE  DocumentOk(d)'
<1>1. nextId \in Nat /\ d \in Nat
  BY DEF IngestionTypeOK, DocumentIds
<1>2. d >= nextId' => d >= nextId
  BY <1>1
<1> QED
  BY <1>2 DEF DocumentOk, RowKept, RowGone, Stored, Whole

(* So a call keeps what it does not touch itself. *)
LEMMA BesideKeeps ==
    ASSUME IngestInv, MaxDocuments \in Nat, NEW w \in Slots, Beside(w), IngestionTypeOK', JobOk(w)',
           job[w].at # "idle", NEW mine \in DocumentIds, mine = Doc(w),
           DocumentOk(mine)'
    PROVE  IngestInv'
<1>1. IngestionTypeOK /\ nextId' \in Nat /\ nextId <= nextId' /\ uploads' = uploads
  BY DEF IngestInv, IngestionTypeOK, Beside
<1>2. ASSUME NEW v \in Slots, v # w PROVE JobOk(v)'
  <2>1. job'[v] = job[v] /\ JobOk(v) /\ Apart(v, w) /\ Apart(w, v)
    BY <1>2 DEF Beside, IngestInv
  <2>2. CASE job[v].at \in {"idle", "remove"}
    BY <1>1, <2>1, <2>2, JobKept
  <2>3. CASE job[v].at \notin {"idle", "remove"}
    <3>1. Doc(v) \in DocumentIds
      BY <2>1, <2>3 DEF JobOk
    <3>2. CASE Doc(v) # Doc(w)
      <4>1. RowKept(Doc(v))
        BY <3>1, <3>2 DEF Beside
      <4> QED
        BY <1>1, <2>1, <4>1, JobKept
    <3>3. CASE Doc(v) = Doc(w)
      <4>1. ~Starting(w)
        BY <2>1, <2>3, <3>3 DEF Apart
      <4>2. Starting(v) => job[w].at = "remove"
        BY <2>1, <3>3 DEF Apart
      <4>3. RowKept(Doc(v)) \/ RowGone(Doc(v)) \/ (RowOn(Doc(v)) /\ ~Starting(v))
        BY <3>3, <4>1, <4>2 DEF Beside
      <4> QED
        BY <1>1, <2>1, <4>3, JobKept
    <3> QED
      BY <3>2, <3>3
  <2> QED
    BY <2>2, <2>3
<1>3. ASSUME NEW d \in DocumentIds PROVE DocumentOk(d)'
  <2>1. CASE d = mine
    BY <2>1
  <2>2. CASE d # mine
    <3>1. RowKept(d) /\ DocumentOk(d)
      BY <2>2 DEF Beside, IngestInv
    <3> QED
      BY <1>1, <3>1, DocumentKept
  <2> QED
    BY <2>1, <2>2
<1>4. ASSUME NEW v \in Slots, NEW u \in Slots, v # u PROVE Apart(v, u)'
  <2>1. Apart(v, u)
    BY <1>4 DEF IngestInv
  <2>2. CASE v # w /\ u # w
    BY <2>1, <2>2 DEF Beside, Apart, Starting, Doc
  <2>3. CASE u = w
    BY <1>4, <2>1, <2>3 DEF Beside, Apart, Starting, Doc
  <2>4. CASE v = w
    BY <1>4, <2>1, <2>4 DEF Beside, Apart, Starting, Doc
  <2> QED
    BY <2>2, <2>3, <2>4
<1> QED
  BY <1>2, <1>3, <1>4 DEF IngestInv
-------------------------------------------------------------------------------
(* What is known of a call before it is made. *)
LEMMA InHand ==
    ASSUME IngestInv, NEW w \in Slots, job[w].at # "idle"
    PROVE  /\ IngestionTypeOK /\ JobOk(w)
           /\ Doc(w) \in DocumentIds /\ DocumentOk(Doc(w))
           /\ uploads[Doc(w)].drafts \in Nat
<1>1. IngestionTypeOK /\ JobOk(w) /\ Doc(w) \in DocumentIds
  BY DEF IngestInv, JobOk
<1> QED
  BY <1>1 DEF IngestInv, IngestionTypeOK, Texts

(* Calls that write no row. *)
LEMMA RowlessStep ==
    ASSUME IngestInv, MaxDocuments \in Nat, NEW w \in Slots, job[w].at # "idle",
           UNCHANGED <<uploads, rows, nextId>>, solo' \in BOOLEAN, lost' \in BOOLEAN,
           job' \in [Slots -> Jobs], \A v \in Slots \ {w} : job'[v] = job[v],
           job'[w].at # "idle" =>
             /\ job'[w].doc = Doc(w) /\ job[w].at # "remove"
             /\ (Starting(w)' => Starting(w)),
           JobOk(w)'
    PROVE  IngestInv'
<1>1. PICK mine \in DocumentIds : mine = Doc(w)
  BY InHand
<1>2. IngestionTypeOK'
  BY DEF IngestInv, IngestionTypeOK, rows
<1>3. \A e \in DocumentIds : RowKept(e)
  BY DEF RowKept, rows
<1>4. Beside(w)
  BY <1>1, <1>3 DEF Beside
<1>5. DocumentOk(mine)'
  <2>1. nextId' \in Nat /\ nextId <= nextId'
    BY DEF IngestInv, IngestionTypeOK
  <2> QED
    BY <1>3, <2>1, DocumentKept DEF IngestInv
<1> QED
  BY <1>1, <1>2, <1>4, <1>5, BesideKeeps

(* A retry without chunks is refused; one with chunks has the whole text. *)
LEMMA RetryCountOk ==
    ASSUME IngestInv, MaxDocuments \in Nat, NEW w \in Slots, RetryCount(w),
           UNCHANGED uploads,
           solo' \in BOOLEAN, lost' \in BOOLEAN
    PROVE  IngestInv'
<1>0. job[w].at = "count" /\ IngestionTypeOK /\ JobOk(w) /\ DocumentOk(Doc(w))
  /\ UNCHANGED <<rows, nextId>>
      /\ uploads[Doc(w)].drafts \in Nat
  BY InHand DEF RetryCount, At
<1>1. CASE chunks[Doc(w)] = {}
  <2>1. End(w)
    BY <1>1 DEF RetryCount
  <2>2. JobOk(w)'
    BY <1>0, <2>1, EndAt DEF JobOk
  <2> QED
    BY <1>0, <2>1, <2>2, EndAt, RowlessStep
<1>2. CASE chunks[Doc(w)] # {}
  <2>1. Goto(w, "process")
    BY <1>2 DEF RetryCount
  <2>2. job'[w].at = "process" /\ job'[w].doc = Doc(w)
    BY <1>0, <2>1, GotoAt DEF Handling, Doc
  <2>3. chunks[Doc(w)] = Whole(Doc(w)) /\ uploads[Doc(w)].drafts > 0
    BY <1>0, <1>2 DEF DocumentOk, Whole
  <2>4. JobOk(w)'
    BY <1>0, <2>2, <2>3 DEF JobOk, Starting, Vectoring, VectorsSoFar, Stored, Doc,
      Whole, rows
  <2>5. ~Starting(w)'
    BY <2>2 DEF Starting
  <2> QED
    BY <1>0, <2>1, <2>2, <2>4, <2>5, GotoAt, RowlessStep DEF Handling
<1> QED
  BY <1>1, <1>2

(* The chunker gives the whole text, or the catch comes next. *)
LEMMA ExtractOk ==
    ASSUME IngestInv, MaxDocuments \in Nat, NEW w \in Slots, Extract(w), UNCHANGED uploads,
           solo' \in BOOLEAN, lost' \in BOOLEAN
    PROVE  IngestInv'
<1>0. job[w].at = "extract" /\ IngestionTypeOK /\ JobOk(w) /\ UNCHANGED <<rows, nextId>>
      /\ uploads[Doc(w)].drafts \in Nat
  BY InHand DEF Extract, At
<1>1. CASE uploads[Doc(w)].drafts = 0
  <2>1. Goto(w, "failed")
    BY <1>1 DEF Extract
  <2>2. job'[w].at = "failed" /\ job'[w].doc = Doc(w)
    BY <1>0, <2>1, GotoAt DEF Ingesting, Doc
  <2>3. JobOk(w)' /\ ~Starting(w)'
    BY <1>0, <2>2 DEF JobOk, Starting, Vectoring, Doc, rows
  <2> QED
    BY <1>0, <2>1, <2>2, <2>3, GotoAt, RowlessStep DEF Ingesting
<1>2. CASE uploads[Doc(w)].drafts # 0
  <2>1. job' = [job EXCEPT ![w].at = "clear", ![w].todo = Whole(Doc(w))]
    BY <1>2 DEF Extract, Whole
  <2>2. Whole(Doc(w)) \subseteq Nat
    BY DEF Whole
  <2>3. /\ job' \in [Slots -> Jobs]
        /\ job'[w].at = "clear" /\ job'[w].doc = Doc(w) /\ job'[w].todo = Whole(Doc(w))
        /\ \A v \in Slots \ {w} : job'[v] = job[v]
    BY <1>0, <2>1, <2>2 DEF IngestionTypeOK, Jobs, Ingesting, Doc
  <2>4. Starting(w)
    BY <1>0 DEF Starting
  <2>5. JobOk(w)'
    BY <1>0, <1>2, <2>3, <2>4 DEF JobOk, Starting, Vectoring, Doc, Whole, rows
  <2> QED
    BY <1>0, <2>3, <2>4, <2>5, RowlessStep
<1> QED
  BY <1>1, <1>2

(* What is to be embedded is the whole text. *)
LEMMA ListChunksOk ==
    ASSUME IngestInv, MaxDocuments \in Nat, NEW w \in Slots, ListChunks(w),
           UNCHANGED uploads,
           solo' \in BOOLEAN, lost' \in BOOLEAN
    PROVE  IngestInv'
<1>0. job[w].at = "list" /\ IngestionTypeOK /\ JobOk(w) /\ DocumentOk(Doc(w))
  /\ UNCHANGED <<rows, nextId>>
      /\ Doc(w) \in DocumentIds /\ uploads[Doc(w)].drafts \in Nat
  BY InHand DEF ListChunks, At
<1> DEFINE label == IF chunks[Doc(w)] = {} THEN "ready" ELSE "embed"
<1>1. job' = [job EXCEPT ![w].todo = chunks[Doc(w)], ![w].at = label]
  BY DEF ListChunks
<1>2. /\ job' \in [Slots -> Jobs]
      /\ job'[w].at = label /\ job'[w].doc = Doc(w) /\ job'[w].todo = chunks[Doc(w)]
      /\ \A v \in Slots \ {w} : job'[v] = job[v]
  BY <1>0, <1>1 DEF IngestionTypeOK, Jobs, Ingesting, Doc
<1>3. Stored(Doc(w)) =>
        /\ uploads[Doc(w)].drafts > 0 /\ chunks[Doc(w)] = Whole(Doc(w))
        /\ label = "embed"
  <2>1. Stored(Doc(w)) => VectorsSoFar(w)
    BY <1>0 DEF JobOk, Vectoring
  <2>2. uploads[Doc(w)].drafts > 0 => Whole(Doc(w)) # {}
    BY <1>0 DEF Whole
  <2> QED
    BY <2>1, <2>2 DEF VectorsSoFar
<1>4. JobOk(w)' /\ ~Starting(w)'
  BY <1>0, <1>2, <1>3 DEF JobOk, Starting, Vectoring, VectorsSoFar, Stored, Doc,
    Whole, rows
<1> QED
  BY <1>0, <1>2, <1>4, RowlessStep

(* What is in neither the rest nor the batch has its vector already. *)
LEMMA EmbedOk ==
    ASSUME IngestInv, MaxDocuments \in Nat, NEW w \in Slots, Embed(w), UNCHANGED uploads,
           solo' \in BOOLEAN, lost' \in BOOLEAN
    PROVE  IngestInv'
<1>0. job[w].at = "embed" /\ IngestionTypeOK /\ JobOk(w) /\ UNCHANGED <<rows, nextId>>
      /\ job[w].todo \subseteq Nat
  <2>1. job[w].at = "embed" /\ UNCHANGED <<rows, nextId>>
    BY DEF Embed, At
  <2> QED
    BY <2>1, InHand DEF IngestionTypeOK, Jobs
<1> DEFINE asked == FirstOf(job[w].todo, EmbedBatchSize)
<1>1. asked \subseteq job[w].todo
  BY DEF FirstOf
<1>2. CASE Goto(w, "failed")
  <2>1. job'[w].at = "failed" /\ job'[w].doc = Doc(w)
    BY <1>0, <1>2, GotoAt DEF Ingesting, Doc
  <2>2. JobOk(w)' /\ ~Starting(w)'
    BY <1>0, <2>1 DEF JobOk, Starting, Vectoring, Doc, rows
  <2> QED
    BY <1>0, <1>2, <2>1, <2>2, GotoAt, RowlessStep DEF Ingesting
<1>3. CASE job' = [job EXCEPT ![w].at = "store", ![w].batch = asked,
  ![w].todo = job[w].todo \ asked]
  <2> HIDE DEF asked
  <2>1. /\ job' \in [Slots -> Jobs]
        /\ job'[w].at = "store" /\ job'[w].doc = Doc(w)
        /\ job'[w].todo = job[w].todo \ asked /\ job'[w].batch = asked
        /\ \A v \in Slots \ {w} : job'[v] = job[v]
    BY <1>0, <1>1, <1>3 DEF IngestionTypeOK, Jobs, Ingesting, Doc
  <2>2. Stored(Doc(w)) => VectorsSoFar(w)
    BY <1>0 DEF JobOk, Vectoring
  <2>3. (job[w].todo \ asked) \union asked = job[w].todo
    BY <1>1
  <2>4. JobOk(w)' /\ ~Starting(w)'
    BY <1>0, <2>1, <2>2, <2>3
    DEF JobOk, Starting, Vectoring, VectorsSoFar, Stored, Doc, Whole, rows
  <2> QED
    BY <1>0, <2>1, <2>4, RowlessStep
<1> QED
  BY <1>2, <1>3 DEF Embed

(* Calls that write the rows of their own document. *)
LEMMA OwnRowsStep ==
    ASSUME IngestInv, MaxDocuments \in Nat, NEW w \in Slots, job[w].at # "idle",
           UNCHANGED <<uploads, nextId>>, solo' \in BOOLEAN, lost' \in BOOLEAN,
           job' \in [Slots -> Jobs], \A v \in Slots \ {w} : job'[v] = job[v],
           job'[w].at # "idle" =>
             /\ job'[w].doc = Doc(w) /\ job[w].at # "remove"
             /\ (Starting(w)' => Starting(w)),
           NEW mine \in DocumentIds, mine = Doc(w),
           NEW newStatus \in PolicyDocumentStatus \union {"absent"},
           NEW newChunks \in SUBSET Nat, NEW newVectors \in SUBSET Nat,
           status' = [status EXCEPT ![mine] = newStatus],
           chunks' = [chunks EXCEPT ![mine] = newChunks],
           embedded' = [embedded EXCEPT ![mine] = newVectors],
           \/ newStatus = "absent" /\ newChunks = {} /\ newVectors = {}
           \/ Starting(w)
           \/ /\ (newStatus # "absent") = (status[mine] # "absent")
              /\ newChunks = chunks[mine] /\ embedded[mine] \subseteq newVectors
              /\ job[w].at # "remove",
           JobOk(w)', DocumentOk(mine)'
    PROVE  IngestInv'
<1>1. IngestionTypeOK
  BY DEF IngestInv
<1>2. IngestionTypeOK'
  <2>1. status' \in [DocumentIds -> PolicyDocumentStatus \union {"absent"}]
    BY <1>1 DEF IngestionTypeOK
  <2>2. chunks' \in [DocumentIds -> SUBSET Nat]
    /\ embedded' \in [DocumentIds -> SUBSET Nat]
    BY <1>1 DEF IngestionTypeOK
  <2> QED
    BY <1>1, <2>1, <2>2 DEF IngestionTypeOK
<1>3. /\ status'[mine] = newStatus /\ chunks'[mine] = newChunks /\ embedded'[mine] = newVectors
      /\ \A e \in DocumentIds \ {mine} : RowKept(e)
  BY <1>1 DEF IngestionTypeOK, RowKept
<1>4. Beside(w)
  <2>1. RowKept(mine) \/ RowGone(mine) \/ Starting(w) \/ (RowOn(mine) /\ job[w].at # "remove")
    BY <1>3 DEF RowGone, RowOn
  <2> QED
    BY <1>3, <2>1 DEF Beside
<1> QED
  BY <1>2, <1>4, BesideKeeps

(* The row of an upload begins in Processing, with no chunks. *)
LEMMA CreateDocumentOk ==
    ASSUME IngestInv, MaxDocuments \in Nat, NEW w \in Slots, CreateDocument(w),
           UNCHANGED uploads,
           solo' \in BOOLEAN, lost' \in BOOLEAN
    PROVE  IngestInv'
<1>0. job[w].at = "create" /\ UNCHANGED <<nextId, chunks, embedded>>
  BY DEF CreateDocument, At
<1>1. PICK d \in DocumentIds : d = Doc(w)
  BY <1>0, InHand
<1>2. IngestionTypeOK /\ JobOk(w) /\ DocumentOk(d) /\ ~Stored(d) /\ d < nextId
  BY <1>0, <1>1, InHand DEF JobOk
<1>3. /\ job' \in [Slots -> Jobs]
      /\ job'[w].at = "extract" /\ job'[w].doc = Doc(w)
      /\ \A v \in Slots \ {w} : job'[v] = job[v]
  BY <1>2, GotoAt DEF CreateDocument, Ingesting, Doc
<1>4. /\ status' = [status EXCEPT ![d] = "Processing"]
      /\ chunks' = [chunks EXCEPT ![d] = chunks[d]]
      /\ embedded' = [embedded EXCEPT ![d] = embedded[d]]
      /\ chunks[d] \in SUBSET Nat /\ embedded[d] \in SUBSET Nat
      /\ status'[d] = "Processing"
  BY <1>0, <1>1, <1>2 DEF CreateDocument, IngestionTypeOK
<1>5. DocumentOk(d)'
  <2>1. d \in Nat /\ nextId \in Nat
    BY <1>2 DEF IngestionTypeOK, DocumentIds
  <2>2. ~(d >= nextId')
    BY <1>0, <1>2, <2>1
  <2> QED
    BY <1>0, <1>2, <1>4, <2>2 DEF DocumentOk, Stored, Whole
<1>6. Starting(w)
  BY <1>0 DEF Starting
<1>7. JobOk(w)'
  BY <1>0, <1>1, <1>2, <1>3, <1>4 DEF JobOk, Starting, Vectoring, Doc
<1> QED
  BY <1>0, <1>1, <1>3, <1>4, <1>5, <1>6, <1>7, OwnRowsStep DEF PolicyDocumentStatus

(* The first half of replaceChunks leaves no chunk of its document. *)
LEMMA ReplaceDeleteOk ==
    ASSUME IngestInv, MaxDocuments \in Nat, NEW w \in Slots, ReplaceDelete(w),
           UNCHANGED uploads,
           solo' \in BOOLEAN, lost' \in BOOLEAN
    PROVE  IngestInv'
<1>0. job[w].at = "clear" /\ UNCHANGED <<nextId, status>>
  BY DEF ReplaceDelete, At
<1>1. PICK d \in DocumentIds : d = Doc(w)
  BY <1>0, InHand
<1>2. IngestionTypeOK /\ JobOk(w) /\ DocumentOk(d) /\ status[d] \in {"absent", "Processing"}
  BY <1>0, <1>1, InHand DEF JobOk, Starting
<1>3. /\ job' \in [Slots -> Jobs]
      /\ job'[w].at = "chunk" /\ job'[w].doc = Doc(w) /\ job'[w].todo = job[w].todo
      /\ \A v \in Slots \ {w} : job'[v] = job[v]
  BY <1>2, GotoAt DEF ReplaceDelete, Ingesting, Doc
<1>4. /\ status' = [status EXCEPT ![d] = status[d]]
      /\ chunks' = [chunks EXCEPT ![d] = {}]
      /\ embedded' = [embedded EXCEPT ![d] = {}]
      /\ status[d] \in PolicyDocumentStatus \union {"absent"}
      /\ chunks'[d] = {} /\ embedded'[d] = {}
  BY <1>0, <1>1, <1>2 DEF ReplaceDelete, IngestionTypeOK
<1>5. DocumentOk(d)'
  BY <1>0, <1>2, <1>4 DEF DocumentOk, Stored, Whole
<1>6. Starting(w)
  BY <1>0 DEF Starting
<1>7. JobOk(w)'
  BY <1>0, <1>1, <1>2, <1>3, <1>4 DEF JobOk, Starting, Vectoring, Doc, Whole
<1> QED
  BY <1>0, <1>1, <1>3, <1>4, <1>5, <1>6, <1>7, OwnRowsStep

(* The second half leaves the whole text, where there still is a row. *)
LEMMA ReplaceCreateOk ==
    ASSUME IngestInv, MaxDocuments \in Nat, NEW w \in Slots, ReplaceCreate(w),
           UNCHANGED uploads,
           solo' \in BOOLEAN, lost' \in BOOLEAN
    PROVE  IngestInv'
<1>0. job[w].at = "chunk" /\ UNCHANGED <<nextId, status, embedded>>
  BY DEF ReplaceCreate, At
<1>1. PICK d \in DocumentIds : d = Doc(w)
  BY <1>0, InHand
<1>2. /\ IngestionTypeOK /\ JobOk(w) /\ DocumentOk(d) /\ status[d] \in {"absent", "Processing"}
      /\ job[w].todo = Whole(d) /\ uploads[d].drafts > 0 /\ chunks[d] = {}
  BY <1>0, <1>1, InHand DEF JobOk, Starting
<1>3. CASE ~Stored(d)
  <2>1. Goto(w, "failed") /\ UNCHANGED chunks
    BY <1>1, <1>3 DEF ReplaceCreate
  <2>2. job'[w].at = "failed" /\ job'[w].doc = Doc(w)
    BY <1>2, <2>1, GotoAt DEF Ingesting, Doc
  <2>3. JobOk(w)' /\ ~Starting(w)'
    BY <1>0, <1>2, <2>2 DEF JobOk, Starting, Vectoring, Doc
  <2> QED
    BY <1>0, <1>2, <2>1, <2>2, <2>3, GotoAt, RowlessStep DEF Ingesting, rows
<1>4. CASE Stored(d)
  <2>1. chunks' = [chunks EXCEPT ![d] = Whole(d)] /\ Goto(w, "list")
    BY <1>1, <1>2, <1>4 DEF ReplaceCreate
  <2>2. /\ job' \in [Slots -> Jobs]
        /\ job'[w].at = "list" /\ job'[w].doc = Doc(w)
        /\ \A v \in Slots \ {w} : job'[v] = job[v]
    BY <1>2, <2>1, GotoAt DEF Ingesting, Doc
  <2>3. /\ status' = [status EXCEPT ![d] = status[d]]
        /\ embedded' = [embedded EXCEPT ![d] = embedded[d]]
        /\ status[d] \in PolicyDocumentStatus \union {"absent"} /\ embedded[d] \in SUBSET Nat
        /\ Whole(d) \in SUBSET Nat
        /\ chunks'[d] = Whole(d)
    BY <1>0, <1>2, <2>1 DEF IngestionTypeOK, Whole
  <2>4. DocumentOk(d)'
    BY <1>0, <1>2, <1>4, <2>3 DEF DocumentOk, Stored, Whole
  <2>5. Starting(w) /\ ~Starting(w)'
    BY <1>0, <2>2 DEF Starting
  <2>6. JobOk(w)'
    BY <1>0, <1>1, <1>2, <2>2, <2>3 DEF JobOk, Starting, Vectoring, VectorsSoFar, Doc, Whole
  <2> QED
    BY <1>0, <1>1, <2>1, <2>2, <2>3, <2>4, <2>5, <2>6, OwnRowsStep
<1> QED
  BY <1>3, <1>4

(* A vector more for a chunk that is there. *)
LEMMA SetChunkEmbeddingOk ==
    ASSUME IngestInv, MaxDocuments \in Nat, NEW w \in Slots, SetChunkEmbedding(w),
           UNCHANGED uploads, solo' \in BOOLEAN, lost' \in BOOLEAN
    PROVE  IngestInv'
<1>0. job[w].at = "store" /\ UNCHANGED <<nextId, status, chunks>>
  BY DEF SetChunkEmbedding, At
<1>1. PICK d \in DocumentIds : d = Doc(w)
  BY <1>0, InHand
<1>2. IngestionTypeOK /\ JobOk(w) /\ DocumentOk(d) /\ job[w].batch \subseteq Nat
  BY <1>0, <1>1, InHand DEF IngestionTypeOK, Jobs
<1> DEFINE now == FirstOf(job[w].batch, 1)
           left == job[w].batch \ now
           label == IF left # {} THEN "store" ELSE IF job[w].todo # {} THEN "embed" ELSE "ready"
<1>3. now \subseteq job[w].batch
  BY DEF FirstOf
<1>4. CASE now \subseteq chunks[d]
  <2>1. /\ embedded' = [embedded EXCEPT ![d] = embedded[d] \union now]
        /\ job' = [job EXCEPT ![w].batch = left, ![w].at = label]
    BY <1>1, <1>4 DEF SetChunkEmbedding
  <2> HIDE DEF now
  <2>2. left \subseteq Nat /\ label \in {"store", "embed", "ready"}
    BY <1>2
  <2>3. /\ job' \in [Slots -> Jobs]
        /\ job'[w].at = label /\ job'[w].doc = Doc(w)
        /\ job'[w].todo = job[w].todo /\ job'[w].batch = left
        /\ \A v \in Slots \ {w} : job'[v] = job[v]
    <3> HIDE DEF left, label
    <3> QED
      BY <1>2, <2>1, <2>2 DEF IngestionTypeOK, Jobs, Ingesting, Doc
  <2>4. /\ status' = [status EXCEPT ![d] = status[d]]
        /\ chunks' = [chunks EXCEPT ![d] = chunks[d]]
        /\ status[d] \in PolicyDocumentStatus \union {"absent"} /\ chunks[d] \in SUBSET Nat
        /\ (embedded[d] \union now) \in SUBSET Nat
        /\ embedded'[d] = embedded[d] \union now
    BY <1>0, <1>2, <1>3, <2>1 DEF IngestionTypeOK
  <2>5. DocumentOk(d)'
    <3>1. status[d] = "Ready" => now \subseteq embedded[d]
      BY <1>2, <1>4 DEF DocumentOk, Stored
    <3> QED
      BY <1>0, <1>2, <1>4, <2>4, <3>1 DEF DocumentOk, Stored, Whole
  <2>6. ~Starting(w)'
    BY <2>2, <2>3 DEF Starting
  <2>7. Stored(d) => /\ uploads[d].drafts > 0 /\ chunks[d] = Whole(d)
                     /\ Whole(d) \ (job[w].todo \union left) \subseteq embedded'[d]
    <3>1. Stored(d) => VectorsSoFar(w)
      BY <1>0, <1>1, <1>2 DEF JobOk, Vectoring
    <3>2. \A c : c \in job[w].batch => c \in left \/ c \in now
      OBVIOUS
    <3> QED
      BY <1>0, <1>1, <2>4, <3>1, <3>2 DEF VectorsSoFar
  <2>8. VectorsSoFar(w)' \/ ~Stored(d)
    BY <1>0, <1>1, <2>2, <2>3, <2>7 DEF VectorsSoFar, Doc, Whole
  <2>9. JobOk(w)'
    <3>1. Doc(w)' = d /\ d < nextId' /\ Stored(d)' = Stored(d)
      BY <1>0, <1>1, <1>2, <2>3 DEF JobOk, Doc, Stored
    <3>2. job'[w].at \in {"store", "embed", "ready"}
      BY <2>2, <2>3
    <3> HIDE DEF left, label
    <3> QED
      BY <1>1, <2>6, <2>8, <3>1, <3>2 DEF JobOk, Vectoring
  <2> HIDE DEF left, label
  <2> QED
    BY <1>0, <1>1, <2>1, <2>3, <2>4, <2>5, <2>6, <2>9, OwnRowsStep
<1>5. CASE ~(now \subseteq chunks[d])
  <2>1. Goto(w, "failed") /\ UNCHANGED embedded
    BY <1>1, <1>5 DEF SetChunkEmbedding
  <2>2. job'[w].at = "failed" /\ job'[w].doc = Doc(w)
    BY <1>2, <2>1, GotoAt DEF Ingesting, Doc
  <2>3. JobOk(w)' /\ ~Starting(w)'
    BY <1>0, <1>2, <2>2 DEF JobOk, Starting, Vectoring, Doc
  <2> QED
    BY <1>0, <1>2, <2>1, <2>2, <2>3, GotoAt, RowlessStep DEF Ingesting, rows
<1> QED
  BY <1>4, <1>5

(* The status writes of a job whose chunks are there, or of its catch. *)
LEMMA StatusWriteOk ==
    ASSUME IngestInv, MaxDocuments \in Nat, NEW w \in Slots,
           job[w].at \in {"process", "ready", "failed"},
           UNCHANGED <<uploads, nextId, chunks, embedded>>, solo' \in BOOLEAN, lost' \in BOOLEAN,
           job' \in [Slots -> Jobs], \A v \in Slots \ {w} : job'[v] = job[v],
           NEW d \in DocumentIds, d = Doc(w), Stored(d),
           NEW new \in PolicyDocumentStatus, status' = [status EXCEPT ![d] = new],
           new = "Ready" => job[w].at = "ready",
           \/ job'[w].at = "idle"
           \/ job[w].at = "process" /\ job'[w].at = "list" /\ job'[w].doc = Doc(w)
    PROVE  IngestInv'
<1>1. IngestionTypeOK /\ JobOk(w) /\ DocumentOk(d)
  BY InHand
<1>2. /\ chunks' = [chunks EXCEPT ![d] = chunks[d]]
      /\ embedded' = [embedded EXCEPT ![d] = embedded[d]]
      /\ chunks[d] \in SUBSET Nat /\ embedded[d] \in SUBSET Nat
      /\ status'[d] = new /\ new # "absent"
  BY <1>1 DEF IngestionTypeOK, PolicyDocumentStatus
<1>3. job[w].at \in {"process", "ready"} => VectorsSoFar(w)
  BY <1>1 DEF JobOk, Vectoring
<1>4. DocumentOk(d)'
  <2>1. ASSUME new = "Ready" PROVE uploads[d].drafts > 0 /\ embedded[d] = Whole(d)
    <3>1. job[w].at = "ready" /\ VectorsSoFar(w)
      BY <1>3, <2>1
    <3>2. uploads[d].drafts > 0 /\ chunks[d] = Whole(d) /\ Whole(d) \subseteq embedded[d]
      BY <3>1 DEF VectorsSoFar
    <3>3. embedded[d] \subseteq chunks[d]
      BY <1>1 DEF DocumentOk
    <3> QED
      BY <3>2, <3>3
  <2> QED
    BY <1>1, <1>2, <2>1 DEF DocumentOk, Stored, Whole
<1>5. JobOk(w)' /\ ~Starting(w)'
  BY <1>1, <1>2, <1>3 DEF JobOk, Starting, Vectoring, VectorsSoFar, Doc, Whole
<1>6. (new # "absent") = (status[d] # "absent")
  BY <1>2 DEF Stored
<1> QED
  BY <1>1, <1>2, <1>4, <1>5, <1>6, OwnRowsStep

(* A retry says Processing of a document whose text is whole. *)
LEMMA RetryProcessOk ==
    ASSUME IngestInv, MaxDocuments \in Nat, NEW w \in Slots, RetryProcess(w),
           UNCHANGED uploads,
           solo' \in BOOLEAN, lost' \in BOOLEAN
    PROVE  IngestInv'
<1>0. job[w].at = "process" /\ UNCHANGED <<nextId, chunks, embedded>>
  BY DEF RetryProcess, At
<1>1. PICK d \in DocumentIds : d = Doc(w)
  BY <1>0, InHand
<1>2. IngestionTypeOK /\ JobOk(w)
  BY <1>0, InHand
<1>3. CASE Stored(d)
  <2>1. status' = [status EXCEPT ![d] = "Processing"] /\ Goto(w, "list")
    BY <1>1, <1>3 DEF RetryProcess
  <2>2. /\ job' \in [Slots -> Jobs] /\ job'[w].at = "list" /\ job'[w].doc = Doc(w)
        /\ \A v \in Slots \ {w} : job'[v] = job[v]
    BY <1>2, <2>1, GotoAt DEF Ingesting, Doc
  <2>3. "Processing" \in PolicyDocumentStatus
    BY DEF PolicyDocumentStatus
  <2> QED
    BY <1>0, <1>1, <1>3, <2>1, <2>2, <2>3, StatusWriteOk
<1>4. CASE ~Stored(d)
  <2>1. End(w) /\ UNCHANGED status
    BY <1>1, <1>4 DEF RetryProcess
  <2>2. JobOk(w)'
    BY <1>2, <2>1, EndAt DEF JobOk
  <2> QED
    BY <1>0, <1>2, <2>1, <2>2, EndAt, RowlessStep DEF rows
<1> QED
  BY <1>3, <1>4

(* Ready is said of a document whose chunks all have their vectors. *)
LEMMA SetReadyOk ==
    ASSUME IngestInv, MaxDocuments \in Nat, NEW w \in Slots, SetReady(w),
           UNCHANGED uploads,
           solo' \in BOOLEAN, lost' \in BOOLEAN
    PROVE  IngestInv'
<1>0. job[w].at = "ready" /\ UNCHANGED <<nextId, chunks, embedded>>
  BY DEF SetReady, At
<1>1. PICK d \in DocumentIds : d = Doc(w)
  BY <1>0, InHand
<1>2. IngestionTypeOK /\ JobOk(w)
  BY <1>0, InHand
<1>3. CASE Stored(d)
  <2>1. status' = [status EXCEPT ![d] = "Ready"] /\ End(w)
    BY <1>1, <1>3 DEF SetReady
  <2>2. "Ready" \in PolicyDocumentStatus
    BY DEF PolicyDocumentStatus
  <2> QED
    BY <1>0, <1>1, <1>2, <1>3, <2>1, <2>2, EndAt, StatusWriteOk
<1>4. CASE ~Stored(d)
  <2>1. Goto(w, "failed") /\ UNCHANGED status
    BY <1>1, <1>4 DEF SetReady
  <2>2. job'[w].at = "failed" /\ job'[w].doc = Doc(w)
    BY <1>2, <2>1, GotoAt DEF Ingesting, Doc
  <2>3. JobOk(w)' /\ ~Starting(w)'
    BY <1>0, <1>2, <2>2 DEF JobOk, Starting, Vectoring, Doc
  <2> QED
    BY <1>0, <1>2, <2>1, <2>2, <2>3, GotoAt, RowlessStep DEF Ingesting, rows
<1> QED
  BY <1>3, <1>4

(* The catch says Failed, of a document that is there. *)
LEMMA SetFailedOk ==
    ASSUME IngestInv, MaxDocuments \in Nat, NEW w \in Slots, SetFailed(w),
           UNCHANGED uploads,
           solo' \in BOOLEAN, lost' \in BOOLEAN
    PROVE  IngestInv'
<1>0. job[w].at = "failed" /\ UNCHANGED <<nextId, chunks, embedded>> /\ End(w)
  BY DEF SetFailed, At
<1>1. PICK d \in DocumentIds : d = Doc(w)
  BY <1>0, InHand
<1>2. IngestionTypeOK /\ JobOk(w)
  BY <1>0, InHand
<1>3. CASE Stored(d)
  <2>1. status' = [status EXCEPT ![d] = "Failed"]
    BY <1>1, <1>3 DEF SetFailed
  <2>2. "Failed" \in PolicyDocumentStatus
    BY DEF PolicyDocumentStatus
  <2> QED
    BY <1>0, <1>1, <1>2, <1>3, <2>1, <2>2, EndAt, StatusWriteOk
<1>4. CASE ~Stored(d)
  <2>1. status' = [status EXCEPT ![d] = "absent"] /\ status[d] = "absent"
    BY <1>1, <1>4 DEF SetFailed, Stored
  <2>2. status' = status
    BY <1>2, <2>1 DEF IngestionTypeOK
  <2>3. JobOk(w)'
    BY <1>0, <1>2, EndAt DEF JobOk
  <2> QED
    BY <1>0, <1>2, <2>2, <2>3, EndAt, RowlessStep DEF rows
<1> QED
  BY <1>3, <1>4

(* A deletion takes the chunks along, under whatever jobs there are. *)
LEMMA DeleteDocumentOk ==
    ASSUME IngestInv, MaxDocuments \in Nat, NEW w \in Slots, DeleteDocument(w),
           UNCHANGED uploads,
           solo' \in BOOLEAN, lost' \in BOOLEAN
    PROVE  IngestInv'
<1>0. job[w].at = "remove" /\ UNCHANGED nextId /\ End(w) /\ DeleteRows({Doc(w)})
  BY DEF DeleteDocument, At
<1>1. PICK d \in DocumentIds : d = Doc(w)
  BY <1>0, InHand
<1>2. IngestionTypeOK /\ JobOk(w) /\ DocumentOk(d)
  BY <1>0, <1>1, InHand
<1>3. RowGone(d) /\ \A e \in DocumentIds \ {d} : RowKept(e)
  BY <1>0, <1>1 DEF DeleteRows, RowGone, RowKept
<1>4. IngestionTypeOK'
  <2>1. /\ status' \in [DocumentIds -> PolicyDocumentStatus \union {"absent"}]
        /\ chunks' \in [DocumentIds -> SUBSET Nat]
             /\ embedded' \in [DocumentIds -> SUBSET Nat]
    BY <1>0, <1>2 DEF DeleteRows, IngestionTypeOK
  <2> QED
    BY <1>0, <1>2, <2>1, EndAt DEF IngestionTypeOK
<1>5. JobOk(w)' /\ Beside(w)
  BY <1>0, <1>1, <1>2, <1>3, EndAt DEF JobOk, Beside
<1>6. DocumentOk(d)'
  <2>1. nextId' \in Nat /\ nextId <= nextId'
    BY <1>0, <1>2 DEF IngestionTypeOK
  <2> QED
    BY <1>2, <1>3, <2>1, DocumentKept
<1> QED
  BY <1>0, <1>1, <1>4, <1>5, <1>6, BesideKeeps

(* Requests that arrive. *)
LEMMA UploadOk ==
    ASSUME IngestInv, MaxDocuments \in Nat, NEW w \in Slots, Upload(w),
           UNCHANGED <<uploads, lost>>,
           solo' \in BOOLEAN
    PROVE  IngestInv'
<1>1. IngestionTypeOK /\ nextId \in DocumentIds /\ nextId \in Nat /\ nextId' = nextId + 1
  BY DEF Upload, IngestInv, IngestionTypeOK, DocumentIds
<1>2. \A e \in DocumentIds : RowGone(e)
  BY DEF Upload, DeleteRows, RowGone
<1>3. /\ job' \in [Slots -> Jobs]
      /\ job'[w].at = "create" /\ job'[w].doc = nextId
      /\ \A v \in Slots \ {w} : job'[v] = job[v]
  BY <1>1, BeginAt DEF Upload, Handling
<1>4. IngestionTypeOK'
  <2>1. /\ status' \in [DocumentIds -> PolicyDocumentStatus \union {"absent"}]
        /\ chunks' \in [DocumentIds -> SUBSET Nat]
             /\ embedded' \in [DocumentIds -> SUBSET Nat]
    BY <1>1 DEF Upload, DeleteRows, IngestionTypeOK
  <2>2. nextId' \in 1 .. MaxDocuments + 1
    BY <1>1 DEF Upload
  <2> QED
    BY <1>1, <1>3, <2>1, <2>2 DEF IngestionTypeOK
<1>5. JobOk(w)'
  <2>1. RowGone(nextId) /\ nextId < nextId'
    BY <1>1, <1>2
  <2> QED
    BY <1>1, <1>3, <2>1 DEF JobOk, Starting, Vectoring, Stored, Doc, RowGone
<1>6. ASSUME NEW v \in Slots, v # w
  PROVE JobOk(v)' /\ (job[v].at # "idle" => Doc(v) # nextId)
  <2>1. JobOk(v) /\ job'[v] = job[v]
    BY <1>3, <1>6 DEF IngestInv
  <2>2. job[v].at # "idle" => Doc(v) \in DocumentIds /\ Doc(v) # nextId
    BY <1>1, <2>1 DEF JobOk
  <2>3. job[v].at = "idle" \/ RowGone(Doc(v))
    BY <1>2, <2>2
  <2>4. nextId' \in Nat /\ nextId <= nextId'
    BY <1>1
  <2> QED
    BY <1>1, <2>1, <2>2, <2>3, <2>4, JobKept
<1>7. ASSUME NEW d \in DocumentIds PROVE DocumentOk(d)'
  <2>1. nextId' \in Nat /\ nextId <= nextId' /\ DocumentOk(d)
    BY <1>1 DEF IngestInv
  <2> QED
    BY <1>1, <1>2, <2>1, DocumentKept
<1>8. ASSUME NEW v \in Slots, NEW u \in Slots, v # u PROVE Apart(v, u)'
  <2>1. Apart(v, u)
    BY <1>8 DEF IngestInv
  <2>2. CASE v # w /\ u # w
    BY <1>3, <2>1, <2>2 DEF Apart, Starting, Doc
  <2>3. CASE u = w
    BY <1>3, <1>6, <1>8, <2>3 DEF Apart, Doc
  <2>4. CASE v = w
    BY <1>3, <1>6, <1>8, <2>4 DEF Apart, Starting, Doc
  <2> QED
    BY <2>2, <2>3, <2>4
<1> QED
  BY <1>4, <1>5, <1>6, <1>7, <1>8 DEF IngestInv

(* One that begins with a stored document, not one in an upload's hands     *)
(* unless to delete it.                                                     *)
LEMMA StoredArrivalOk ==
    ASSUME IngestInv, MaxDocuments \in Nat, NEW w \in Slots, NEW d \in DocumentIds,
           Stored(d),
           NEW label \in {"count", "remove"}, Begin(w, label, d),
           label = "count" => status[d] = "Failed",
           UNCHANGED <<uploads, rows, nextId, lost>>, solo' \in BOOLEAN
    PROVE  IngestInv'
<1>1. IngestionTypeOK /\ nextId \in Nat /\ d \in Nat
  BY DEF IngestInv, IngestionTypeOK, DocumentIds
<1>2. \A e \in DocumentIds : RowKept(e)
  BY DEF RowKept, rows
<1>3. /\ job' \in [Slots -> Jobs]
      /\ job'[w].at = label /\ job'[w].doc = d
      /\ \A v \in Slots \ {w} : job'[v] = job[v]
  BY <1>1, BeginAt DEF Handling
<1>4. IngestionTypeOK'
  BY <1>1, <1>3 DEF IngestionTypeOK, rows
<1>5. d < nextId
  <2>1. ~(d >= nextId)
    BY DEF IngestInv, DocumentOk
  <2> QED
    BY <1>1, <2>1
<1>6. JobOk(w)'
  BY <1>3, <1>5 DEF JobOk, Starting, Vectoring, Doc
<1>7. nextId' = nextId /\ nextId' \in Nat /\ nextId <= nextId' /\ uploads' = uploads
  BY <1>1
<1>8. ASSUME NEW v \in Slots, v # w PROVE JobOk(v)'
  <2>1. JobOk(v) /\ job'[v] = job[v]
    BY <1>3, <1>8 DEF IngestInv
  <2>2. job[v].at = "idle" \/ RowKept(Doc(v))
    BY <1>2, <2>1 DEF JobOk
  <2> QED
    BY <1>1, <1>7, <2>1, <2>2, JobKept
<1>9. ASSUME NEW e \in DocumentIds PROVE DocumentOk(e)'
  BY <1>1, <1>2, <1>7, DocumentKept DEF IngestInv
<1>10. ASSUME NEW v \in Slots, NEW u \in Slots, v # u PROVE Apart(v, u)'
  <2>1. Apart(v, u) /\ JobOk(u)
    BY <1>10 DEF IngestInv
  <2>2. CASE v # w /\ u # w
    BY <1>3, <2>1, <2>2 DEF Apart, Starting, Doc
  <2>3. CASE u = w
    BY <1>3, <2>3 DEF Apart, Starting
  <2>4. CASE v = w
    <3>1. Starting(u) /\ Doc(u) = d => label = "remove"
      BY <2>1 DEF JobOk, Starting
    <3> QED
      BY <1>3, <1>10, <2>4, <3>1 DEF Apart, Starting, Doc
  <2> QED
    BY <2>2, <2>3, <2>4
<1> QED
  BY <1>4, <1>6, <1>8, <1>9, <1>10 DEF IngestInv

(* Whatever arrives keeps the invariant. *)
LEMMA ArriveOk ==
    ASSUME IngestInv, MaxDocuments \in Nat, NEW w \in Slots, Request(w)
    PROVE  IngestInv'
<1>1. UNCHANGED <<uploads, lost>> /\ solo' \in BOOLEAN
  BY DEF Request
<1>2. CASE Upload(w)
  BY <1>1, <1>2, UploadOk
<1>3. CASE Retry(w)
  <2>1. PICK d \in DocumentIds : status[d] = "Failed" /\ Begin(w, "count", d)
    BY <1>3 DEF Retry
  <2>2. Stored(d) /\ UNCHANGED <<rows, nextId>>
    BY <1>3, <2>1 DEF Stored, Retry
  <2> QED
    BY <1>1, <2>1, <2>2, StoredArrivalOk
<1>4. CASE Delete(w)
  <2>1. PICK d \in DocumentIds : Stored(d) /\ Begin(w, "remove", d)
    BY <1>4 DEF Delete
  <2>2. UNCHANGED <<rows, nextId>>
    BY <1>4 DEF Delete
  <2> QED
    BY <1>1, <2>1, <2>2, StoredArrivalOk
<1> QED
  BY <1>2, <1>3, <1>4 DEF Request

(* So does every call of a request or a job. *)
LEMMA StepOk ==
    ASSUME IngestInv, MaxDocuments \in Nat, NEW w \in Slots, Step(w)
    PROVE  IngestInv'
<1>1. UNCHANGED uploads /\ solo' \in BOOLEAN /\ lost' \in BOOLEAN
  BY DEF Step, IngestInv, IngestionTypeOK
<1> QED
  BY <1>1, CreateDocumentOk, RetryCountOk, RetryProcessOk, DeleteDocumentOk, ExtractOk,
     ReplaceDeleteOk, ReplaceCreateOk, ListChunksOk, EmbedOk, SetChunkEmbeddingOk, SetReadyOk,
     SetFailedOk DEF Step

(* So does a call that rejects. *)
LEMMA RejectOk ==
    ASSUME IngestInv, MaxDocuments \in Nat, NEW w \in Slots, Reject(w)
    PROVE  IngestInv'
<1>1. job[w].at # "idle" /\ UNCHANGED <<uploads, rows, nextId, solo>>
  BY DEF Reject, At
<1>2. IngestionTypeOK /\ JobOk(w) /\ solo' \in BOOLEAN /\ lost' \in BOOLEAN
  <2>1. lost' \in BOOLEAN
    BY DEF Reject
  <2> QED
    BY <1>1, <2>1, InHand DEF IngestionTypeOK
<1>3. CASE job[w].at \in Ingesting \ {"failed"}
  <2>1. Goto(w, "failed")
    BY <1>3 DEF Reject
  <2>2. /\ job' \in [Slots -> Jobs] /\ job'[w].at = "failed" /\ job'[w].doc = Doc(w)
        /\ \A v \in Slots \ {w} : job'[v] = job[v]
    BY <1>2, <2>1, GotoAt DEF Ingesting, Doc
  <2>3. JobOk(w)' /\ ~Starting(w)' /\ job[w].at # "remove"
    BY <1>1, <1>2, <1>3, <2>2 DEF JobOk, Starting, Vectoring, Doc, rows, Ingesting
  <2> QED
    BY <1>1, <1>2, <2>2, <2>3, RowlessStep
<1>4. CASE job[w].at \notin Ingesting \ {"failed"}
  <2>1. End(w)
    BY <1>4 DEF Reject
  <2>2. JobOk(w)'
    BY <1>2, <2>1, EndAt DEF JobOk
  <2> QED
    BY <1>1, <1>2, <2>1, <2>2, EndAt, RowlessStep
<1> QED
  BY <1>3, <1>4

(* So does a restart, after which there are no jobs. *)
LEMMA RestartOk ==
    ASSUME IngestInv, Restart
    PROVE  IngestInv'
<1>1. job' = [w \in Slots |-> NoJob] /\ lost' = TRUE /\ UNCHANGED <<uploads, rows, nextId, solo>>
  BY DEF Restart
<1>2. \A w \in Slots : job'[w].at = "idle"
  BY <1>1 DEF NoJob
<1>3. IngestionTypeOK'
  BY <1>1 DEF IngestInv, IngestionTypeOK, Jobs, NoJob, rows
<1>4. \A d \in DocumentIds : DocumentOk(d)'
  BY <1>1 DEF IngestInv, DocumentOk, Stored, Whole, rows
<1>5. \A w \in Slots : JobOk(w)'
  BY <1>2 DEF JobOk
<1>6. \A v, w \in Slots : Apart(v, w)'
  BY <1>2 DEF Apart
<1> QED
  BY <1>3, <1>4, <1>5, <1>6 DEF IngestInv

(* The invariant is inductive. *)
LEMMA IngestInductive ==
    ASSUME IngestInv, [IngestionNext]_ingestionVars
    PROVE  IngestInv'
<1>1. MaxDocuments \in Nat
  BY IngestionAssumption
<1>2. CASE UNCHANGED ingestionVars
  BY <1>2 DEF IngestInv, IngestionTypeOK, JobOk, DocumentOk, Apart, Starting, Vectoring, VectorsSoFar,
              Whole, Stored, Doc, ingestionVars
<1> QED
  BY <1>1, <1>2, ArriveOk, StepOk, RejectOk, RestartOk DEF IngestionNext

(* It holds before the first upload. *)
LEMMA IngestInit ==
    ASSUME IngestionInit
    PROVE  IngestInv
<1>1. IngestionTypeOK
  <2>1. nextId \in 1 .. MaxDocuments + 1
    BY IngestionAssumption DEF IngestionInit
  <2>2. uploads \in [DocumentIds -> Texts]
    BY IngestionAssumption DEF IngestionInit
  <2>3. NoJob \in Jobs
    BY DEF NoJob, Jobs
  <2>4. job \in [Slots -> Jobs]
    BY <2>3 DEF IngestionInit
  <2> QED
    BY <2>1, <2>2, <2>4 DEF IngestionInit, IngestionTypeOK
<1>2. \A w \in Slots : job[w].at = "idle"
  BY DEF IngestionInit, NoJob
<1>3. \A d \in DocumentIds : DocumentOk(d)
  BY DEF IngestionInit, DocumentOk, Stored
<1> QED
  BY <1>1, <1>2, <1>3 DEF IngestInv, JobOk, Apart

(* What retrieval finds of a document. *)
LEMMA RetrievedOfReady ==
    ASSUME NEW d \in DocumentIds, status[d] = "Ready", embedded[d] \subseteq chunks[d]
    PROVE  {chunk.ordinal : chunk \in {r \in retrieve : r.doc = d}} = embedded[d]
<1>1. ASSUME NEW c \in embedded[d] PROVE [doc |-> d, ordinal |-> c] \in retrieve
  <2>1. [doc |-> d, ordinal |-> c] \in listReadyChunks
    BY DEF listReadyChunks
  <2> QED
    BY <2>1 DEF retrieve, topKBySimilarity
<1>2. ASSUME NEW r \in retrieve, r.doc = d PROVE r.ordinal \in embedded[d]
  BY <1>2 DEF retrieve, topKBySimilarity
<1> DEFINE found == {chunk.ordinal : chunk \in {r \in retrieve : r.doc = d}}
<1>3. ASSUME NEW c \in embedded[d] PROVE c \in found
  <2>1. [doc |-> d, ordinal |-> c] \in {r \in retrieve : r.doc = d}
    BY <1>1
  <2>2. [doc |-> d, ordinal |-> c].ordinal = c
    OBVIOUS
  <2> QED
    BY <2>1, <2>2
<1>4. ASSUME NEW c \in found PROVE c \in embedded[d]
  BY <1>2
<1>5. found = embedded[d]
  BY <1>3, <1>4
<1> QED
  BY <1>5

(* Every reachable state of the documents, their chunks and the jobs is     *)
(* well typed.                                                              *)
THEOREM IngestionTyped == IngestionSpec => []IngestionTypeOK
<1>1. IngestionInit => IngestInv
  BY IngestInit
<1>2. IngestInv /\ [IngestionNext]_ingestionVars => IngestInv'
  BY IngestInductive
<1>3. IngestInv => IngestionTypeOK
  BY DEF IngestInv
<1> QED
  BY <1>1, <1>2, <1>3, PTL DEF IngestionSpec

(* Whatever uploads, retries, deletions, failures and restarts interleave,  *)
(* retrieval finds of every Ready document exactly its whole text (the      *)
(* status setReady writes, over replaceChunks and setChunkEmbedding), given *)
(* that the chunker yields sound chunks -- which TLC checks on PolicyChunker.*)
THEOREM TextAlwaysSearchable ==
    ASSUME \A o \in Outcomes : o.sound
    PROVE  IngestionSpec => []ReadySearchable
<1>1. IngestionInit => IngestInv
  BY IngestInit
<1>2. IngestInv /\ [IngestionNext]_ingestionVars => IngestInv'
  BY IngestInductive
<1>3. IngestionInit => uploads \in [DocumentIds -> Outcomes]
  BY DEF IngestionInit
<1>4. uploads \in [DocumentIds -> Outcomes] /\ [IngestionNext]_ingestionVars
  => (uploads \in [DocumentIds -> Outcomes])'
  BY DEF IngestionNext, Request, Step, Reject, Restart, ingestionVars, DocumentIds
<1>5. IngestInv /\ uploads \in [DocumentIds -> Outcomes] => ReadySearchable
  <2> SUFFICES ASSUME IngestInv, uploads \in [DocumentIds -> Outcomes],
    NEW d \in DocumentIds, status[d] = "Ready"
      PROVE  /\ uploads[d].sound /\ uploads[d].drafts > 0
             /\ {chunk.ordinal : chunk \in {r \in retrieve : r.doc = d}} = 1 .. uploads[d].drafts
    BY DEF ReadySearchable
  <2>1. /\ uploads[d].sound /\ uploads[d].drafts > 0
        /\ embedded[d] \subseteq chunks[d] /\ embedded[d] = 1 .. uploads[d].drafts
    BY DEF IngestInv, DocumentOk, Whole
  <2> QED
    BY <2>1, RetrievedOfReady
<1> QED
  BY <1>1, <1>2, <1>3, <1>4, <1>5, PTL DEF IngestionSpec

(* A call in the middle of a request or a job moves its own slot only: what *)
(* was a job stays one, and without a request brings no document back.      *)
LEMMA StepMoves ==
    ASSUME IngestionTypeOK, NEW w \in Slots, Step(w)
    PROVE  /\ \A v \in Slots \ {w} : job'[v] = job[v]
           /\ job'[w].at # "create"
           /\ job'[w].at \in Handling => job[w].at \in Handling
           /\ job[w].at \notin Handling =>
                \A e \in DocumentIds : ~Stored(e) => ~Stored(e)'
<1>1. CASE CreateDocument(w)
  BY <1>1, GotoAt DEF CreateDocument, At, Handling, Ingesting
<1>2. CASE RetryCount(w)
  <2>1. job[w].at = "count" /\ (End(w) \/ Goto(w, "process"))
    BY <1>2 DEF RetryCount, At
  <2> QED
    BY <2>1, EndAt, GotoAt DEF Handling
<1>3. CASE RetryProcess(w)
  <2>1. job[w].at = "process" /\ (End(w) \/ Goto(w, "list"))
    BY <1>3 DEF RetryProcess, At
  <2> QED
    BY <2>1, EndAt, GotoAt DEF Handling, Ingesting
<1>4. CASE DeleteDocument(w)
  BY <1>4, EndAt DEF DeleteDocument, At, Handling
<1>5. CASE Extract(w)
  <2>1. status' = status
    BY <1>5 DEF Extract, rows
  <2>2. CASE Goto(w, "failed")
    BY <2>1, <2>2, GotoAt DEF Handling, Ingesting, Stored
  <2>3. CASE job' = [job EXCEPT ![w].at = "clear", ![w].todo = 1 .. uploads[Doc(w)].drafts]
    BY <2>1, <2>3 DEF IngestionTypeOK, Jobs, Handling, Stored
  <2> QED
    BY <1>5, <2>2, <2>3 DEF Extract
<1>6. CASE ReplaceDelete(w)
  BY <1>6, GotoAt DEF ReplaceDelete, Handling, Ingesting, Stored
<1>7. CASE ReplaceCreate(w)
  <2>1. status' = status /\ (Goto(w, "list") \/ Goto(w, "failed"))
    BY <1>7 DEF ReplaceCreate
  <2> QED
    BY <2>1, GotoAt DEF Handling, Ingesting, Stored
<1>8. CASE ListChunks(w)
  <2>1. status' = status
    BY <1>8 DEF ListChunks, rows
  <2> QED
    BY <1>8, <2>1 DEF ListChunks, IngestionTypeOK, Jobs, Handling, Stored
<1>9. CASE Embed(w)
  <2> DEFINE asked == FirstOf(job[w].todo, EmbedBatchSize)
  <2>1. status' = status
    BY <1>9 DEF Embed, rows
  <2>2. CASE Goto(w, "failed")
    BY <2>1, <2>2, GotoAt DEF Handling, Ingesting, Stored
  <2>3. CASE job' = [job EXCEPT ![w].at = "store", ![w].batch = asked,
    ![w].todo = job[w].todo \ asked]
    <3> HIDE DEF asked
    <3> QED
      BY <2>1, <2>3 DEF IngestionTypeOK, Jobs, Handling, Stored
  <2> QED
    BY <1>9, <2>2, <2>3 DEF Embed
<1>10. CASE SetChunkEmbedding(w)
  <2> DEFINE left == job[w].batch \ FirstOf(job[w].batch, 1)
             label == IF left # {} THEN "store" ELSE IF job[w].todo # {} THEN "embed" ELSE "ready"
  <2>1. status' = status
    BY <1>10 DEF SetChunkEmbedding
  <2>2. CASE Goto(w, "failed")
    BY <2>1, <2>2, GotoAt DEF Handling, Ingesting, Stored
  <2>3. CASE job' = [job EXCEPT ![w].batch = left, ![w].at = label]
    <3>1. label \in {"store", "embed", "ready"}
      OBVIOUS
    <3> HIDE DEF left, label
    <3>2. job'[w].at = label /\ \A v \in Slots \ {w} : job'[v] = job[v]
      BY <2>3 DEF IngestionTypeOK, Jobs
    <3> QED
      BY <2>1, <3>1, <3>2 DEF Handling, Stored
  <2> QED
    BY <1>10, <2>2, <2>3 DEF SetChunkEmbedding
<1>11. CASE SetReady(w)
  <2>1. CASE Stored(Doc(w))
    BY <1>11, <2>1, EndAt DEF SetReady, Handling, Stored, IngestionTypeOK
  <2>2. CASE ~Stored(Doc(w))
    BY <1>11, <2>2, GotoAt DEF SetReady, Handling, Ingesting, Stored
  <2> QED
    BY <2>1, <2>2
<1>12. CASE SetFailed(w)
  BY <1>12, EndAt DEF SetFailed, Handling, Stored, IngestionTypeOK
<1> QED
  BY <1>1, <1>2, <1>3, <1>4, <1>5, <1>6, <1>7, <1>8, <1>9, <1>10, <1>11, <1>12 DEF Step

(* An upload that nothing crossed has no document beside its own. *)
LEMMA OpenInductive ==
    ASSUME IngestionTypeOK, OpenInv, [IngestionNext]_ingestionVars
    PROVE  OpenInv'
<1>1. ASSUME NEW w \in Slots, Request(w) PROVE OpenInv'
  <2> SUFFICES ASSUME solo' PROVE OpenInv'
    BY DEF OpenInv
  <2>1. \A v \in Slots \ {w} : job[v].at \notin Handling
    BY <1>1 DEF Request
  <2>2. \A v \in Slots \ {w} : job'[v] = job[v]
    BY <1>1 DEF Request, Upload, Retry, Delete, Begin, IngestionTypeOK
  <2>3. CASE Upload(w)
    BY <2>1, <2>2, <2>3 DEF Upload, DeleteRows, Stored, OpenInv, At,
      Handling
  <2>4. CASE Retry(w) \/ Delete(w)
    <3>1. PICK d \in DocumentIds, label \in {"count", "remove"} : Begin(w, label, d)
      BY <2>4 DEF Retry, Delete
    <3>2. job'[w].at = label
      BY <3>1 DEF Begin, IngestionTypeOK, Jobs, NoJob
    <3> QED
      BY <2>1, <2>2, <3>2 DEF OpenInv, At, Handling
  <2> QED
    BY <1>1, <2>3, <2>4 DEF Request
<1>2. ASSUME NEW w \in Slots, Step(w) PROVE OpenInv'
  <2> SUFFICES ASSUME solo' PROVE OpenInv'
    BY DEF OpenInv
  <2>1. solo
    BY <1>2 DEF Step
  <2>2. /\ \A v \in Slots \ {w} : job'[v] = job[v]
        /\ job'[w].at # "create"
        /\ job'[w].at \in Handling => job[w].at \in Handling
        /\ job[w].at \notin Handling =>
             \A e \in DocumentIds : ~Stored(e) => ~Stored(e)'
    BY <1>2, StepMoves
  <2>3. \A v, u \in Slots : job'[v].at \in Handling /\ job'[u].at \in Handling => v = u
    BY <2>1, <2>2 DEF OpenInv
  <2>4. ASSUME NEW v \in Slots, At(v, "create")'
    PROVE \A d \in DocumentIds : ~Stored(d)'
    <3>1. v # w /\ At(v, "create") /\ job[v].at \in Handling
      BY <2>2, <2>4 DEF At, Handling
    <3>2. job[w].at \notin Handling
      BY <2>1, <3>1 DEF OpenInv
    <3> QED
      BY <2>1, <2>2, <3>1, <3>2 DEF OpenInv
  <2> QED
    BY <2>3, <2>4 DEF OpenInv
<1>3. ASSUME NEW w \in Slots, Reject(w) PROVE OpenInv'
  <2>1. \A v \in Slots : job'[v] = job[v] \/ job'[v].at \in {"failed", "idle"}
    BY <1>3 DEF Reject, Goto, End, NoJob, IngestionTypeOK, Jobs
  <2>2. status' = status /\ solo' = solo
    BY <1>3 DEF Reject, rows
  <2> QED
    BY <2>1, <2>2 DEF OpenInv, At, Handling, Stored
<1>4. CASE Restart
  BY <1>4 DEF Restart, OpenInv, NoJob, At, Handling
<1>5. CASE UNCHANGED ingestionVars
  BY <1>5 DEF ingestionVars, OpenInv, At, Stored
<1> QED
  BY <1>1, <1>2, <1>3, <1>4, <1>5 DEF IngestionNext

(* The one step that brings a document from nothing to Processing is the     *)
(* create of an upload, and it finds nothing else there.                     *)
LEMMA UploadStep ==
    ASSUME IngestionTypeOK, OpenInv, [IngestionNext]_ingestionVars, NEW d \in DocumentIds, solo,
           status[d] = "absent", status'[d] = "Processing", NEW e \in DocumentIds \ {d}
    PROVE  status'[e] = "absent"
<1>1. PICK w \in Slots : CreateDocument(w) /\ Doc(w) = d
  <2>1. status' # status
    OBVIOUS
  <2>2. PICK w \in Slots : Request(w) \/ Step(w)
    BY <2>1 DEF IngestionNext, ingestionVars, Restart, Reject, rows
  <2>3. ~Request(w)
    BY <2>1 DEF Request, Upload, Retry, Delete, DeleteRows, rows
  <2>4. CASE CreateDocument(w)
    BY <2>4 DEF CreateDocument, IngestionTypeOK
  <2>5. ~RetryProcess(w) /\ ~SetReady(w) /\ ~SetFailed(w)
    BY DEF RetryProcess, SetReady, SetFailed, Stored, IngestionTypeOK
  <2>6. ~DeleteDocument(w)
    BY DEF DeleteDocument, DeleteRows
  <2>7. /\ ~RetryCount(w) /\ ~Extract(w) /\ ~ReplaceDelete(w)
        /\ ~ReplaceCreate(w) /\ ~ListChunks(w)
        /\ ~Embed(w) /\ ~SetChunkEmbedding(w)
    BY <2>1 DEF RetryCount, Extract, ReplaceDelete, ReplaceCreate,
      ListChunks, Embed,
                SetChunkEmbedding, rows
  <2> QED
    BY <2>2, <2>3, <2>4, <2>5, <2>6, <2>7 DEF Step
<1>2. ~Stored(e)
  BY <1>1 DEF CreateDocument, OpenInv
<1> QED
  BY <1>1, <1>2 DEF CreateDocument, Stored, IngestionTypeOK

(* "One active handbook": an upload that no other request crosses leaves    *)
(* only its own document, whatever jobs of the old ones are still running.  *)
THEOREM UploadAlwaysReplaces == IngestionSpec => UploadReplaces
<1>1. IngestionInit => IngestInv /\ OpenInv
  <2>1. IngestionInit => OpenInv
    BY DEF IngestionInit, OpenInv, NoJob, At, Handling
  <2> QED
    BY <2>1, IngestInit
<1>2. IngestInv /\ OpenInv /\ [IngestionNext]_ingestionVars => (IngestInv /\ OpenInv)'
  BY IngestInductive, OpenInductive DEF IngestInv
<1>3. IngestInv /\ OpenInv /\ [IngestionNext]_ingestionVars =>
        [\A d \in DocumentIds : solo /\ status[d] = "absent" /\ status'[d] = "Processing"
           => \A e \in DocumentIds \ {d} : status'[e] = "absent"]_ingestionVars
  BY UploadStep DEF IngestInv
<1> QED
  BY <1>1, <1>2, <1>3, PTL DEF IngestionSpec, UploadReplaces
===============================================================================
