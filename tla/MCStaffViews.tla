----------------------------- MODULE MCStaffViews -----------------------------
(* StaffViews for TLC: two students who share an address; the steps were   *)
(* reworded between their visits.                                          *)
EXTENDS StaffViews, TLC
CONSTANTS r1, r2, k1, k2, h1, e1, old, new
MCSchoolOf == r1 :> h1 @@ r2 :> NoSchool
MCLabelOf == r1 :> [k \in Key |-> old] @@ r2 :> [k \in Key |-> new]
MCEmailOf == [r \in Record |-> e1]
KeySymmetry == Permutations({k1, k2})

(* Bounds: two step rows between the records; a form on the first one,     *)
(* while a write is left to save it.                                       *)
Small ==
    /\ CountTotal(steps[r1]) + CountTotal(steps[r2]) <= 2
    /\ form.rec \subseteq {r1}
    /\ form # NoForm => edits < MaxEdits
=============================================================================
