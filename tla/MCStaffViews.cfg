SPECIFICATION StaffSpec
CONSTANTS
    r1 = r1
    r2 = r2
    k1 = k1
    k2 = k2
    h1 = h1
    e1 = e1
    old = old
    new = new
    Label = {old, new}
    LabelOf <- MCLabelOf
    NoSchool = NoSchool
    NoEmail = NoEmail
    Record = {r1, r2}
    Key = {k1, k2}
    School = {h1}
    SchoolOf <- MCSchoolOf
    EmailOf <- MCEmailOf
    Visible = {r1, r2}
    MaxEdits = 1
    MaxTime = 2
SYMMETRY KeySymmetry
INVARIANTS
    StaffTypeOK
    RecountRepairs
    ViewsAgree
    PendingSeenEverywhere
CONSTRAINT Small
