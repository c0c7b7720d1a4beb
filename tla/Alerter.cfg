SPECIFICATION Spec
CONSTANTS
    l1 = l1
    l2 = l2
    a1 = a1
    a2 = a2
    Users = {u1, u2}
    Labels = {l1, l2}
    Alerts = {a1, a2}
    LabelsOf <- MCLabelsOf
    RowIds = {r1, r2}
    None = None
    MaxEdits = 3
SYMMETRY Symmetry
INVARIANTS
    NotifiedWasOnDuty
    NotifiedWasAppointed
    SkippedForAReason
    AllAlertsHandled
