SPECIFICATION Spec
CONSTANTS
    l1 = l1
    p1 = p1
    Users = {u1, u2}
    Slots = {s1, s2}
    Logins = {l1, l2}
    Passwords = {p1}
    Accounts <- MCAccounts
    Blank = Blank
    Junk = Junk
    MaxTexts = 3
    MaxBoots = 2
SYMMETRY Symmetry
INVARIANTS
    TypeOK
    AuthWitnessed
    VerdictUndisturbed
PROPERTIES
    ImplementsAuthorization
