SPECIFICATION Spec
CONSTANTS
    Requests = {r1, r2, r3}
    Emails = {e1, e2}
    Usernames = {n1, n2}
    short = short
    long = long
    longer = longer
    Passwords <- SomePasswords
    Read <- FirstBytes
    Secrets = {s1, s2}
    Unset = Unset
    MaxRestarts = 1
INVARIANTS TypeOK AccountHasOneMaker AnsweredNamesAreHeld OwnPasswordOpens
SYMMETRY NameSymmetry
CHECK_DEADLOCK FALSE
