SPECIFICATION LoginSpec
CONSTANTS
    Request = {r1, r2, r3}
    User = {alice, bob}
    Session = {s1, s2}
    None = None
    Attempt = {l1, l2}
    Password = {w1, w2}
    Lifetime = 1
    MaxChanges = 2
SYMMETRY Symmetry
INVARIANTS
    OnlyOverlapMixesAuthors
    ReplacedPasswordsExpire
CHECK_DEADLOCK FALSE
