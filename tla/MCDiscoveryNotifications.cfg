\* Two subscriptions that may find the same paper, one worker, two days.
SPECIFICATION Spec
CONSTANTS
    Papers = {p1}
    Subs = {s1, s2}
    Preferences <- MCPreferences
    Workers = {w1}
    None = None
    Lifetime = 1
    MaxChanges = 3
    MaxDay = 2
CHECK_DEADLOCK FALSE
SYMMETRY Symmetry
INVARIANTS
    TypeOK
    EligibleIsAuthorized
    WithdrawnIsHidden
    PaperShownOnce
PROPERTIES
    WithinBudget
