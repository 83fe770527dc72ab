\* A digest that was shown is hidden by a save, and stays hidden when the paper is removed.
SPECIFICATION Spec
CONSTANTS
    Papers = {p1}
    Subs = {s1, s2}
    Preferences <- MCPreferences
    Workers = {w1}
    None = None
    Lifetime = 1
    MaxChanges = 3
    MaxDay = 2
CHECK_DEADLOCK FALSE
SYMMETRY Symmetry
ACTION_CONSTRAINT QueueTurns
INVARIANTS
    HiddenDigestsComeBack
