SPECIFICATION Spec
CONSTANTS
    None = None
    Games = {g1, g2}
    Tasks = {t1, t2}
    Reasons = {r1}
    Levels = {2}
    Options <- MCOptions
INVARIANT RestrictedGameIsPursued
