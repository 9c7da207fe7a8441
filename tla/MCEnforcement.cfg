SPECIFICATION FairSpec
CONSTANTS
    None = None
    Games = {g1, g2}
    Tasks = {t1, t2}
    Reasons = {r1}
    Levels = {2, 3}
    Options <- MCOptions
INVARIANTS TypeOK PursuedUnlessOvertaken NoFlowWithoutCause FlowOfPresentGame
PROPERTY EnforcementSettles
