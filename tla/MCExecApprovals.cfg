SPECIFICATION AFairSpec
CONSTANTS
    a = a
    None = None
    Ids = {a}
    ShortIds <- MCShortIds
    Requests = {r1, r2}
    Waiters = {w1}
    Bindings = {x}
    Privileged = {x}
INVARIANTS RunsWithinDecision OneAnswer
PROPERTIES DecisionStands RequestAnswered
CHECK_DEADLOCK FALSE
