SPECIFICATION Spec
CONSTANTS
    Rev = 10
    Travel = 6
    Offsets = {0, 7}
    MaxMove = 4
    MaxCont = 6
    Kinds = {TRUE, FALSE}
    Slack = 1
    Margin = 1
    MinRange = 3
    Cap = 3
    NA = NA
INVARIANTS
    ExtremesMatchTicks
    AcceptedIsTrue
    SoftLimitsInside
CHECK_DEADLOCK FALSE
