SPECIFICATION MCSpec
CONSTANTS
    MaxTurn = 2
    MaxEvent = 3
    MaxFault = 1
    Budget = 2
    Steer = {s1, s2}
    Client = {u1, u2}
INVARIANTS StrayEventsAreUnbound NoFalseLoss TranscriptIsWhole NoEventBeforeItsSteer AuthorizedOnce
PROPERTY TurnEnds
CHECK_DEADLOCK FALSE
