SPECIFICATION DeskSpec
CONSTANTS
    EscalationId = {e1, e2}
    Person = {p1, p2}
    MaxOffset = 2
    analyst = analyst
    probe = probe
    Roster <- AgentAndProbe
    Probe <- Probes
    Unit <- Units
    Finding <- Findings
    MaxTick = 1
SYMMETRY Symmetry
INVARIANTS
    ReadingsAreTrue
    PassIsEarned
    PassHasEvidence
CHECK_DEADLOCK FALSE
