SPECIFICATION Spec
SYMMETRY MCSymmetry
CONSTANTS
    tool = tool
    node = node
    c1 = c1
    c2 = c2
    c3 = c3
    v1 = v1
    v2 = v2
    Request <- MCRequest
    Caller <- MCCaller
    Asks <- MCAsks
    Reviewer <- MCReviewer
INVARIANTS
    AcknowledgedDecisionStands
PROPERTIES
    ImplementsLedger
