SPECIFICATION Spec
CONSTANTS
    Nil = Nil
    Messages <- MCMessages
    BodyOptional = TRUE
CHECK_DEADLOCK FALSE
INVARIANTS
    JobIsAsAsked
    PoliciesApart
