SPECIFICATION Spec
CONSTANTS
    Nil = Nil
    Messages <- MCMessages
    BodyOptional = TRUE
CHECK_DEADLOCK FALSE
INVARIANT
    RegistersTheJob
