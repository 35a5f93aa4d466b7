CONSTANTS
    a = a
    b = b
    WfId <- MCWfId
    Version <- MCVersion
    NoVersion = NoVersion
SPECIFICATION Spec
PROPERTY DependentSafety
\* Registration stops once every version of the finite set is used up or
\* older than the latest; a state where every further call is rejected is
\* a state the registry really rests in.
CHECK_DEADLOCK FALSE
