CONSTANTS
    Call = {c1, c2}
SPECIFICATION Spec
INVARIANTS
    CidNamesCall
