\* The caller also invokes actions whose constructor failed, as the
\* "if not self.isValid" branch of _execAndJoin expects.
CONSTANTS
    g1 = g1
    g2 = g2
    g3 = g3
    g4 = g4
    Readers <- MCReaders
    InvokeInvalid = TRUE
SPECIFICATION Spec
PROPERTY
    ReadersReturn
CHECK_DEADLOCK FALSE
