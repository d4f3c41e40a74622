\* Programs of up to two nodes besides START and END, three robots.
CONSTANTS
    Declarations <- MCDeclarations
    Tests <- MCTests
    MaxIterations = 4
SPECIFICATION Spec
INVARIANTS
    TypeOK
    KnownNodes
    Verdicts
