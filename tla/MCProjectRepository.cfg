\* Two tabs and every interleaving of their transactions, with aborted
\* transactions and lost commit responses.
CONSTANTS
    Clients = {tabA, tabB}
    RevisionIds = {r1, r2}
    Contents = {x1, x2}
    Tokens = {k1, k2, k3}
    Null = Null
SYMMETRY Symmetric
SPECIFICATION RepositorySpec
INVARIANTS
    RepositoryTypeOK
    RetainedStored
    FinalizedNeverCompensated
PROPERTY ImplementsRegister
