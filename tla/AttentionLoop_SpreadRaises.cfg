\* One attention pass over every graph of three atoms, every starting
\* attention vector and every iteration order of m_atoms.
CONSTANTS
    AtomIds <- MCAtomIds
    One <- MCOne
    InitialAttention <- MCInitialAttention
    MulFrac <- MCMulFrac
SPECIFICATION Spec
INVARIANT SpreadRaises
