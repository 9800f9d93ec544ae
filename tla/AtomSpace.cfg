\* The graph store under client calls and two linker threads.
CONSTANTS
    n1 = n1
    n2 = n2
    t1 = t1
    t2 = t2
    NoName = NoName
    Names <- MCNames
    Linkers <- MCLinkers
    MaxId <- MCMaxId
SPECIFICATION Spec
INVARIANTS IndexAgree
SYMMETRY MCSymmetry
PROPERTIES AtomIdentityStable AbstractStoreSpec
