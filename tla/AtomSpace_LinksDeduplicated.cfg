\* Two linker threads adding links at once: the dedup of AddOutgoingLink.
CONSTANTS
    n1 = n1
    n2 = n2
    t1 = t1
    t2 = t2
    NoName = NoName
    Names <- MCNames
    Linkers <- MCLinkers
    MaxId <- MCMaxId
SPECIFICATION Spec
INVARIANTS LinksDeduplicated
