\* A curve of 31 elements, two ordinary indices and a hardened one.
SPECIFICATION Spec
CONSTANTS
    Prime = 43
    Order = 31
    Times <- TinyTimes
    Plus <- TinyPlus
    Digests <- TinyDigests
    Hardened = 8
    AccountPath <- TinyPath
    Indices = {0, 8}
    Foreign <- TinyForeign
INVARIANTS
    TypeOK
    AddressesAreSpendable
    RefusedForCause
    AddressesAreOnTheCurve
