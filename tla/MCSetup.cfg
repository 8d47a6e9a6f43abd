\* Every host of six kinds of adapter and two compilers, every way its probes fail, and
\* every layout the examples come in.
SPECIFICATION Spec
CONSTANTS
    Suffixes <- MCSuffixes
    Layouts <- MCLayouts
INVARIANTS
    OneFolder
    RightVendor
    RdmaIsFound
    RefFits
