SPECIFICATION FileSpec
CONSTANTS
    Procs = {p, q}
    Hot = {k}
    Hist = {h}
    Ref = ref
    Values = {a, b}
    Absent = Absent
    MaxChanges = 3
    MaxLoads = 3
    MaxArchives = 2
INVARIANTS NothingForgotten
PROPERTIES ReadersNeverClobber ArchiveInvisible
SYMMETRY Symmetry
