SPECIFICATION DomainsSpec
CONSTANTS
    Requests = {r1, r2}
    MaxApiChanges = 3
SYMMETRY Symmetry
INVARIANT StaysOnDisk
