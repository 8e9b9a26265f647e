SPECIFICATION Spec
CONSTANTS
    Agents = {run}
    Threads = {t1, t2}
    Subjects = {alice, bob}
    Tenants = {acme, globex}
    Keys = {k1, k2}
    MaxRows = 2
    MaxAccess = 1
SYMMETRY Symmetry
INVARIANTS
    TypeOK
    StablePseudonym
    LabelHasItsRow
    MapReadable
    DisclosureAudited
