SPECIFICATION Spec
CONSTANTS
    Agents = {run, baseline}
    Threads = {t1}
    Subjects = {alice}
    Tenants = {acme}
    Keys = {k1, k2}
    MaxRows = 1
    MaxAccess = 0
PROPERTY
    KeyNeverReplaced
