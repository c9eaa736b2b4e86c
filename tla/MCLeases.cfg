\* Three invocations, over each of the stores.
SPECIFICATION Spec
CONSTANTS
    Owners = {o1, o2, o3}
    Nobody = Nobody
    Deployments <- Intended
    TTL = 2
    MaxNow = 6
SYMMETRY OwnerSymmetry
INVARIANTS
    OneValidLease
PROPERTIES
    ContractKept
CHECK_DEADLOCK FALSE
