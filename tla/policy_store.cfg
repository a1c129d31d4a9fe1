CONSTANTS
    v1 = v1  v2 = v2  ann = ann  annSub = annSub  bob = bob  c1 = c1  c2 = c2  c3 = c3
    Nobody = Nobody
    Versions = {v1, v2}
    Operators = {ann, bob}
    Author <- MCAuthor
    Calls = {c1, c2, c3}
    Target <- MCTarget
    Identity <- MCIdentity
    Names <- MCNames
    BootFields <- MCBootFields
    Priced = {v1}
    Replicas <- MCReplicas
CHECK_DEADLOCK FALSE
SPECIFICATION FairStoreSpec
INVARIANTS ActiveIsAudited Approved
PROPERTY CallsEnd
