SPECIFICATION HandlersSpec
CONSTANTS
    keystore = keystore
    configstore = configstore
    other = other
    c1 = c1
    c2 = c2
    CotaTypes <- ThreeTypes
    KnownTypes <- TwoTypes
    Versions <- TwoVersions
    Details <- SomeDetails
INVARIANT
    CotaUpdateSuccessful
CHECK_DEADLOCK FALSE
