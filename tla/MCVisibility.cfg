CONSTANTS
    NaN = NaN
    RawIds <- MCRawIds
    Services = {s1, s2}
    NUMBER_LETTERS = 1
    MaxFeed = 3
SPECIFICATION Spec
INVARIANTS
    TypeOK
    IdentityFromFeed
PROPERTY
    ImplementsVisibilityModel
