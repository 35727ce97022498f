CONSTANTS
    NaN = NaN
    RawIds <- MCRawIds
    SampleIds <- MCSampleIds
    Services = {s1, s2}
    NUMBER_LETTERS = 1
    MaxFeed = 1
    Times = {0, 1, 2}
    Values = {0, 1}
    Multiples = {NaN, 0, 2}
    MaxSamples = 2
SPECIFICATION SeriesSpec
INVARIANTS
    SeriesTypeOK
    SeriesFromSamples
    BucketsSorted
