CONSTANTS
    NaN = NaN
    RawIds <- MCRawIds
    SampleIds <- MCStrayIds
    Services = {s1}
    NUMBER_LETTERS = 1
    MaxFeed = 1
    Times = {0}
    Values = {0}
    Multiples = {2}
    MaxSamples = 1
SPECIFICATION SeriesSpec
INVARIANTS
    PlotsRender
