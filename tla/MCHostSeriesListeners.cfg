CONSTANTS
    NaN = NaN
    None = None
    Hosts = {h1, h2}
    Times = {0, 1, 3}
    Values = {0, 1}
    Multiples = {NaN, 0, 2}
    MaxSamples = 2
    MaxMounts = 2
SPECIFICATION Spec
INVARIANT
    NoListenerOfUnmounted
