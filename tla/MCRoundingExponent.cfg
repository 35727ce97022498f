CONSTANTS
    NaN = NaN
    InvalidArgument = InvalidArgument
    Xs = {0, 1, 3}
    Ms = {2000001}
SPECIFICATION Spec
INVARIANT RoundsAsSpecified
