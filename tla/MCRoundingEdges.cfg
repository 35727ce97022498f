CONSTANTS
    NaN = NaN
    InvalidArgument = InvalidArgument
    Xs = {0, 1, 3}
    Ms = {0, NaN}
SPECIFICATION Spec
INVARIANT RoundsAsSpecified
