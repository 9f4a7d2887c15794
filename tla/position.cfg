SPECIFICATION Spec
CONSTANTS
    Modulus = 16
    SecondSize = 2
    Durations = {1, 6}
    MaxChunk = 3
INVARIANTS NotBehind ScaledOnce
