CONSTANTS
    Compressed <- MCCompressed
    Immediates <- MCImmediates
SPECIFICATION Spec
INVARIANTS RvcExpands ImmediatesDecode
