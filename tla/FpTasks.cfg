CONSTANTS
    FReg = {f0}
    Task = {t1, t2}
SPECIFICATION Spec
INVARIANT ContextKept
