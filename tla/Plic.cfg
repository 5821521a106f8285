\* Three IRQs (one reserved) over two register words, both contexts, three
\* priority levels; 3 is a register value that does not fit a level.
CONSTANTS
    MaxIrqs = 3
    WordBits = 2
    Contexts = {0, 1}
    PrioLevels = 3
    WriteValues = {0, 1, 2, 3}
SPECIFICATION PlicSystem
INVARIANT ScanFindsBest
PROPERTY ClaimTakesOne
