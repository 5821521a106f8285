\* One interrupt of each level: SSI is raised by software, MTI by a line.
\* Exceptions: illegal instruction and the environment call of U-mode.  The
\* operands set and clear every status and interrupt bit one at a time.
CONSTANTS
    Ints = {1, 7}
    Causes = {2, 8}
    Operands = {{1}, {3}, {5}, {7}, {8}, {11}, {12}}
SPECIFICATION Spec
INVARIANTS TypeOK MDeferredOnce
PROPERTIES ReturnRestores MachineStateProtected MretGainsNothing
