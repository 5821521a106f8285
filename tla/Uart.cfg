\* IRQ 1 stands for the UART; every setting of the PLIC registers is reached.
CONSTANTS
    MaxIrqs = 2
    WordBits = 2
    Contexts = {0, 1}
    PrioLevels = 2
    UART_IRQ = 1
    MaxInput = 2
    MaxTyped = 3
    MaxSent = 2
SPECIFICATION DrvSpec
INVARIANTS UartTypeOK SpuriousOnlyWithInput ThreNeverMissed ReportedStillPending TrapHasWork
PROPERTIES RxRaised InputDrains TxDrains
