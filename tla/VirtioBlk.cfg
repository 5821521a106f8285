CONSTANTS
    N = 2
    W = 4
    Kinds = {"ok", "ioerr", "bad"}
SPECIFICATION FairSpec
INVARIANTS SysTypeOK ExactlyOnce CompletionSignalled NoSpuriousIrq
PROPERTIES ImplementsQueue RequestsEnd
