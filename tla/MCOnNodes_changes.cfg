SPECIFICATION Spec
CONSTANTS
    a = a
    b = b
    c = c
    i = i
    j = j
    Node = {a, b, c}
    Item = {i, j}
    Data <- Items
    Pages = 2
    PageOf <- TwoPages
    Command = {"KEYS", "NUMSUB", "NUMPAT", "FLUSHALL", "SCRIPT_LOAD", "SCRIPT_EXISTS", "SCRIPT_DEBUG", "GETKEYSINSLOT", "BITOP"}
    Table0 <- AtFirst
    Layouts <- Rebuilt
    DownRetryAttempts = 2
    RetryOnTimeout = TRUE
    MaxChanges = 2
INVARIANT EveryNodeAnswers
INVARIANT ResultIsOfAllNodes
INVARIANT ExecutionsAreBounded
PROPERTY Terminates
