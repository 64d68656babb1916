CONSTANTS
    Files = {f1}
    Lines = {l1}
    Single = single
    Occurrences = 2
    MaxCalls = 4
    MaxIncidents = 1
SPECIFICATION Spec
CHECK_DEADLOCK FALSE
INVARIANT TypeOK
INVARIANT ReceiptsTellTheLedger
INVARIANT RetriesReturnTheSameImport
INVARIANT HistoryExplainsTheLedger
