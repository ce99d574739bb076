CONSTANTS
    Tx <- MCTx
    Spent <- MCSpent
    Witnesses <- MCWitnesses
    Calls <- MCCalls
    Fresh = 7
SPECIFICATION Spec
INVARIANTS
    Transparent
    SignsWhatTypeSays
    InputsSeparated
