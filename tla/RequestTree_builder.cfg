\* Every request class and an array of clauses; one name that is also a field.
\* A caller stops when his request is complete.
SPECIFICATION Spec
CONSTANTS
    Roots = {"Indexer", "Inserter", "Updater", "Searcher", "Must"}
    Names = {"a"}
    Fields = {"a"}
    NoField = NoField
    Values = {v}
    Default = v
    MaxElements = 5
    MaxWritten = 2
    MaxList = 2
INVARIANTS TypeOK IsTree WrittenIsSent
PROPERTY ImplementsDocument
CHECK_DEADLOCK FALSE
