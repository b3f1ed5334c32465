\* Every sequence of edits for foo.co, foo.com and bar.org.
CONSTANTS
    co = co
    com = com
    org = org
    Names = {co, com, org}
    Extends <- Extensions
    MaxBlocks = 3
    NoEntry = NoEntry
    NoCert = NoCert
SPECIFICATION Spec
INVARIANTS TypeOK
PROPERTIES OthersUntouched ImplementsEntries
