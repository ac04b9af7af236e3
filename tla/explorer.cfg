SPECIFICATION Spec
CONSTANTS
    home = home
    docs = docs
    Dirs = {home, docs}
    Ancestors <- HomeAncestors
    HiddenDirs = {}
    NoRoot = NoRoot
    NoListing = NoListing
    MaxChanges = 1
    MaxMoves = 2
INVARIANTS ExplorerTypeOK PendingIsRead
PROPERTIES TreeCatchesUp GitCatchesUp
CHECK_DEADLOCK FALSE
