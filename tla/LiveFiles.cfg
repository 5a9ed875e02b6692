\* Two writers of one path and a paged walk, while tools change the tree.
SPECIFICATION Spec
CONSTANTS
    None = None
    Separator = 2
    Paths <- MCPaths
    Writers = {"w1", "w2"}
    PathOf <- MCPathOf
    Overwrite <- MCOverwrite
    Kinds = {"list", "search"}
    Matching <- MCMatching
    Limit = 1
    MaxEntries = 2
    MaxChanges = 3
    MaxFaults = 1
CHECK_DEADLOCK FALSE

    
    
PROPERTIES
    NeverReplaces
