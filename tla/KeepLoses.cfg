SPECIFICATION Spec
CONSTANTS
    Adders = {a1}
    NumCells = 3
    MaxAdds = 4
    Overlaps = {TRUE}
INVARIANTS AddedIsKept
CHECK_DEADLOCK FALSE
