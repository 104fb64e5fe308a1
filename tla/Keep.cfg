SPECIFICATION Spec
CONSTANTS
    Adders = {a1, a2}
    NumCells = 3
    MaxAdds = 3
    Overlaps = {TRUE, FALSE}
INVARIANTS TypeOK ListSound FreedOnce AddedIsKeptAlone
PROPERTIES ReportedOnce AddReturns RefinesSendList
CHECK_DEADLOCK FALSE
