SPECIFICATION MeterSpec
CONSTANTS
    Contents <- MCContents
    LaterContents <- MCLaterContents
    Fields <- MCFields
    Token <- MCToken
    Calculations <- MCCalculations
    MaxDifes = 10
INVARIANTS
    EntriesConsistent
    CompactGivesTheSame
    
    HistoryShown
    FormulaIsRead
    
CONSTRAINT OnlyMade
