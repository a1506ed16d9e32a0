CONSTANTS
  LineCap = 3
  HistoryCap = 2
  Letters <- MCLetters
  Shifted <- MCShifted
SPECIFICATION Spec
INVARIANTS
  TypeOK
  LineIsStable
  BrowsingShowsHistory
  HistoryIsRecent
PROPERTIES
  EnteredLineRuns
  ImplementsEditor
