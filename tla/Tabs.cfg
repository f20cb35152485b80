\* The line shell, five commands one after the other, and three tabs that are
\* opened, selected and closed while three commands run. Any of them may fail.
SPECIFICATION Spec
CONSTANTS
    index = index
    board1 = board1
    board2 = board2
    thread1 = thread1
    Places <- MCPlaces
    NoPlace = NoPlace
    LinksOf <- MCLinksOf
    HomeOf <- MCHomeOf
    DestOf <- MCDestOf
    NoDest = NoDest
    TabIds = {t1, t2, t3}
    MaxLines = 5
    MaxTasks = 3
SYMMETRY Symmetry
INVARIANTS
    ScreenHolds
PROPERTIES
    HistoryHolds
    PagesStayInTheirTab
    CloseKeepsActive
CHECK_DEADLOCK FALSE
