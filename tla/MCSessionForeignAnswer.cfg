\* Two pages: what a page takes for an offer (index.html, line 147).
SPECIFICATION Spec
CONSTANTS
    b1 = b1
    b2 = b2
    Streamer = Streamer
    None = None
    Browser <- TwoPages
    MaxInFlight = 1
    MaxTexts = 2
    Droppable <- NoConnection
INVARIANT PagesApplyOnlyOffers
CHECK_DEADLOCK FALSE
SYMMETRY PageSymmetry
