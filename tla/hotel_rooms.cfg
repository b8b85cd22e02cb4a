SPECIFICATION Spec
CONSTANTS
    c1 = c1
    c2 = c2
    w1 = w1
    w2 = w2
    p1 = p1
    Checkouts = {c1, c2}
    Nights = {1, 2}
    StayNights <- Overlapping
    Rooms <- Uneven
    Workers = {w1, w2}
    Operators = {p1}
    MaxRooms = 2
    Prices = {1}
    Minimums = {1}
SYMMETRY WorkerSymmetry
INVARIANTS TypeOK RoomsAddUp PaidHoldsRooms
ACTION_CONSTRAINT RaceOverOneStay
\* every offer may lapse and every order be refunded: nothing is left to do then
CHECK_DEADLOCK FALSE
