SPECIFICATION Spec
CONSTANTS
    c1 = c1
    c2 = c2
    w1 = w1
    w2 = w2
    p1 = p1
    Checkouts = {c1}
    Nights = {1}
    StayNights <- OneNight
    Rooms <- OneRoom
    Workers = {}
    Operators = {}
    MaxRooms = 1
    Prices = {1, 2}
    Minimums = {1}
PROPERTIES SoldOnCurrentTerms
CHECK_DEADLOCK FALSE
