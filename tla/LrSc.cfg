\* Two counters in one doubleword, a third word in another.
CONSTANTS
    Words = {0, 1, 2}
    Counters = {0, 1}
    WordsPerDW = 2
    Tasks = {t1, t2}
    MaxAdds = 2
SPECIFICATION LrScSpec
INVARIANTS ReservationHolds CountersExact ReservationOwned
