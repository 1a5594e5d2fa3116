\* Two processes that index or renew, one edit, two checkouts in the window.
SPECIFICATION DeskSpec
CONSTANTS
    Registrar = {r1, r2}
    Edit = {"e1"}
    Mode = {"local-edit"}
    Base = {"b1", "b2"}
    MaxStamp = 4
    Renewer = {p1, p2}
    MaxLease = 2
    MaxClock = 4
    Checkout = {"c1", "c2"}
    QueueSize = 2
    MaxTell = 3
    MaxPoll = 1
    MaxPart = 1
CONSTRAINT Bounds
SYMMETRY Symmetry
INVARIANTS DeskTypeOK FirstRecordStays LeaseIsKept QuitIsAsked
PROPERTIES NoticesAreTrue WindowIsTrue
CHECK_DEADLOCK FALSE
