\* Two announcers and a seeker, with and without faults.
SPECIFICATION Spec
CONSTANTS
    ann1 = ann1
    ann2 = ann2
    seeker = seeker
    once = once
    steady = steady
    process = process
    all = all
    some = some
    Announcers = {ann1, ann2}
    Seekers = {seeker}
    Process <- MCProcess
    Listeners = {once, steady}
    Once = {once}
    Matches <- MCMatches
    Long = {ann2}
    Quoted <- MCQuoted
    Stray = Stray
    Idle = Idle
    MaxSeeks = 1
    MaxTroubles = 1
INVARIANTS
    OnlyMatching
    EveryListenerHears
    
PROPERTY Found
CHECK_DEADLOCK FALSE
