\* A runner process with turns under a heartbeat: restarts, signals, an empty queue.
CONSTANTS
    Turns = 2
    Heartbeats = TRUE
    None = None
    PollMin = 1
    PollMax = 5
    Hints = {3, 9}
    MaxWork = 1
SPECIFICATION ProcessFairSpec
INVARIANTS ProcessTypeOK NeverBlamesUnlessMisjudged HeldToAccountUnlessMasked EndsForAReason NothingAbandoned StopIsPrompt PollsSlowDown
PROPERTIES CallReturnsInTheEnd WorkIsFound StopEnds
