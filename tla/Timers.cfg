\* Timers and asynchronous calls that act on each other.
SPECIFICATION Spec
CONSTANTS
    MaxTimers = 2
    MaxAsyncs = 1
    Ms = 2
    Slack = 1
    Delays = {2}
    Returns <- CallbackReturns
    Resolution = 1
    LowWait = 2
    MaxBusy = 1
INVARIANTS WalkValid ReleasedOnce WaitSound
PROPERTIES CalledOrGone
