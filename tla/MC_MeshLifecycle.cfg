\* start, stop, start again, with the default ogm_interval_seconds (10).
\* After the last stop() every thread ends and the program has stopped.
CONSTANTS
    MaxStarts = 2
    OgmInterval = 10

SPECIFICATION LifecycleSpec
CHECK_DEADLOCK FALSE

INVARIANT OneThreadPerLoop
