SPECIFICATION Spec
CONSTANTS
    MaxVersion = 3
INVARIANT WatcherConnected
CHECK_DEADLOCK FALSE
