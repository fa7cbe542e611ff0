\* Fourteen serial numbers: the filter's real window, and the counter wraps.
CONSTANTS
    SNSpace = 14
    MaxSend = 16
SPECIFICATION Spec
PROPERTY SmallerDropped
CHECK_DEADLOCK FALSE
