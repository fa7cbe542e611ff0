\* Close beside a procedure that is under way.
CONSTANTS
    Servers = {s1}
    Tracked = {s1}
    Handlers = {h1, h2}
    Commands = {"restart", "close"}
    MaxCommands = 2
    MaxDeaths = 1
SPECIFICATION Spec
PROPERTY StaysClosed
CHECK_DEADLOCK FALSE
