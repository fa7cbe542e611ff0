\* Two servers, a death, and a command beside the handler that creates the
\* client.
CONSTANTS
    Servers = {s1, s2}
    Tracked = {s2}
    Handlers = {h1, h2}
    Commands = {"restart", "tracker", "addresses", "close"}
    MaxCommands = 1
    MaxDeaths = 1
SPECIFICATION FairSpec
INVARIANTS TypeOK OneServerWhenConnected ChosenHasReader
PROPERTY Reconnects
CHECK_DEADLOCK FALSE
