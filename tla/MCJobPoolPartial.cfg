\* One job that nobody cancels, on a server that nothing befalls.
SPECIFICATION Spec
CONSTANTS
    Job = {j1}
    Key <- OneKey
    Workers = 1
    MaxEvents = 0
PROPERTY FirstTerminalWins
CHECK_DEADLOCK FALSE
