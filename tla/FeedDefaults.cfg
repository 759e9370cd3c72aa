CONSTANTS
    Conn <- Connections
    Addr = {view, other}
    Prompt = {view}
    Broadcaster = {receiver}
    Periodic = periodic
    Acceptor = acceptor
    Interval = 1
    Room = 1
    Reader = {view}
    Casts = {{view}}
    ReadTimeout = 1
    Reconnect = TRUE
    view = view
    other = other
SPECIFICATION Spec
CHECK_DEADLOCK FALSE
PROPERTY IdleKept
