\* Starting, running and ending the server with each source of samples.
SPECIFICATION Spec
CONSTANTS
    http = http
    output = output
    input = input
    Http = {http}
    Output = {output}
    Input = {input}
    Conn = {c1}
    MaxSignals = 2
    DeviceConfigs <- TwoConfigs
    Enabled <- NoneOneOrTwo
INVARIANT DeviceReleased
PROPERTY EndsWhenTold
\* The process ends.
CHECK_DEADLOCK FALSE
