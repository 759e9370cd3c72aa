------------------------------ MODULE MCServer ------------------------------
(* A server of each kind, an input connection, two configurations of the device that take    *)
(* every step between them, and two signals.                                                *)
EXTENDS Server

CONSTANTS http, output, input

Fewest == <<"GainMode", "Freq", "Rate", "Reset">>
Most == <<"Gains", "GainMode", "Gain", "PPM", "AGC", "Freq", "Rate", "Reset", "BiasTee">>

TwoConfigs == {Fewest, Most}
NoneOneOrTwo == {{}, {output}, {http, input}}
=============================================================================
