--------------------------- MODULE MCSerialUplink ---------------------------
EXTENDS SerialUplink

CONSTANTS net, bt

\* The network stack uses the queue for the rest, Bluetooth its own.
PrioOf == [s \in Senders |-> IF s = bt THEN 2 ELSE 3]
=============================================================================
