--------------------------- MODULE MCSocketPower ---------------------------
(***************************************************************************)
(* An instance of SocketPower for TLC.                                     *)
(***************************************************************************)
EXTENDS SocketPower

\* Any events may have been found in the ring, or none.
AnyEvents == SUBSET EventType

\* Nothing depends on when the older record was taken: its value is all that counts.
Newest(buf) == IF Len(buf) < 2 THEN <<Len(buf), [i \in 1 .. Len(buf) |-> buf[i].value]>>
               ELSE <<buf[1].value, buf[2]>>

View == <<counter, since, spent, [m \in Meter |-> Newest(record_buffer[m])], idle,
          activation, background_power_uw, peak>>
=============================================================================
