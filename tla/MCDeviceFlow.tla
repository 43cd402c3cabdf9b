---------------------------- MODULE MCDeviceFlow ----------------------------
(* Small instances of DeviceFlow. *)
EXTENDS DeviceFlow

CONSTANTS u1, u2, b1, b2, d1, x1, x2

\* x1 is free, x2 is taken.
MCOwner == [x \in Domain |-> IF x = x2 THEN u2 ELSE None]
=============================================================================
