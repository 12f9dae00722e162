---------------------------- MODULE MCScratchpad ----------------------------
(* A scratchpad of four words; the code's Top is 2 whatever the size.    *)
EXTENDS Scratchpad
=============================================================================
