----------------------- MODULE MCTableSubscriptions -----------------------
(* Small instances of TableSubscriptions for TLC.                          *)
EXTENDS TableSubscriptions

CONSTANTS scan, laser, image
=============================================================================
