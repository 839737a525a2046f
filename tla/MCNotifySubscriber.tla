------------------------ MODULE MCNotifySubscriber ------------------------
(* Small instances of NotifySubscriber for TLC.                            *)
EXTENDS NotifySubscriber

CONSTANTS laser, image
=============================================================================
