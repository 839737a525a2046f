-------------------------- MODULE MCParameterPoll --------------------------
(* Small instances of ParameterPoll for TLC.                               *)
EXTENDS ParameterPoll

CONSTANTS p, q, gain, low
=============================================================================
