---------------------------- MODULE MCSearchSync ----------------------------
(* Instances of SearchSync for TLC.                                        *)
EXTENDS SearchSync
=============================================================================
