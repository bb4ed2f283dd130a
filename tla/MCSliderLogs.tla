---------------------------- MODULE MCSliderLogs ----------------------------
(* The instance of SliderLogs for TLC.                                     *)
EXTENDS SliderLogs
=============================================================================
