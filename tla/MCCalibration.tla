--------------------------- MODULE MCCalibration ---------------------------
(* Values 1 and 4 are just outside the range, 2 and 3 its two ends.          *)
EXTENDS Calibration
=============================================================================
