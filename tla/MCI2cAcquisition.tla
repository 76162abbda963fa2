-------------------------- MODULE MCI2cAcquisition --------------------------
(* Three acquisitions in a row, two transfers that fail.                    *)
EXTENDS I2cAcquisition
=============================================================================
