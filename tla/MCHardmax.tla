------------------------------ MODULE MCHardmax ------------------------------
EXTENDS Hardmax
=============================================================================
