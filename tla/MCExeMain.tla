------------------------------ MODULE MCExeMain ------------------------------
EXTENDS ExeMain
=============================================================================
