---------------------------- MODULE MCPyeCompile ----------------------------
EXTENDS PyeCompile
CONSTANTS p1, p2
=============================================================================
