------------------------------ MODULE MCEnvLib ------------------------------
EXTENDS EnvLib
=============================================================================
