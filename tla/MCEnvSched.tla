----------------------------- MODULE MCEnvSched -----------------------------
EXTENDS EnvSched
=============================================================================
