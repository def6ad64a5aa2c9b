---------------------------- MODULE MCFileAccess ----------------------------
EXTENDS FileAccess
=============================================================================
