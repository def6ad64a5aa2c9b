---------------------------- MODULE MCKeyedFile ----------------------------
EXTENDS KeyedFile
=============================================================================
