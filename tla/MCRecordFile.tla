---------------------------- MODULE MCRecordFile ----------------------------
EXTENDS RecordFile
=============================================================================
