--------------------------- MODULE MCRecordBuffer ---------------------------
EXTENDS RecordBuffer
=============================================================================
