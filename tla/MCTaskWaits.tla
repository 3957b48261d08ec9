---------------------------- MODULE MCTaskWaits ----------------------------
EXTENDS TaskWaits
=============================================================================
