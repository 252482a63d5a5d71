---------------------------- MODULE MCSenderFifo ----------------------------
EXTENDS SenderFifo
=============================================================================
