----------------------------- MODULE MCKbBuffer -----------------------------
EXTENDS KbBuffer
=============================================================================
