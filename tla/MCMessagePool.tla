--------------------------- MODULE MCMessagePool ---------------------------
EXTENDS MessagePool

=============================================================================
