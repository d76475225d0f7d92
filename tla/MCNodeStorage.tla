--------------------------- MODULE MCNodeStorage ----------------------------
EXTENDS NodeStorage
=============================================================================
