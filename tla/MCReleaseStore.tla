--------------------------- MODULE MCReleaseStore ---------------------------
EXTENDS ReleaseStore, TLC
=============================================================================
