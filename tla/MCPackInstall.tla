--------------------------- MODULE MCPackInstall ---------------------------
EXTENDS PackInstall
=============================================================================
