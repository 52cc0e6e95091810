-------------------------------- MODULE MCPlugin --------------------------------
EXTENDS Plugin
=============================================================================
