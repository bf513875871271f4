------------------------------- MODULE MCIde --------------------------------
EXTENDS Ide
=============================================================================
