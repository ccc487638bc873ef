------------------------------- MODULE MCContent -------------------------------
EXTENDS Content
=============================================================================
