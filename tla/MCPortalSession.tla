-------------------------- MODULE MCPortalSession --------------------------
\* One brand of the user and one of somebody else.
EXTENDS PortalSession

CONSTANTS b1, b2

MCBrands == {b1, b2}
MCOwned  == {b1}
=============================================================================
