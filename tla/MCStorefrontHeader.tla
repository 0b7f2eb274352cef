------------------------- MODULE MCStorefrontHeader -------------------------
EXTENDS StorefrontHeader

CONSTANTS k1, k2
=============================================================================
