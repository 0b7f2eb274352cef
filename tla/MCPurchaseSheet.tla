-------------------------- MODULE MCPurchaseSheet --------------------------
EXTENDS PurchaseSheet

CONSTANTS s1, w1, w2
=============================================================================
