---------------------------- MODULE MCHttpProxy ----------------------------
EXTENDS HttpProxy, TLC

CONSTANTS c1, c2, c3, c4
=============================================================================
