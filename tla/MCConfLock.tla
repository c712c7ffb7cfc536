---------------------------- MODULE MCConfLock ----------------------------
EXTENDS ConfLock
CONSTANTS d1, d2, d3, k1, k2
====
