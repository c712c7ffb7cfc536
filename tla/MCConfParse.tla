---------------------------- MODULE MCConfParse ----------------------------
EXTENDS ConfParse
====
