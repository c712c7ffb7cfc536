----------------------------- MODULE MCCircBuf -----------------------------
EXTENDS CircBuf

(* Every WriteObjData call length up to one past the clamp is tried.       *)
MCMaxLen == MAX_BUF_SIZE
=============================================================================
