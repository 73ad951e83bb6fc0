--------------------------- MODULE MCRetainStore ----------------------------
(* Instances of the retain store: one flusher (T5, which runs alone until  *)
(* shutdown) and two (T5 and the supervisor's shutdown path).              *)
EXTENDS RetainStore

(* Any system call may fail.                                               *)
AllErrors == Steps
=============================================================================
