--------------------------- MODULE MCThreadSafeQueue ---------------------------
(* ThreadSafeQueue with the threads of main().                             *)
EXTENDS ThreadSafeQueue

================================================================================
