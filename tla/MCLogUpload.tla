------------------------------ MODULE MCLogUpload ------------------------------
(***************************************************************************)
(* An instance of LogUpload for TLC.                                       *)
(***************************************************************************)
EXTENDS LogUpload, TLC

\* A page asks for kernel messages twice and for logs once.
MCMaxUploads == [k \in Kind |-> IF k = "kmsg" THEN 2 ELSE 1]
=============================================================================
