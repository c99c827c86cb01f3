----------------------------- MODULE MCSimWorker -----------------------------
(* Two findings of one bytecode on one chain, the first of a manual audit; *)
(* other chains are used on demand only.                                   *)
EXTENDS SimWorker, TLC

CONSTANTS f1, f2, h1, code

MCChainOf == f1 :> h1 @@ f2 :> h1
MCCodeOf == f1 :> code @@ f2 :> code
=============================================================================
