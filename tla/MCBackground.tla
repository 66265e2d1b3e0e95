----------------------------- MODULE MCBackground -----------------------------
(* Background for TLC: a scheduled task of low priority and two jobs queued  *)
(* by an administrator; two items of the trash, a page has one.              *)
EXTENDS Background

CONSTANTS w1, w2, t1, j1, j2

MCPriority == (t1 :> 0) @@ (j1 :> 1) @@ (j2 :> 0)

MCMaxRetries == (t1 :> 0) @@ (j1 :> 1) @@ (j2 :> 0)
=============================================================================
