------------------------------ MODULE MCAuditGate ------------------------------
(* The gate over two worlds of two packages each, with the policy as committed and *)
(* two that read_policy refuses.                                                   *)
EXTENDS AuditGate, TLC

McPolicies == {[fail_on |-> "high", place |-> "audit/"],
               [fail_on |-> "grave", place |-> "audit/"],
               [fail_on |-> "high", place |-> "outside"]}

McPyPackages == {"httpx", "uvicorn"}

McNodePackages == {"vite", "esbuild"}

\* vite depends on esbuild.
McThrough == "vite" :> {"vite", "esbuild"} @@ "esbuild" :> {"esbuild"}
================================================================================
