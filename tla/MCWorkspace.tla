----------------------------- MODULE MCWorkspace -----------------------------
(* Instances of Workspace for TLC. *)
EXTENDS Workspace

ViewsOnly == {"views"}
Everything == {"signups", "lines", "library", "chat", "tenants", "views", "records", "settings"}
===============================================================================
