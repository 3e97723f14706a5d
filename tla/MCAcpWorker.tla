----------------------------- MODULE MCAcpWorker -----------------------------
(***************************************************************************)
(* Small instances of AcpWorker.                                           *)
(***************************************************************************)
EXTENDS AcpWorker

\* An agent that keeps and lists its sessions, and one that has modes only.
OneOrTheOther == {{"load", "list"}, {"mode"}}
=============================================================================
