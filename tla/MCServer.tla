------------------------------ MODULE MCServer ------------------------------
(* Two clients that start a crawl of each type, a probe, and a process that
   ends once, asked or unasked. *)
EXTENDS Server, TLC

CONSTANTS p1, p2

MCPost == {p1, p2}
MCType == p1 :> "registry" @@ p2 :> "k8s"
=============================================================================
