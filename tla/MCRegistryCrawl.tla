--------------------------- MODULE MCRegistryCrawl ---------------------------
(* A registry of up to two repositories with up to two tags each, crawled
   through a channel of one envelope. *)
EXTENDS RegistryCrawl

CONSTANTS r1, r2, t1, t2

MCRepo == {r1, r2}
MCTag == {t1, t2}

\* Everything, with no, one, two threads; and a selection.
MCRequest ==
    [repos : {{}}, tags : {{}}, maxThreads : {0, 1, 2}]
    \cup {[repos |-> {r1}, tags |-> {t2}, maxThreads |-> 2]}
=============================================================================
