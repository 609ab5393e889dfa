---------------------------- MODULE MCCrawlerApi ----------------------------
(* Two clients that start a crawl of each type, and a process that ends once. *)
EXTENDS CrawlerApi, TLC

CONSTANTS p1, p2

MCPost == {p1, p2}
MCType == p1 :> "registry" @@ p2 :> "k8s"
=============================================================================
