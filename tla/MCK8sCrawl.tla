----------------------------- MODULE MCK8sCrawl -----------------------------
(* A cluster of two namespaces: two pods of one deployment, an image of the
   same content under another path, images without credentials, and images
   run by another container runtime. *)
EXTENDS K8sCrawl, TLC

CONSTANTS n1, n2, d1, d2, d3, d4

Status(name, registry, contains, scheme, pinned, digest) ==
    [name |-> name, registry |-> registry, contains |-> contains, scheme |-> scheme,
     pinned |-> pinned, digest |-> digest]

a == Status("a", "corp.example", {}, "docker-pullable", TRUE, d1)
b == Status("b", "docker.io", {"docker.io"}, "docker-pullable", TRUE, d1)
c == Status("c", "", {}, "docker", FALSE, d2)
e == Status("e", "eu.gcr.io", {"gcr.io"}, "containerd", TRUE, d3)
f == Status("f", "https.example", {"http"}, "containerd", TRUE, d4)
g == Status("g", "docker.io", {"docker.io"}, "docker-pullable", TRUE, d3)

MCNamespace == {n1, n2}
MCContainer == {a, b, c, e, f, g}
MCListing == n1 :> {<<>>, <<a, a, c>>, <<b, g>>} @@ n2 :> {<<a, b>>, <<e, f>>, <<e>>}
MCRegAuth == {"https://corp.example", "https://registry-1.docker.io", "https://gcr.io",
              "https.example"}
MCRequest == [scan : {TRUE}, maxThreads : {0, 1, 2}] \cup [scan : {FALSE}, maxThreads : {0}]
=============================================================================
