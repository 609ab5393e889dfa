--------------------------- MODULE MCImageScan ---------------------------
(* An application on a library on a base, and the library alone on another
   base: the library is the top layer of one content and not of the other, and
   has another parent in each.  A third content has a layer twice. *)
EXTENDS ImageScan, TLC

CONSTANTS full, lean, twice, app, lib, base, slim

MCContent == {full, lean, twice}
MCBlob == {app, lib, base, slim}
MCLayersOf == full :> <<app, lib, base>> @@ lean :> <<lib, slim>>
              @@ twice :> <<lib, slim, lib>>
\* The first two contents alone.
MCPlainContent == {full, lean}
MCPlainLayersOf == full :> <<app, lib, base>> @@ lean :> <<lib, slim>>
\* The first two again, of one layer each.
MCOneLayerOf == full :> <<lib>> @@ lean :> <<slim>>

MCSymmetry == Permutations(Scan)
==========================================================================
