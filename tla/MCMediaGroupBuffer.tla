-------------------------- MODULE MCMediaGroupBuffer --------------------------
(***************************************************************************)
(* Instances of MediaGroupBuffer for TLC: one album of two photos.          *)
(***************************************************************************)
EXTENDS MediaGroupBuffer

CONSTANTS w1, w2, p1, p2, album

OneAlbum == [p \in Photos |-> album]
=============================================================================
