------------------------- MODULE MCCollectionControl -------------------------
(***************************************************************************)
(* Instances of CollectionControl for TLC.                                 *)
(***************************************************************************)
EXTENDS CollectionControl
=============================================================================
