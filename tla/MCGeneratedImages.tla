------------------------- MODULE MCGeneratedImages --------------------------
(***************************************************************************)
(* The instance of GeneratedImages that TLC checks.                        *)
(***************************************************************************)
EXTENDS GeneratedImages
=============================================================================
