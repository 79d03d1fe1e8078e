----------------------------- MODULE MCImageFile -----------------------------
(* ImageFile with two writers that commit more than once each.                *)
EXTENDS ImageFile
=============================================================================
