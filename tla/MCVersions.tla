----------------------------- MODULE MCVersions -----------------------------
(* Model-checking instance of the version registry: ids 0..4 (MaxVersion *)
(* 4), and a cap of castle_version_add calls small enough that the cap is *)
(* reached.                                                                *)
EXTENDS Versions

MCMaxVersion == 4
MCVersionCap == 4

=============================================================================
