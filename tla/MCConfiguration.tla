--------------------------- MODULE MCConfiguration --------------------------
(* An instance of Configuration for TLC.                                     *)
EXTENDS Configuration, ConfigurationTexts
=============================================================================
