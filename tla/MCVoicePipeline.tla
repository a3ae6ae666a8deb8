-------------------------- MODULE MCVoicePipeline --------------------------
(* Instances of VoicePipeline for TLC.                                     *)
EXTENDS VoicePipeline
=============================================================================
