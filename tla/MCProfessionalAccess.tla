------------------------ MODULE MCProfessionalAccess ------------------------
(* Instances of ProfessionalAccess for TLC.                                *)
EXTENDS ProfessionalAccess, TLC

CONSTANTS w1, d1, d2, public_only, personal_only, voice

PublicOrAll == {{public_only}, {public_only, personal_only}}
=============================================================================
