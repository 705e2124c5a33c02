----------------------------- MODULE MCPamAuth -----------------------------
(* Instances of PamAuth: a password and one or two devices.                *)
EXTENDS PamAuth, TLC

CONSTANTS pw, fp, face

priorities == pw :> 8 @@ fp :> 5
threePriorities == pw :> 8 @@ fp :> 5 @@ face :> 3
anyOrder == {<<pw, fp>>, <<fp, pw>>}
worstOrder == {<<face, fp, pw>>}
=============================================================================
