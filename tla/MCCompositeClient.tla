------------------------- MODULE MCCompositeClient -------------------------
(* TLC instance of CompositeClient: the view group, a served native group  *)
(* and the group of a CRD that is not installed; the kind "view" that      *)
(* DeleteAllOf lists and one other kind; one name; two contents.           *)
EXTENDS CompositeClient

MCGroups == {"view", "apps", "crd"}
MCKinds == {"view", "Dep"}
MCPatchTypes == {"json", "merge", "strategic"}
=============================================================================
