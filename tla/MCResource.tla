----------------------------- MODULE MCResource -----------------------------
(* TLC instance of Resource: the core group and one named group, two       *)
(* versions, two kinds.  A description may omit the group or the version, *)
(* name the view group with any version, or have an empty Kind.           *)
EXTENDS Resource

MCGroups == {"", "apps"}
MCVersions == {"v1", "v2"}
MCKinds == {"Deployment", "Pod"}
=============================================================================
