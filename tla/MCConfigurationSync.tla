------------------------ MODULE MCConfigurationSync ------------------------
(***************************************************************************)
(* Two revisions, so that an older one may be applied after a newer one,   *)
(* and two deliveries, so that one of an event is a second.                *)
(***************************************************************************)
EXTENDS ConfigurationSync
=============================================================================
