----------------------------- MODULE ConfigStore -----------------------------
(***************************************************************************)
(* What external_url_config promises its readers (get_host, get_vcs_urls,  *)
(* is_valid) and the feature-override sink: a single published snapshot   *)
(* that is either absent or a configuration the loader accepted, replaced  *)
(* or removed all at once, with the sink carrying exactly its overrides.   *)
(***************************************************************************)
CONSTANTS AcceptedBodies, OverrideBodies, NoConfig, Defaults

VARIABLES published, overrides

Overrides(c) == IF c \in OverrideBodies THEN c ELSE Defaults

Init == published = NoConfig /\ overrides = Defaults

(* A new accepted snapshot replaces the old one with its overrides.       *)
Replace(c) ==
    /\ published' = c
    /\ overrides' = Overrides(c)

(* The snapshot is dropped and the overrides revert to defaults.          *)
Unpublish ==
    /\ published' = NoConfig
    /\ overrides' = Defaults

Next == (\E c \in AcceptedBodies : Replace(c)) \/ Unpublish

Spec == Init /\ [][Next]_<<published, overrides>>

=============================================================================
