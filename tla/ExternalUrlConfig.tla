-------------------------- MODULE ExternalUrlConfig --------------------------
(***************************************************************************)
(* The external URL configuration of the core process                      *)
(* (src/core/configuration/external_config.cpp, class external_url_config) *)
(*                                                                         *)
(* One process-wide object holds the published configuration snapshot      *)
(* config_ behind spin_lock_ and pushes the snapshot's feature/value       *)
(* overrides into the process-wide override sink (config::set_external /   *)
(* config::reset_external).  The snapshot is replaced by:                  *)
(*   - load_async: an HTTP GET whose completion lambda runs on a curl      *)
(*     worker thread, validates the body, swaps the snapshot, writes the   *)
(*     body to myteam-config.json, and posts the callback to the core      *)
(*     context queue;                                                      *)
(*   - load_from_file: a synchronous load of the develop file or of the    *)
(*     cached myteam-config.json;                                          *)
(* and removed by clear, which also deletes the cached file.               *)
(*                                                                         *)
(* The JSON document is abstracted to a body drawn from Bodies; which      *)
(* bodies parse as JSON, which the loader (config_p::unserialize) accepts, *)
(* and which carry at least one override are given by constant sets.  The  *)
(* process may be restarted: memory is lost, the files on disk survive.    *)
(***************************************************************************)
EXTENDS Naturals, Sequences, FiniteSets

CONSTANTS
    Bodies,        \* non-empty response bodies the server may send
    JsonBodies,    \* those that rapidjson parses
    AcceptedBodies,\* those config_p::unserialize accepts
    OverrideBodies,\* accepted bodies that carry at least one override
    Environments,  \* installations: [develop: environment::is_develop(),
                   \*  devFile: develop-myteam-config.json, never written]
    NoFile,        \* model value: a file that does not exist
    NoConfig,      \* model value: config_ holds no snapshot
    Defaults,      \* model value: override sink reset to defaults
    MaxRequests,   \* bound: load_async calls in one behaviour
    MaxInFlight,   \* bound: fetches in flight at once (caller discipline)
    MaxRestarts    \* bound: process restarts in one behaviour

ASSUME /\ JsonBodies \subseteq Bodies
       /\ AcceptedBodies \subseteq JsonBodies
       /\ OverrideBodies \subseteq AcceptedBodies
       /\ Environments \subseteq [develop: BOOLEAN, devFile: Bodies \cup {NoFile}]
       /\ {NoFile, NoConfig, Defaults} \cap Bodies = {}
       /\ MaxRequests \in Nat /\ MaxInFlight \in Nat /\ MaxRestarts \in Nat

VARIABLES
    config,      \* config_: NoConfig or the accepted body it was built from
    external,    \* override sink: Defaults or the body whose overrides are set
    file,        \* myteam-config.json on disk: NoFile or a body
    useDevelop,  \* use_develop_local_config_
    req,         \* req[r]: state of the r-th load_async call
    coreQueue,   \* tasks posted by execute_core_context, run in order
    restarts,    \* number of restarts so far
    env          \* the installation: fixed for the life of the model

vars == <<config, external, file, useDevelop, req, coreQueue, restarts, env>>

Ids == 1..MaxRequests

(* ext_url_config_error *)
Errors == {"ok", "config_host_invalid", "invalid_http_code", "empty_response",
           "answer_parse_error", "answer_not_enough_fields"}

(* What a completed transfer hands to the get_async lambda. *)
Responses == {"transport_failure", "http_not_200", "empty_body"} \cup Bodies

(* Life of one load_async call.  "idle": not yet called; "network": the   *)
(* GET is in flight; "saving": the snapshot was swapped and the body is   *)
(* about to be written; "posted": the callback task is queued on the core *)
(* context; "done": the callback ran; "lost": the process restarted.      *)
Phases == {"idle", "network", "saving", "posted", "done", "lost"}

Request == [pc: Phases, dev: BOOLEAN, body: Bodies \cup {NoFile},
            error: Errors \cup {"none"}]

Idle == [pc |-> "idle", dev |-> FALSE, body |-> NoFile, error |-> "none"]

TypeOK ==
    /\ config \in AcceptedBodies \cup {NoConfig}
    /\ external \in OverrideBodies \cup {Defaults}
    /\ file \in Bodies \cup {NoFile}
    /\ useDevelop \in BOOLEAN
    /\ req \in [Ids -> Request]
    /\ coreQueue \in Seq(Ids)
    /\ restarts \in 0..MaxRestarts
    /\ env \in Environments

(* external_url_config::is_valid: a snapshot is published.              *)
IsValid == config # NoConfig

InFlight == {r \in Ids : req[r].pc \in {"network", "saving"}}

-----------------------------------------------------------------------------
(* Mutant: an empty override set is installed instead of a reset.      *)
OverrideConfig_NoReset(body) == body

(* external_url_config::override_config: an empty override set resets the *)
(* sink to defaults instead of installing an empty external configuration.*)
OverrideConfig(body) == IF body \in OverrideBodies THEN body ELSE Defaults

(* external_url_config::unserialize after config_p::unserialize succeeded:*)
(* under spin_lock_, swap config_ and push its overrides.                 *)
Publish(body) ==
    /\ config' = body
    /\ external' = OverrideConfig(body)

(* fire_callback: post the user callback to the core context.            *)
FireCallback(r, err) ==
    /\ req' = [req EXCEPT ![r].pc = "posted", ![r].error = err]
    /\ coreQueue' = Append(coreQueue, r)

-----------------------------------------------------------------------------
Init ==
    /\ config = NoConfig
    /\ external = Defaults
    /\ file \in Bodies \cup {NoFile}
    /\ useDevelop = FALSE
    /\ req = [r \in Ids |-> Idle]
    /\ coreQueue = <<>>
    /\ restarts = 0
    /\ env \in Environments

(* load_async(url, callback): an empty url posts config_host_invalid at   *)
(* once; otherwise the GET is started and the lambda captures             *)
(* use_develop_local_config_ as it is now.                                *)
LoadAsync(r) ==
    /\ req[r].pc = "idle"
    /\ \A q \in Ids : q < r => req[q].pc # "idle"
    /\ Cardinality(InFlight) < MaxInFlight
    /\ \/ FireCallback(r, "config_host_invalid")
       \/ /\ req' = [req EXCEPT ![r].pc = "network", ![r].dev = useDevelop]
          /\ UNCHANGED coreQueue
    /\ UNCHANGED <<config, external, file, useDevelop, restarts, env>>

(* Mutant: the empty-body early return forgets to fire the callback.    *)
Complete_EmptyNoCallback(r) ==
    /\ req[r].pc = "network"
    /\ \E resp \in Responses :
        IF resp = "empty_body"
          THEN /\ req' = [req EXCEPT ![r].pc = "posted"]
               /\ UNCHANGED <<config, external, coreQueue>>
          ELSE CASE resp = "transport_failure" ->
                        FireCallback(r, "config_host_invalid") /\ UNCHANGED <<config, external>>
                 [] resp = "http_not_200" ->
                        FireCallback(r, "invalid_http_code") /\ UNCHANGED <<config, external>>
                 [] resp \notin JsonBodies ->
                        FireCallback(r, "answer_parse_error") /\ UNCHANGED <<config, external>>
                 [] ~req[r].dev /\ resp \notin AcceptedBodies ->
                        FireCallback(r, "answer_not_enough_fields") /\ UNCHANGED <<config, external>>
                 [] OTHER ->
                        /\ IF req[r].dev THEN UNCHANGED <<config, external>> ELSE Publish(resp)
                        /\ req' = [req EXCEPT ![r].pc = "saving", ![r].body = resp]
                        /\ UNCHANGED coreQueue
    /\ UNCHANGED <<file, useDevelop, restarts, env>>

(* Mutant: the unserialize check is dropped; any JSON body is published. *)
Complete_NoValidation(r) ==
    /\ req[r].pc = "network"
    /\ \E resp \in Responses :
        CASE resp = "transport_failure" ->
               FireCallback(r, "config_host_invalid") /\ UNCHANGED <<config, external>>
          [] resp = "http_not_200" ->
               FireCallback(r, "invalid_http_code") /\ UNCHANGED <<config, external>>
          [] resp = "empty_body" ->
               FireCallback(r, "empty_response") /\ UNCHANGED <<config, external>>
          [] resp \notin JsonBodies ->
               FireCallback(r, "answer_parse_error") /\ UNCHANGED <<config, external>>
          [] OTHER ->
               /\ IF req[r].dev THEN UNCHANGED <<config, external>> ELSE Publish(resp)
               /\ req' = [req EXCEPT ![r].pc = "saving", ![r].body = resp]
               /\ UNCHANGED coreQueue
    /\ UNCHANGED <<file, useDevelop, restarts, env>>

(* The get_async completion lambda up to the snapshot swap.  Every early  *)
(* return posts its error; a body that the lambda accepts is unserialized *)
(* into the store unless the develop file is in use.                      *)
Complete(r) ==
    /\ req[r].pc = "network"
    /\ \E resp \in Responses :
        CASE resp = "transport_failure" ->
               FireCallback(r, "config_host_invalid") /\ UNCHANGED <<config, external>>
          [] resp = "http_not_200" ->
               FireCallback(r, "invalid_http_code") /\ UNCHANGED <<config, external>>
          [] resp = "empty_body" ->
               FireCallback(r, "empty_response") /\ UNCHANGED <<config, external>>
          [] resp \notin JsonBodies ->
               FireCallback(r, "answer_parse_error") /\ UNCHANGED <<config, external>>
          [] ~req[r].dev /\ resp \notin AcceptedBodies ->
               FireCallback(r, "answer_not_enough_fields") /\ UNCHANGED <<config, external>>
          [] OTHER ->
               /\ IF req[r].dev THEN UNCHANGED <<config, external>> ELSE Publish(resp)
               /\ req' = [req EXCEPT ![r].pc = "saving", ![r].body = resp]
               /\ UNCHANGED coreQueue
    /\ UNCHANGED <<file, useDevelop, restarts, env>>

(* Mutant: ok is posted without save_2_file.                            *)
SaveFile_NoWrite(r) ==
    /\ req[r].pc = "saving"
    /\ FireCallback(r, "ok")
    /\ UNCHANGED <<file, config, external, useDevelop, restarts, env>>

(* The rest of the lambda: save_2_file(config_filename()), then post ok.  *)
SaveFile(r) ==
    /\ req[r].pc = "saving"
    /\ file' = req[r].body
    /\ FireCallback(r, "ok")
    /\ UNCHANGED <<config, external, useDevelop, restarts, env>>

(* The core context runs the oldest posted callback.                     *)
RunCallback ==
    /\ coreQueue # <<>>
    /\ req' = [req EXCEPT ![Head(coreQueue)].pc = "done"]
    /\ coreQueue' = Tail(coreQueue)
    /\ UNCHANGED <<config, external, file, useDevelop, restarts, env>>

(* external_url_config::clear: under spin_lock_, drop the snapshot, reset *)
(* the overrides and delete myteam-config.json.                           *)
Clear ==
    /\ config' = NoConfig
    /\ external' = Defaults
    /\ file' = NoFile
    /\ UNCHANGED <<useDevelop, req, coreQueue, restarts, env>>

(* external_url_config::load_from_file: the develop file wins when it     *)
(* exists in a develop environment; no fallback to the cached file when   *)
(* the chosen file fails to parse or validate.  It is the startup load:   *)
(* callers run it before any fetch of this process has completed.         *)
LoadFromFile ==
    LET dev    == env.develop /\ env.devFile # NoFile
        chosen == IF dev THEN env.devFile ELSE file
    IN  /\ \A r \in Ids : req[r].pc \in {"idle", "network", "lost"}
        /\ useDevelop' = dev
        /\ IF chosen \in AcceptedBodies
              THEN Publish(chosen)
              ELSE UNCHANGED <<config, external>>
        /\ UNCHANGED <<file, req, coreQueue, restarts, env>>

(* The process exits and starts again: the snapshot, the override sink,  *)
(* in-flight requests and queued callbacks are gone; the files stay.      *)
Restart ==
    /\ restarts < MaxRestarts
    /\ restarts' = restarts + 1
    /\ config' = NoConfig
    /\ external' = Defaults
    /\ useDevelop' = FALSE
    /\ req' = [r \in Ids |-> IF req[r].pc \in {"network", "saving", "posted"}
                               THEN [req[r] EXCEPT !.pc = "lost"] ELSE req[r]]
    /\ coreQueue' = <<>>
    /\ UNCHANGED <<file, env>>

Next ==
    \/ \E r \in Ids : LoadAsync(r) \/ Complete(r) \/ SaveFile(r)
    \/ RunCallback
    \/ Clear
    \/ LoadFromFile
    \/ Restart

(* The curl worker finishes every transfer (curl reports timeouts as a    *)
(* completion code) and the core context drains its queue.  Clear,        *)
(* LoadFromFile, LoadAsync and Restart are caller decisions: not fair.    *)
Fairness ==
    /\ \A r \in Ids : WF_vars(Complete(r)) /\ WF_vars(SaveFile(r))
    /\ WF_vars(RunCallback)

Spec == Init /\ [][Next]_vars /\ Fairness

-----------------------------------------------------------------------------
(***************************************************************************)
(* Properties                                                              *)
(***************************************************************************)

(* The published snapshot can be rebuilt from disk: whenever no fetch is  *)
(* between its snapshot swap (unserialize) and its save_2_file, and the   *)
(* develop file is not in use, the snapshot config_ holds is the body in  *)
(* myteam-config.json, so a restart followed by load_from_file publishes  *)
(* the same configuration (spec: the round-trip through the cache file).  *)
StoreRecoverable ==
    ( /\ \A r \in Ids : req[r].pc # "saving"
      /\ ~useDevelop
      /\ IsValid ) => file = config

(* Every load_async call that started delivers its callback: each early  *)
(* return of the lambda and the success path post exactly one task to the *)
(* core context, which runs it (unless the process restarts first).       *)
CallbackDelivered ==
    \A r \in Ids :
        req[r].pc \in {"network", "saving", "posted"} ~> req[r].pc \in {"done", "lost"}

(* The store implements the abstract ConfigStore: what readers see moves  *)
(* only between "nothing published" and a snapshot the loader accepted,   *)
(* and the override sink always carries exactly that snapshot's overrides *)
(* (defaults when it has none or when nothing is published).              *)
Store == INSTANCE ConfigStore WITH published <- config, overrides <- external

StoreRefinement == Store!Spec

=============================================================================
