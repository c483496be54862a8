------------------------- MODULE MC_ExternalUrlConfig -------------------------
(***************************************************************************)
(* Four response bodies.  Three are JSON documents whose fate is decided   *)
(* by the loader module (ConfigLoader): a minimal valid document, the      *)
(* same with two feature members, and one without api-urls.  The fourth is *)
(* not JSON.  The store's constant sets are computed from the loader.      *)
(***************************************************************************)
EXTENDS ExternalUrlConfig, TLC

CONSTANTS bFull, bNoOverrides, bMissingFields, bNotJson

Loader == INSTANCE ConfigLoader WITH UpdateFromBackend <- FALSE, PlatformKey <- "linux_x64"

H == Loader!JStr(<<"h">>)

MinimalDoc ==
    "api-urls" :> Loader!JObj("main-api" :> H @@ "main-binary-api" :> H)
    @@ "templates-urls" :> Loader!JObj("files-parsing" :> H @@ "stickerpack-sharing" :> H
                                       @@ "profile" :> H)

(* The JSON document each JSON body parses to.                           *)
DocOf == bFull :> (MinimalDoc @@ "threads-enabled" :> Loader!JBool(TRUE)
                              @@ "snippets-enabled" :> Loader!JBool(FALSE))
         @@ bNoOverrides :> MinimalDoc
         @@ bMissingFields :> [n \in {"templates-urls"} |-> MinimalDoc[n]]

(* The store's constant sets, listed so that TLC evaluates them once;    *)
(* the ASSUME checks at startup that they are what the loader decides.   *)
MCBodies          == {bFull, bNoOverrides, bMissingFields, bNotJson}
MCJsonBodies      == {bFull, bNoOverrides, bMissingFields}
MCAcceptedBodies  == {bFull, bNoOverrides}
MCOverrideBodies  == {bFull}

ASSUME /\ MCJsonBodies = DOMAIN DocOf
       /\ MCAcceptedBodies = {b \in MCJsonBodies : Loader!Accepts(DocOf[b])}
       /\ MCOverrideBodies = {b \in MCAcceptedBodies :
                                LET r == Loader!Unserialize(DocOf[b])
                                IN  r.features # <<>> \/ r.values # <<>>}

(* A production installation, and a develop one whose develop file is a  *)
(* JSON document that config_p::unserialize rejects.                      *)
MCProduction == [develop |-> FALSE, devFile |-> NoFile]
MCDevelop == [develop |-> TRUE, devFile |-> bMissingFields]
MCEnvironments == {MCProduction, MCDevelop}
MCProductionOnly == {MCProduction}
=============================================================================
