------------------------------- MODULE Gateway -------------------------------
(***************************************************************************)
(* The gateway: POST /v1/session asks the license provider and signs a     *)
(* manifest, GET /v1/artifact checks the manifest and streams the jar from *)
(* the channel opened at start.  GatewayResource, SessionService,          *)
(* LicenseValidator, ArtifactCatalog and SigningKeys; the handlers are     *)
(* stateless, so requests only meet in the clock, the file and restarts.   *)
(*                                                                         *)
(* A request is known by its nonce.  SHA-256 and Ed25519 are perfect: the  *)
(* digest of some bytes is those bytes, and only Issue makes a manifest    *)
(* that verifies under its key.                                            *)
(***************************************************************************)
EXTENDS Integers, Sequences

CONSTANTS Nonces,
          Keys,         \* signing keys, each with its id
          Contents,     \* what the artifact file may hold: sequences of blocks
          SessionTtl,   \* loader.session.ttl-seconds
          GatewaySkew,  \* loader.session.clock-skew-seconds
          Nothing

Manifest == [nonce : Nonces, keyId : Keys, issuedAt : Int, expiresAt : Int,
             sha256 : Contents]

ASSUME GatewayAssumption ==
    /\ SessionTtl \in Nat \ {0} /\ GatewaySkew \in Nat
    /\ Nothing \notin Keys /\ Nothing \notin Nonces
    /\ Nothing \notin Int /\ Nothing \notin Manifest

VARIABLES
    time,        \* the gateway's clock
    key,         \* the signing key it was started with
    artifact,    \* the digest (and size) ArtifactCatalog.load computed
    open,        \* what its file channel reads
    disk,        \* what the configured path holds
    sameFile,    \* the channel still is the file at that path
    session,     \* POST handler of each request
    began,       \* the clock SessionService.issue read first
    acceptedAt,  \* history: when the license provider accepted
    reply,       \* HTTP status of the response to the POST
    signed,      \* and the manifest in it
    stream,      \* GET handler: number of blocks sent
    admitted     \* history: when downloadArtifact accepted the manifest

gatewayFile == <<artifact, open, disk, sameFile>>
gatewaySession == <<session, began, acceptedAt, reply, signed>>
gatewayStream == <<stream, admitted>>
gatewayVars == <<time, key, gatewayFile, gatewaySession, gatewayStream>>

Errors == {"badRequest", "forbidden", "notFound", "unavailable"}

GatewayInit ==
    /\ time = 0 /\ key \in Keys
    /\ disk \in Contents /\ artifact = disk /\ open = disk /\ sameFile = TRUE
    /\ session = [n \in Nonces |-> "none"] /\ began = [n \in Nonces |-> 0]
    /\ acceptedAt = [n \in Nonces |-> Nothing] /\ reply = [n \in Nonces |-> "none"]
    /\ signed = [n \in Nonces |-> Nothing]
    /\ stream = [n \in Nonces |-> Nothing] /\ admitted = [n \in Nonces |-> Nothing]
-----------------------------------------------------------------------------
(* createSession and SessionService.issue *)

InWindow(stamp) == stamp >= time - GatewaySkew /\ stamp <= time + GatewaySkew

\* The clock is read once, before the provider is asked.
ReceiveRequest(n, stamp) ==
    /\ session[n] = "none"
    /\ began' = [began EXCEPT ![n] = time]
    /\ IF InWindow(stamp)
         THEN session' = [session EXCEPT ![n] = "asking"] /\ UNCHANGED reply
         ELSE /\ session' = [session EXCEPT ![n] = "done"]
              /\ reply' = [reply EXCEPT ![n] = "badRequest"]
    /\ UNCHANGED <<time, key, gatewayFile, acceptedAt, signed, gatewayStream>>

\* {"valid": true}
ProviderAccepts(n) ==
    /\ session[n] = "asking"
    /\ session' = [session EXCEPT ![n] = "accepted"]
    /\ acceptedAt' = [acceptedAt EXCEPT ![n] = time]
    /\ UNCHANGED <<time, key, gatewayFile, began, reply, signed, gatewayStream>>

\* {"valid": false}, or another status, an oversized or malformed body, an
\* exception or a timeout.
ProviderRefuses(n) ==
    /\ session[n] = "asking"
    /\ session' = [session EXCEPT ![n] = "done"]
    /\ \E status \in {"forbidden", "unavailable"} : reply' = [reply EXCEPT ![n] = status]
    /\ UNCHANGED <<time, key, gatewayFile, began, acceptedAt, signed, gatewayStream>>

\* Mutant: the clock is read again when the manifest is made.
IssueLate(n, listed) ==
    /\ session[n] = "accepted" /\ listed
    /\ session' = [session EXCEPT ![n] = "done"] /\ reply' = [reply EXCEPT ![n] = "ok"]
    /\ signed' = [signed EXCEPT ![n] =
         [nonce |-> n, keyId |-> key, issuedAt |-> time,
          expiresAt |-> time + SessionTtl, sha256 |-> artifact]]
    /\ UNCHANGED <<time, key, gatewayFile, began, acceptedAt, gatewayStream>>

\* ArtifactCatalog.resolve finds the configured product and channel.
Issue(n, listed) ==
    /\ session[n] = "accepted" /\ listed
    /\ session' = [session EXCEPT ![n] = "done"] /\ reply' = [reply EXCEPT ![n] = "ok"]
    /\ signed' = [signed EXCEPT ![n] =
         [nonce |-> n, keyId |-> key, issuedAt |-> began[n],
          expiresAt |-> began[n] + SessionTtl, sha256 |-> artifact]]
    /\ UNCHANGED <<time, key, gatewayFile, began, acceptedAt, gatewayStream>>

\* The request asks for another product or channel.
NotFound(n, listed) ==
    /\ session[n] = "accepted" /\ ~listed
    /\ session' = [session EXCEPT ![n] = "done"]
    /\ reply' = [reply EXCEPT ![n] = "notFound"]
    /\ UNCHANGED <<time, key, gatewayFile, began, acceptedAt, signed, gatewayStream>>
-----------------------------------------------------------------------------
(* downloadArtifact *)

\* The manifest verifies under the current key, is in time, and names the
\* artifact that is loaded now.
Admits(m) ==
    /\ m.keyId = key /\ m.issuedAt <= time /\ m.expiresAt >= time
    /\ m.sha256 = artifact

Admit(n, m) ==
    /\ admitted[n] = Nothing /\ Admits(m)
    /\ stream' = [stream EXCEPT ![n] = 0]
    /\ admitted' = [admitted EXCEPT ![n] = time]
    /\ UNCHANGED <<time, key, gatewayFile, gatewaySession>>

\* Artifact.writeTo reads the channel block by block, up to the size known
\* since the load.
SendBlock(n) ==
    /\ stream[n] # Nothing /\ stream[n] < Len(artifact) /\ stream[n] < Len(open)
    /\ stream' = [stream EXCEPT ![n] = @ + 1]
    /\ UNCHANGED <<time, key, gatewayFile, gatewaySession, admitted>>

\* "artifact changed while streaming"
Truncated(n) ==
    /\ stream[n] # Nothing /\ stream[n] < Len(artifact) /\ stream[n] >= Len(open)
-----------------------------------------------------------------------------
(* The operator *)

\* Restart with the key and the file that are configured now; the requests in
\* progress die with the process.
Restart ==
    /\ key' \in Keys
    /\ artifact' = disk /\ open' = disk /\ sameFile' = TRUE
    /\ session' = [n \in Nonces |-> IF session[n] = "none" THEN "none" ELSE "done"]
    /\ stream' = [n \in Nonces |-> Nothing]
    /\ UNCHANGED <<time, disk, began, acceptedAt, reply, signed, admitted>>

\* A new version is renamed over the artifact: the channel keeps the old file.
Replace ==
    /\ disk' \in Contents \ {disk} /\ sameFile' = FALSE
    /\ UNCHANGED <<time, key, artifact, open, gatewaySession, gatewayStream>>

\* The file is written in place: the channel sees the new bytes.
Overwrite ==
    /\ disk' \in Contents \ {disk}
    /\ open' = IF sameFile THEN disk' ELSE open
    /\ UNCHANGED <<time, key, artifact, sameFile, gatewaySession, gatewayStream>>
=============================================================================
