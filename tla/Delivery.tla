------------------------------ MODULE Delivery ------------------------------
(***************************************************************************)
(* rymga_loader_acquire against the gateway: one POST for a manifest, the  *)
(* checks on it, one GET for the artifact, the checks on the bytes.  Each  *)
(* acquire draws a fresh nonce and is known by it.  What the download does *)
(* to the disk is RuntimeDirectory's subject.                              *)
(*                                                                         *)
(* Clocks do not drift: a client's clock differs from the gateway's by a   *)
(* constant.  curl ends a transfer at its timeout, so time does not pass a *)
(* deadline that is due.                                                   *)
(***************************************************************************)
EXTENDS Gateway

CONSTANTS Trusted,      \* key ids the client was built with
          ClientSkew,   \* CLOCK_SKEW_SECONDS
          Timeout,      \* timeout_seconds, of each transfer
          Offsets,      \* client clock minus gateway clock
          MaxTime       \* bound on the clock: no acquire starts too late to end

ASSUME DeliveryAssumption ==
    /\ Trusted \subseteq Keys /\ ClientSkew \in Nat /\ Timeout \in Nat \ {0}
    /\ Offsets \subseteq Int /\ MaxTime \in Nat

VARIABLES
    at,         \* where an acquire is
    offset,     \* its machine's clock minus the gateway's
    stamp,      \* timestamp of its request
    listed,     \* whether it asks for the configured product and channel
    deadline,   \* when curl gives up on the transfer
    manifest,   \* the manifest it received
    got,        \* blocks of the artifact received so far
    result      \* rymga_loader_result

clientVars == <<at, offset, stamp, listed, deadline, manifest, got, result>>
vars == <<gatewayVars, clientVars>>

Results == {"none", "ok", "network", "denied", "protocol", "signature", "integrity"}

TypeOK ==
    /\ time \in 0..MaxTime /\ key \in Keys
    /\ {artifact, open, disk} \subseteq Contents /\ sameFile \in BOOLEAN
    /\ session \in [Nonces -> {"none", "asking", "accepted", "done"}]
    /\ \A n \in Nonces :
         /\ reply[n] \in Errors \cup {"none", "ok"}
         /\ IF reply[n] = "ok" THEN signed[n] \in Manifest ELSE signed[n] = Nothing
         /\ manifest[n] = Nothing \/ manifest[n] \in Manifest
         /\ stream[n] = Nothing \/ stream[n] \in 0..Len(artifact)
         /\ at[n] = "fetching" /\ stream[n] # Nothing => Len(got[n]) = stream[n]
    /\ at \in [Nonces -> {"idle", "posted", "fetching", "returned"}]
    /\ result \in [Nonces -> Results]
    /\ \A n \in Nonces : at[n] = "returned" <=> result[n] # "none"

Init ==
    /\ GatewayInit
    /\ at = [n \in Nonces |-> "idle"] /\ offset \in [Nonces -> Offsets]
    /\ stamp = [n \in Nonces |-> 0] /\ listed = [n \in Nonces |-> FALSE]
    /\ deadline = [n \in Nonces |-> 0] /\ manifest = [n \in Nonces |-> Nothing]
    /\ got = [n \in Nonces |-> <<>>] /\ result = [n \in Nonces |-> "none"]

Clock(n) == time + offset[n]

Return(n, code) ==
    /\ at' = [at EXCEPT ![n] = "returned"] /\ result' = [result EXCEPT ![n] = code]
-----------------------------------------------------------------------------
\* encode_request and the POST.
Post(n) ==
    /\ at[n] = "idle" /\ time + 2 * Timeout <= MaxTime
    /\ at' = [at EXCEPT ![n] = "posted"]
    /\ stamp' = [stamp EXCEPT ![n] = Clock(n)]
    /\ \E b \in BOOLEAN : listed' = [listed EXCEPT ![n] = b]
    /\ deadline' = [deadline EXCEPT ![n] = time + Timeout]
    /\ UNCHANGED <<gatewayVars, offset, manifest, got, result>>

\* perform: 401 and 403 are a denial, every other error is a network error.
Refused(n) ==
    /\ at[n] = "posted" /\ reply[n] \in Errors
    /\ Return(n, IF reply[n] = "forbidden" THEN "denied" ELSE "network")
    /\ UNCHANGED <<gatewayVars, offset, stamp, listed, deadline, manifest, got>>

\* Mutant: the client's clock must agree exactly.
InTimeWithoutSkew(n, m) == m.issuedAt <= Clock(n) /\ Clock(n) <= m.expiresAt

InTime(n, m) ==
    /\ m.issuedAt > Clock(n) => m.issuedAt - Clock(n) <= ClientSkew
    /\ Clock(n) > m.expiresAt => Clock(n) - m.expiresAt <= ClientSkew

\* A response with a manifest, also one that a cache or proxy kept from
\* another request: nonce first, then key, time window and signature.
Verify(n, q) ==
    /\ at[n] = "posted" /\ reply[q] = "ok"
    /\ LET m == signed[q] IN
         /\ manifest' = [manifest EXCEPT ![n] = m]
         /\ CASE m.nonce # n -> Return(n, "protocol") /\ UNCHANGED deadline
              [] m.nonce = n /\ ~(m.keyId \in Trusted /\ InTime(n, m)) ->
                   Return(n, "signature") /\ UNCHANGED deadline
              [] OTHER -> /\ at' = [at EXCEPT ![n] = "fetching"]
                          /\ deadline' = [deadline EXCEPT ![n] = time + Timeout]
                          /\ UNCHANGED result
    /\ UNCHANGED <<gatewayVars, offset, stamp, listed, got>>

\* The GET with the manifest is refused, or its stream breaks off.
Broken(n) ==
    /\ at[n] = "fetching"
    /\ (admitted[n] = Nothing /\ ~Admits(manifest[n])) \/ Truncated(n)
    /\ Return(n, "integrity")
    /\ UNCHANGED <<gatewayVars, offset, stamp, listed, deadline, manifest, got>>

\* receive_file
Block(n) ==
    /\ at[n] = "fetching" /\ SendBlock(n)
    /\ got' = [got EXCEPT ![n] = Append(@, open[stream[n] + 1])]
    /\ UNCHANGED <<at, offset, stamp, listed, deadline, manifest, result>>

\* Mutant: only the size is compared.
CompleteBySize(n) ==
    /\ at[n] = "fetching" /\ stream[n] = Len(artifact)
    /\ Return(n, IF Len(got[n]) = Len(manifest[n].sha256) THEN "ok" ELSE "integrity")
    /\ UNCHANGED <<gatewayVars, offset, stamp, listed, deadline, manifest, got>>

\* The transfer is over: size and digest against the manifest.
Complete(n) ==
    /\ at[n] = "fetching" /\ stream[n] = Len(artifact)
    /\ Return(n, IF got[n] = manifest[n].sha256 THEN "ok" ELSE "integrity")
    /\ UNCHANGED <<gatewayVars, offset, stamp, listed, deadline, manifest, got>>

\* Mutant: the GET has no timeout.
DropPostOnly(n) ==
    /\ at[n] = "posted" /\ Return(n, "network")
    /\ UNCHANGED <<gatewayVars, offset, stamp, listed, deadline, manifest, got>>

\* A lost connection: a network error of the POST, an integrity error of the GET.
Drop(n) ==
    /\ at[n] \in {"posted", "fetching"}
    /\ Return(n, IF at[n] = "posted" THEN "network" ELSE "integrity")
    /\ UNCHANGED <<gatewayVars, offset, stamp, listed, deadline, manifest, got>>

Tick ==
    /\ time < MaxTime /\ time' = time + 1
    /\ \A n \in Nonces : at[n] \in {"posted", "fetching"} => time < deadline[n]
    /\ UNCHANGED <<key, gatewayFile, gatewaySession, gatewayStream, clientVars>>

\* The gateway's steps for a request that was sent; the client need not wait
\* any more for its POST handler to run on.
Serve(n) ==
    /\ at[n] # "idle"
    /\ \/ ReceiveRequest(n, stamp[n]) \/ ProviderAccepts(n) \/ ProviderRefuses(n)
       \/ Issue(n, listed[n]) \/ NotFound(n, listed[n])
       \/ at[n] = "fetching" /\ Admit(n, manifest[n])
    /\ UNCHANGED clientVars

Operate == (Restart \/ Replace \/ Overwrite) /\ UNCHANGED clientVars

Acquire(n) ==
    \/ Post(n) \/ Refused(n) \/ (\E q \in Nonces : Verify(n, q))
    \/ Broken(n) \/ Block(n) \/ Complete(n) \/ Drop(n)

Next == (\E n \in Nonces : Acquire(n) \/ Serve(n)) \/ Operate \/ Tick

Expire(n) == time >= deadline[n] /\ Drop(n)

\* Time goes on, and curl ends a transfer whose timeout has passed.  Nothing
\* is assumed of the gateway, the provider or the network.
Fairness == WF_vars(Tick) /\ \A n \in Nonces : WF_vars(Expire(n))

Spec == Init /\ [][Next]_vars /\ Fairness
-----------------------------------------------------------------------------
(* Properties *)

\* ARCHITECTURE.md steps 4 to 7: what rymga_loader_acquire returns as OK is,
\* byte for byte, what the gateway signed for this very request under a trusted
\* key, whatever happened to the file, the key or the gateway in between.
DeliveredIsSigned ==
    \A n \in Nonces : result[n] = "ok" =>
        /\ signed[n] # Nothing /\ manifest[n] = signed[n]
        /\ got[n] = signed[n].sha256 /\ signed[n].keyId \in Trusted

\* ARCHITECTURE.md: a failed license or an unavailable provider fails closed, and
\* PROTOCOL.md: a short TTL limits replay.  A download is admitted only if the provider
\* said yes to this very request, and for at most the TTL after that answer, however
\* slow the provider was: SessionService.issue reads the clock before it asks.
GrantIsShort ==
    \A n \in Nonces : admitted[n] # Nothing =>
        acceptedAt[n] # Nothing /\ admitted[n] <= acceptedAt[n] + SessionTtl

\* A request whose timestamp the gateway let pass is not turned down by the
\* client over the time: the two windows fit together as long as the gateway's
\* skew is not wider than the client's and a transfer not longer than the TTL.
WindowsAgree ==
    (GatewaySkew <= ClientSkew /\ Timeout <= SessionTtl) =>
        \A n \in Nonces : result[n] = "signature" => manifest[n].keyId \notin Trusted

\* rymga_loader_acquire returns, whatever the gateway and the provider do.
AcquireReturns == \A n \in Nonces : at[n] = "posted" ~> at[n] = "returned"
=============================================================================
