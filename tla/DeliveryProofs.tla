--------------------------- MODULE DeliveryProofs ---------------------------
(***************************************************************************)
(* The safety properties of Delivery for every set of requests, keys and   *)
(* contents, every offset between the clocks and every setting of TTL,     *)
(* timeout and skews.  What the client may conclude from a manifest rests  *)
(* on what the gateway did before it signed it: GatewayKnows says what is  *)
(* settled about a request by the step its handler has reached, and        *)
(* ClientKnows what the acquire that made the request may rely on.         *)
(***************************************************************************)
EXTENDS Delivery, TLAPS

\* The variables have their types.
Types ==
    /\ time \in Nat /\ key \in Keys /\ artifact \in Contents /\ disk \in Contents
    /\ session \in [Nonces -> {"none", "asking", "accepted", "done"}]
    /\ reply \in [Nonces -> Errors \cup {"none", "ok"}]
    /\ began \in [Nonces -> Nat]
    /\ acceptedAt \in [Nonces -> Nat \cup {Nothing}]
    /\ signed \in [Nonces -> Manifest \cup {Nothing}]
    /\ admitted \in [Nonces -> Nat \cup {Nothing}]
    /\ at \in [Nonces -> {"idle", "posted", "fetching", "returned"}]
    /\ result \in [Nonces -> Results]
    /\ offset \in [Nonces -> Int] /\ stamp \in [Nonces -> Int] /\ deadline \in [Nonces -> Int]
    /\ manifest \in [Nonces -> Manifest \cup {Nothing}]
    /\ DOMAIN got = Nonces

\* The request's time stamp passed the gateway's window when its handler began.
Stamped(n) == stamp[n] - began[n] <= GatewaySkew /\ began[n] - stamp[n] <= GatewaySkew

\* A manifest is signed last, once, for the request it answers, after the provider
\* has accepted it; its times are those of the request.
GatewayKnows(n) ==
    /\ session[n] # "done" => reply[n] = "none" /\ signed[n] = Nothing
    /\ reply[n] = "ok" <=> signed[n] # Nothing
    /\ session[n] = "asking" => began[n] <= time /\ Stamped(n)
    /\ session[n] = "accepted" \/ signed[n] # Nothing =>
         /\ acceptedAt[n] # Nothing /\ began[n] <= acceptedAt[n] /\ Stamped(n)
    /\ signed[n] # Nothing =>
         /\ signed[n].nonce = n /\ signed[n].issuedAt = began[n]
         /\ signed[n].expiresAt = began[n] + SessionTtl
    /\ admitted[n] # Nothing =>
         signed[n] # Nothing /\ admitted[n] <= acceptedAt[n] + SessionTtl

\* The two sides' windows fit together.
Compatible == GatewaySkew <= ClientSkew /\ Timeout <= SessionTtl

\* The request was stamped when it was posted, and its POST is not overdue; from the
\* checks on, the manifest is the one signed for this request under a trusted key.
ClientKnows(n) ==
    /\ at[n] = "idle" => session[n] = "none"
    /\ at[n] = "posted" => /\ deadline[n] - Timeout <= time /\ time <= deadline[n]
                           /\ stamp[n] = deadline[n] - Timeout + offset[n]
    /\ at[n] # "returned" => result[n] = "none"
    /\ at[n] = "fetching" \/ result[n] = "ok" =>
         /\ signed[n] # Nothing /\ manifest[n] = signed[n] /\ signed[n].keyId \in Trusted
    /\ result[n] = "ok" => got[n] = signed[n].sha256
    /\ result[n] = "signature" /\ Compatible => manifest[n].keyId \notin Trusted

IInv == Types /\ \A n \in Nonces : GatewayKnows(n) /\ ClientKnows(n)

\* All that is known of a request, on both sides.
Row(n) ==
    <<session[n], began[n], acceptedAt[n], reply[n], signed[n], admitted[n],
      at[n], offset[n], stamp[n], deadline[n], manifest[n], got[n], result[n]>>

\* What is known of a request stays known in a step that leaves the request alone.
LEMMA RowKeeps ==
    ASSUME NEW n \in Nonces, GatewayKnows(n), ClientKnows(n), Row(n)' = Row(n), time' = time
    PROVE  GatewayKnows(n)' /\ ClientKnows(n)'
  BY DEF Row, GatewayKnows, ClientKnows, Stamped

\* To keep IInv, a step of one request keeps the types, leaves the other
\* requests and the clock alone, and settles what it knows of its own.
LEMMA OneRequest ==
    ASSUME IInv, NEW n \in Nonces, Types', time' = time,
           \A m \in Nonces \ {n} : Row(m)' = Row(m),
           GatewayKnows(n)', ClientKnows(n)'
    PROVE  IInv'
  <1> SUFFICES ASSUME NEW m \in Nonces PROVE GatewayKnows(m)' /\ ClientKnows(m)'
    BY DEF IInv
  <1>1. CASE m = n
    BY <1>1
  <1>2. CASE m # n
    BY <1>2, RowKeeps DEF IInv
  <1> QED
    BY <1>1, <1>2

\* createSession turns a request away or begins it with its stamp in the window.
LEMMA ReceiveRequestKeeps ==
    ASSUME IInv, NEW n \in Nonces, at[n] # "idle", ReceiveRequest(n, stamp[n]), UNCHANGED clientVars
    PROVE  IInv'
  <1>1. Types'
    BY GatewayAssumption DEF ReceiveRequest, InWindow, gatewayFile, gatewayStream, clientVars, IInv, Types, Errors, Results, Manifest
  <1>2. time' = time /\ \A m \in Nonces \ {n} : Row(m)' = Row(m)
    BY DEF ReceiveRequest, InWindow, gatewayFile, gatewayStream, clientVars, IInv, Types, Row
  <1>3. GatewayKnows(n)'
    BY GatewayAssumption DEF ReceiveRequest, InWindow, gatewayFile, gatewayStream, clientVars, IInv, Types, GatewayKnows, ClientKnows, Stamped, Errors
  <1>4. ClientKnows(n)'
    BY GatewayAssumption, DeliveryAssumption DEF ReceiveRequest, InWindow, gatewayFile, gatewayStream, clientVars, IInv, Types, GatewayKnows, ClientKnows
  <1> QED
    BY <1>1, <1>2, <1>3, <1>4, OneRequest

\* The provider's yes comes no earlier than the time that was read first.
LEMMA ProviderAcceptsKeeps ==
    ASSUME IInv, NEW n \in Nonces, ProviderAccepts(n), UNCHANGED clientVars
    PROVE  IInv'
  <1>1. Types'
    BY GatewayAssumption DEF ProviderAccepts, gatewayFile, gatewayStream, clientVars, IInv, Types, Errors, Results, Manifest
  <1>2. time' = time /\ \A m \in Nonces \ {n} : Row(m)' = Row(m)
    BY DEF ProviderAccepts, gatewayFile, gatewayStream, clientVars, IInv, Types, Row
  <1>3. GatewayKnows(n)'
    BY GatewayAssumption DEF ProviderAccepts, gatewayFile, gatewayStream, clientVars, IInv, Types, GatewayKnows, ClientKnows, Stamped, Errors
  <1>4. ClientKnows(n)'
    BY GatewayAssumption, DeliveryAssumption DEF ProviderAccepts, gatewayFile, gatewayStream, clientVars, IInv, Types, GatewayKnows, ClientKnows
  <1> QED
    BY <1>1, <1>2, <1>3, <1>4, OneRequest

\* A refusal ends the request.
LEMMA ProviderRefusesKeeps ==
    ASSUME IInv, NEW n \in Nonces, ProviderRefuses(n), UNCHANGED clientVars
    PROVE  IInv'
  <1>1. Types'
    BY GatewayAssumption DEF ProviderRefuses, gatewayFile, gatewayStream, clientVars, IInv, Types, Errors, Results, Manifest
  <1>2. time' = time /\ \A m \in Nonces \ {n} : Row(m)' = Row(m)
    BY DEF ProviderRefuses, gatewayFile, gatewayStream, clientVars, IInv, Types, Row
  <1>3. GatewayKnows(n)'
    BY GatewayAssumption DEF ProviderRefuses, gatewayFile, gatewayStream, clientVars, IInv, Types, GatewayKnows, ClientKnows, Stamped, Errors
  <1>4. ClientKnows(n)'
    BY GatewayAssumption, DeliveryAssumption DEF ProviderRefuses, gatewayFile, gatewayStream, clientVars, IInv, Types, GatewayKnows, ClientKnows
  <1> QED
    BY <1>1, <1>2, <1>3, <1>4, OneRequest

\* The manifest is made from the request and the time read first.
LEMMA IssueKeeps ==
    ASSUME IInv, NEW n \in Nonces, Issue(n, listed[n]), UNCHANGED clientVars
    PROVE  IInv'
  <1> DEFINE m == [nonce |-> n, keyId |-> key, issuedAt |-> began[n],
                   expiresAt |-> began[n] + SessionTtl, sha256 |-> artifact]
  <1>1. m \in Manifest
    BY GatewayAssumption DEF IInv, Types, Manifest
  <1>2. m # Nothing /\ m.nonce = n /\ m.issuedAt = began[n] /\ m.expiresAt = began[n] + SessionTtl
    BY <1>1, GatewayAssumption
  <1>3. /\ session[n] = "accepted" /\ session' = [session EXCEPT ![n] = "done"]
        /\ reply' = [reply EXCEPT ![n] = "ok"] /\ signed' = [signed EXCEPT ![n] = m]
        /\ UNCHANGED <<time, key, gatewayFile, began, acceptedAt, gatewayStream>>
    BY DEF Issue
  <1> HIDE DEF m
  <1>4. Types'
    BY <1>1, <1>3 DEF gatewayFile, gatewayStream, clientVars, IInv, Types, Errors
  <1>5. time' = time /\ \A q \in Nonces \ {n} : Row(q)' = Row(q)
    BY <1>3 DEF gatewayFile, gatewayStream, clientVars, IInv, Types, Row
  <1>6. GatewayKnows(n)'
    BY <1>2, <1>3, GatewayAssumption DEF gatewayStream, clientVars, IInv, Types, GatewayKnows, Stamped
  <1>7. ClientKnows(n)'
    BY <1>3 DEF gatewayStream, clientVars, IInv, Types, GatewayKnows, ClientKnows
  <1> QED
    BY <1>4, <1>5, <1>6, <1>7, OneRequest

\* A request for another product ends.
LEMMA NotFoundKeeps ==
    ASSUME IInv, NEW n \in Nonces, NotFound(n, listed[n]), UNCHANGED clientVars
    PROVE  IInv'
  <1>1. Types'
    BY GatewayAssumption DEF NotFound, gatewayFile, gatewayStream, clientVars, IInv, Types, Errors, Results, Manifest
  <1>2. time' = time /\ \A m \in Nonces \ {n} : Row(m)' = Row(m)
    BY DEF NotFound, gatewayFile, gatewayStream, clientVars, IInv, Types, Row
  <1>3. GatewayKnows(n)'
    BY GatewayAssumption DEF NotFound, gatewayFile, gatewayStream, clientVars, IInv, Types, GatewayKnows, ClientKnows, Stamped, Errors
  <1>4. ClientKnows(n)'
    BY GatewayAssumption, DeliveryAssumption DEF NotFound, gatewayFile, gatewayStream, clientVars, IInv, Types, GatewayKnows, ClientKnows
  <1> QED
    BY <1>1, <1>2, <1>3, <1>4, OneRequest

\* The GET is admitted while the manifest has not expired.
LEMMA AdmitKeeps ==
    ASSUME IInv, NEW n \in Nonces, at[n] = "fetching", Admit(n, manifest[n]), UNCHANGED clientVars
    PROVE  IInv'
  <1>1. Types'
    BY GatewayAssumption DEF Admit, Admits, gatewayFile, gatewaySession, clientVars, IInv, Types, Errors, Results, Manifest
  <1>2. time' = time /\ \A m \in Nonces \ {n} : Row(m)' = Row(m)
    BY DEF Admit, Admits, gatewayFile, gatewaySession, clientVars, IInv, Types, Row
  <1>3. GatewayKnows(n)'
    BY GatewayAssumption DEF Admit, Admits, gatewayFile, gatewaySession, clientVars, IInv, Types, GatewayKnows, ClientKnows, Stamped, Errors
  <1>4. ClientKnows(n)'
    BY GatewayAssumption, DeliveryAssumption DEF Admit, Admits, gatewayFile, gatewaySession, clientVars, IInv, Types, GatewayKnows, ClientKnows
  <1> QED
    BY <1>1, <1>2, <1>3, <1>4, OneRequest

\* The POST starts the transfer with the client's clock as the stamp.
LEMMA PostKeeps ==
    ASSUME IInv, NEW n \in Nonces, Post(n)
    PROVE  IInv'
  <1>1. Types'
    BY GatewayAssumption, DeliveryAssumption DEF Post, Clock, gatewayVars, gatewayFile, gatewaySession, gatewayStream, IInv, Types, Errors, Results, Manifest
  <1>2. time' = time /\ \A m \in Nonces \ {n} : Row(m)' = Row(m)
    BY DEF Post, Clock, gatewayVars, gatewayFile, gatewaySession, gatewayStream, IInv, Types, Row
  <1>3. GatewayKnows(n)'
    BY GatewayAssumption, DeliveryAssumption DEF Post, Clock, gatewayVars, gatewayFile, gatewaySession, gatewayStream, IInv, Types, GatewayKnows, ClientKnows, Stamped, Errors
  <1>4. ClientKnows(n)'
    BY GatewayAssumption, DeliveryAssumption DEF Post, Clock, gatewayVars, gatewayFile, gatewaySession, gatewayStream, IInv, Types, GatewayKnows, ClientKnows
  <1> QED
    BY <1>1, <1>2, <1>3, <1>4, OneRequest

\* An error status ends the acquire.
LEMMA RefusedKeeps ==
    ASSUME IInv, NEW n \in Nonces, Refused(n)
    PROVE  IInv'
  <1>1. Types'
    BY GatewayAssumption DEF Refused, Return, gatewayVars, gatewayFile, gatewaySession, gatewayStream, IInv, Types, Errors, Results, Manifest
  <1>2. time' = time /\ \A m \in Nonces \ {n} : Row(m)' = Row(m)
    BY DEF Refused, Return, gatewayVars, gatewayFile, gatewaySession, gatewayStream, IInv, Types, Row
  <1>3. GatewayKnows(n)'
    BY GatewayAssumption DEF Refused, Return, gatewayVars, gatewayFile, gatewaySession, gatewayStream, IInv, Types, GatewayKnows, ClientKnows, Stamped, Errors
  <1>4. ClientKnows(n)'
    BY GatewayAssumption, DeliveryAssumption DEF Refused, Return, gatewayVars, gatewayFile, gatewaySession, gatewayStream, IInv, Types, GatewayKnows, ClientKnows
  <1> QED
    BY <1>1, <1>2, <1>3, <1>4, OneRequest

\* A GET that is refused or breaks off ends the acquire.
LEMMA BrokenKeeps ==
    ASSUME IInv, NEW n \in Nonces, Broken(n)
    PROVE  IInv'
  <1>1. Types'
    BY GatewayAssumption DEF Broken, Return, gatewayVars, gatewayFile, gatewaySession, gatewayStream, IInv, Types, Errors, Results, Manifest
  <1>2. time' = time /\ \A m \in Nonces \ {n} : Row(m)' = Row(m)
    BY DEF Broken, Return, gatewayVars, gatewayFile, gatewaySession, gatewayStream, IInv, Types, Row
  <1>3. GatewayKnows(n)'
    BY GatewayAssumption DEF Broken, Return, gatewayVars, gatewayFile, gatewaySession, gatewayStream, IInv, Types, GatewayKnows, ClientKnows, Stamped, Errors
  <1>4. ClientKnows(n)'
    BY GatewayAssumption, DeliveryAssumption DEF Broken, Return, gatewayVars, gatewayFile, gatewaySession, gatewayStream, IInv, Types, GatewayKnows, ClientKnows
  <1> QED
    BY <1>1, <1>2, <1>3, <1>4, OneRequest

\* A block is received.
LEMMA BlockKeeps ==
    ASSUME IInv, NEW n \in Nonces, Block(n)
    PROVE  IInv'
  <1>1. Types'
    BY GatewayAssumption DEF Block, SendBlock, gatewayFile, gatewaySession, IInv, Types, Errors, Results, Manifest
  <1>2. time' = time /\ \A m \in Nonces \ {n} : Row(m)' = Row(m)
    BY DEF Block, SendBlock, gatewayFile, gatewaySession, IInv, Types, Row
  <1>3. GatewayKnows(n)'
    BY GatewayAssumption DEF Block, SendBlock, gatewayFile, gatewaySession, IInv, Types, GatewayKnows, ClientKnows, Stamped, Errors
  <1>4. ClientKnows(n)'
    BY GatewayAssumption, DeliveryAssumption DEF Block, SendBlock, gatewayFile, gatewaySession, IInv, Types, GatewayKnows, ClientKnows
  <1> QED
    BY <1>1, <1>2, <1>3, <1>4, OneRequest

\* The bytes are compared with the manifest.
LEMMA CompleteKeeps ==
    ASSUME IInv, NEW n \in Nonces, Complete(n)
    PROVE  IInv'
  <1>1. Types'
    BY GatewayAssumption DEF Complete, Return, gatewayVars, gatewayFile, gatewaySession, gatewayStream, IInv, Types, Errors, Results, Manifest
  <1>2. time' = time /\ \A m \in Nonces \ {n} : Row(m)' = Row(m)
    BY DEF Complete, Return, gatewayVars, gatewayFile, gatewaySession, gatewayStream, IInv, Types, Row
  <1>3. GatewayKnows(n)'
    BY GatewayAssumption DEF Complete, Return, gatewayVars, gatewayFile, gatewaySession, gatewayStream, IInv, Types, GatewayKnows, ClientKnows, Stamped, Errors
  <1>4. ClientKnows(n)'
    BY GatewayAssumption, DeliveryAssumption DEF Complete, Return, gatewayVars, gatewayFile, gatewaySession, gatewayStream, IInv, Types, GatewayKnows, ClientKnows
  <1> QED
    BY <1>1, <1>2, <1>3, <1>4, OneRequest

\* A lost connection ends the acquire.
LEMMA DropKeeps ==
    ASSUME IInv, NEW n \in Nonces, Drop(n)
    PROVE  IInv'
  <1>1. Types'
    BY GatewayAssumption DEF Drop, Return, gatewayVars, gatewayFile, gatewaySession, gatewayStream, IInv, Types, Errors, Results, Manifest
  <1>2. time' = time /\ \A m \in Nonces \ {n} : Row(m)' = Row(m)
    BY DEF Drop, Return, gatewayVars, gatewayFile, gatewaySession, gatewayStream, IInv, Types, Row
  <1>3. GatewayKnows(n)'
    BY GatewayAssumption DEF Drop, Return, gatewayVars, gatewayFile, gatewaySession, gatewayStream, IInv, Types, GatewayKnows, ClientKnows, Stamped, Errors
  <1>4. ClientKnows(n)'
    BY GatewayAssumption, DeliveryAssumption DEF Drop, Return, gatewayVars, gatewayFile, gatewaySession, gatewayStream, IInv, Types, GatewayKnows, ClientKnows
  <1> QED
    BY <1>1, <1>2, <1>3, <1>4, OneRequest

\* A manifest whose stamp passed the gateway's window passes the client's, as long as
\* the POST is not overdue and the windows fit together.
LEMMA WindowFits ==
    ASSUME IInv, NEW n \in Nonces, at[n] = "posted", signed[n] # Nothing, Compatible
    PROVE  InTime(n, signed[n])
  <1>1. /\ time \in Nat /\ began[n] \in Nat /\ offset[n] \in Int /\ stamp[n] \in Int
        /\ deadline[n] \in Int
    BY DEF IInv, Types
  <1>2. /\ stamp[n] - began[n] <= GatewaySkew /\ began[n] - stamp[n] <= GatewaySkew
        /\ signed[n].issuedAt = began[n] /\ signed[n].expiresAt = began[n] + SessionTtl
    BY DEF IInv, GatewayKnows, Stamped
  <1>3. /\ deadline[n] - Timeout <= time /\ time <= deadline[n]
        /\ stamp[n] = deadline[n] - Timeout + offset[n]
    BY DEF IInv, ClientKnows
  <1> QED
    BY <1>1, <1>2, <1>3, GatewayAssumption, DeliveryAssumption DEF InTime, Clock, Compatible

\* The checks on a manifest: only the one signed for this request gets past the
\* nonce, whichever response a proxy delivers.
LEMMA VerifyKeeps ==
    ASSUME IInv, NEW n \in Nonces, NEW q \in Nonces, Verify(n, q)
    PROVE  IInv'
  <1>1. /\ at[n] = "posted" /\ signed[q] \in Manifest /\ signed[q] # Nothing /\ signed[q].nonce = q
        /\ manifest' = [manifest EXCEPT ![n] = signed[q]]
        /\ UNCHANGED <<gatewayVars, offset, stamp, listed, got>>
    BY DEF Verify, IInv, Types, GatewayKnows
  <1>2. CASE q # n /\ Return(n, "protocol") /\ UNCHANGED deadline
    <2>1. Types'
      BY <1>1, <1>2 DEF Return, gatewayVars, gatewayFile, gatewaySession, gatewayStream, IInv, Types, Results
    <2>2. time' = time /\ \A m \in Nonces \ {n} : Row(m)' = Row(m)
      BY <1>1, <1>2 DEF Return, gatewayVars, gatewaySession, gatewayStream, IInv, Types, Row
    <2>3. GatewayKnows(n)' /\ ClientKnows(n)'
      BY <1>1, <1>2 DEF Return, gatewayVars, gatewaySession, gatewayStream, IInv, Types, GatewayKnows, ClientKnows, Stamped
    <2> QED
      BY <2>1, <2>2, <2>3, OneRequest
  <1>3. CASE q = n /\ ~(signed[n].keyId \in Trusted /\ InTime(n, signed[n]))
             /\ Return(n, "signature") /\ UNCHANGED deadline
    <2>1. Types'
      BY <1>1, <1>3 DEF Return, gatewayVars, gatewayFile, gatewaySession, gatewayStream, IInv, Types, Results
    <2>2. time' = time /\ \A m \in Nonces \ {n} : Row(m)' = Row(m)
      BY <1>1, <1>3 DEF Return, gatewayVars, gatewaySession, gatewayStream, IInv, Types, Row
    <2>3. Compatible => signed[n].keyId \notin Trusted
      BY <1>1, <1>3, WindowFits
    <2>4. GatewayKnows(n)' /\ ClientKnows(n)'
      BY <1>1, <1>3, <2>3 DEF Return, gatewayVars, gatewaySession, gatewayStream, IInv, Types, GatewayKnows, ClientKnows, Stamped
    <2> QED
      BY <2>1, <2>2, <2>4, OneRequest
  <1>4. CASE /\ q = n /\ signed[n].keyId \in Trusted /\ at' = [at EXCEPT ![n] = "fetching"]
             /\ deadline' = [deadline EXCEPT ![n] = time + Timeout] /\ UNCHANGED result
    <2>1. deadline' \in [Nonces -> Int] /\ manifest' \in [Nonces -> Manifest \cup {Nothing}]
      BY <1>1, <1>4, DeliveryAssumption DEF IInv, Types
    <2>2. Types'
      BY <1>1, <1>4, <2>1 DEF gatewayVars, gatewayFile, gatewaySession, gatewayStream, IInv, Types
    <2>3. time' = time /\ \A m \in Nonces \ {n} : Row(m)' = Row(m)
      BY <1>1, <1>4 DEF gatewayVars, gatewaySession, gatewayStream, IInv, Types, Row
    <2>4. GatewayKnows(n)' /\ ClientKnows(n)'
      BY <1>1, <1>4 DEF gatewayVars, gatewaySession, gatewayStream, IInv, Types, GatewayKnows, ClientKnows, Stamped
    <2> QED
      BY <2>2, <2>3, <2>4, OneRequest
  <1> QED
    BY <1>1, <1>2, <1>3, <1>4 DEF Verify

\* Time does not pass the deadline of a POST, and no request's past changes with it.
LEMMA TickKeeps ==
    ASSUME IInv, Tick
    PROVE  IInv'
  <1> USE DEF Tick, gatewayFile, gatewaySession, gatewayStream, clientVars
  <1>1. Types'
    BY DEF IInv, Types
  <1>2. ASSUME NEW n \in Nonces PROVE GatewayKnows(n)'
    BY <1>2 DEF IInv, Types, GatewayKnows, Stamped
  <1>3. ASSUME NEW n \in Nonces PROVE ClientKnows(n)'
    BY <1>3, DeliveryAssumption DEF IInv, Types, ClientKnows
  <1> QED
    BY <1>1, <1>2, <1>3 DEF IInv

\* A new file, new bytes, or a restart with another key: the requests in progress
\* end, and what was signed and admitted before stays as it was.
LEMMA OperateKeeps ==
    ASSUME IInv, Operate
    PROVE  IInv'
  <1>1. CASE Restart /\ UNCHANGED clientVars
    <2>1. Types'
      BY <1>1 DEF Restart, clientVars, IInv, Types
    <2>2. ASSUME NEW n \in Nonces PROVE GatewayKnows(n)'
      BY <1>1, <2>2 DEF Restart, clientVars, IInv, Types, GatewayKnows, Stamped
    <2>3. ASSUME NEW n \in Nonces PROVE ClientKnows(n)'
      BY <1>1, <2>3 DEF Restart, clientVars, IInv, Types, ClientKnows
    <2> QED
      BY <2>1, <2>2, <2>3 DEF IInv
  <1>2. CASE (Replace \/ Overwrite) /\ UNCHANGED clientVars
    <2> USE DEF Replace, Overwrite, gatewaySession, gatewayStream, clientVars
    <2>1. Types'
      BY <1>2 DEF IInv, Types
    <2>2. ASSUME NEW n \in Nonces PROVE Row(n)' = Row(n) /\ time' = time
      BY <1>2 DEF Row
    <2> QED
      BY <2>1, <2>2, RowKeeps DEF IInv
  <1> QED
    BY <1>1, <1>2 DEF Operate

\* What both sides know of every request is inductive.
THEOREM Invariance == Spec => []IInv
  <1>1. Init => IInv
    <2> SUFFICES ASSUME Init PROVE IInv
      OBVIOUS
    <2> USE DEF Init, GatewayInit
    <2>1. Types
      <3>1. offset \in [Nonces -> Int]
        BY DeliveryAssumption
      <3> QED
        BY <3>1, DeliveryAssumption DEF Types, Results, Errors
    <2>2. ASSUME NEW n \in Nonces PROVE GatewayKnows(n) /\ ClientKnows(n)
      BY <2>2 DEF GatewayKnows, ClientKnows
    <2> QED
      BY <2>1, <2>2 DEF IInv
  <1>2. IInv /\ [Next]_vars => IInv'
    <2> SUFFICES ASSUME IInv, [Next]_vars PROVE IInv'
      OBVIOUS
    <2>1. ASSUME NEW n \in Nonces, Acquire(n) PROVE IInv'
      BY <2>1, PostKeeps, RefusedKeeps, VerifyKeeps, BrokenKeeps, BlockKeeps, CompleteKeeps, DropKeeps DEF Acquire
    <2>2. ASSUME NEW n \in Nonces, Serve(n) PROVE IInv'
      BY <2>2, ReceiveRequestKeeps, ProviderAcceptsKeeps, ProviderRefusesKeeps, IssueKeeps, NotFoundKeeps, AdmitKeeps DEF Serve
    <2>3. CASE UNCHANGED vars
      <3> USE <2>3 DEF vars, gatewayVars, gatewayFile, gatewaySession, gatewayStream, clientVars
      <3>1. Types'
        BY DEF IInv, Types
      <3>2. ASSUME NEW n \in Nonces PROVE Row(n)' = Row(n) /\ time' = time
        BY DEF Row
      <3> QED
        BY <3>1, <3>2, RowKeeps DEF IInv
    <2> QED
      BY <2>1, <2>2, <2>3, OperateKeeps, TickKeeps DEF Next
  <1> QED
    BY <1>1, <1>2, PTL DEF Spec

\* What rymga_loader_acquire returns as OK is what the gateway signed for this request
\* under a trusted key, for every history of the file, the keys and the gateway.
THEOREM DeliversSigned == Spec => []DeliveredIsSigned
  <1>1. IInv => DeliveredIsSigned
    BY DEF IInv, ClientKnows, DeliveredIsSigned
  <1> QED
    BY <1>1, Invariance, PTL

\* A download is admitted only after the provider's yes to the same request, and at
\* most the TTL later, for every TTL and however long the provider took.
THEOREM GrantsAreShort == Spec => []GrantIsShort
  <1>1. IInv => GrantIsShort
    BY DEF IInv, GatewayKnows, GrantIsShort
  <1> QED
    BY <1>1, Invariance, PTL

\* For every setting in which the gateway's skew is at most the client's and the timeout
\* at most the TTL, no request that the gateway let pass fails over the time.
THEOREM WindowsFit == Spec => []WindowsAgree
  <1>1. IInv => WindowsAgree
    BY DEF IInv, ClientKnows, Compatible, WindowsAgree
  <1> QED
    BY <1>1, Invariance, PTL
=============================================================================
