-------------------------- MODULE MCRequestPipeline --------------------------
EXTENDS RequestPipeline

CONSTANTS r1, r2, k1, ann, bob, patch, other, whole

Call(transport, op, key, body, caller) ==
  [transport |-> transport, op |-> op, key |-> key, body |-> body, omit |-> whole,
   caller |-> caller, credential |-> "jwt", origin |-> "none", media |-> "json"]

Claim(caller, body) == Call("http", "ClaimTask", k1, body, caller)

\* Retries of one call, the same key with another body, by another caller and
\* over gRPC, and a query that carries the key.
KeyedTraffic ==
  {Claim(ann, patch), Claim(ann, other), Claim(bob, patch),
   Call("grpc", "ClaimTask", k1, patch, ann), Call("http", "GetTask", k1, patch, ann)}

AnnMayClaim == {<<ann, Permission("workflow.task", "claim")>>}

\* Every operation of both transports, a mutation also with every field left
\* out, and every credential, origin, media type and key header.
Omissions(op) == IF op \in Mutations THEN FullBody(op) \cup {whole} ELSE {whole}

Surface ==
  UNION {{[Call(t, op, NoKey, patch, ann) EXCEPT !.omit = f] : f \in Omissions(op)} :
           <<t, op>> \in {x \in Transports \X Operations : x[2] \in DOMAIN Handlers[x[1]]}}
  \cup {[Call(t, op, NoKey, patch, ann) EXCEPT !.credential = c] :
           t \in Transports, op \in {"GetTask", "ClaimTask", "ListTasks"}, c \in {"none", "psk", "jwt", "expired"}}
  \cup {[Call(t, "ClaimTask", key, patch, ann) EXCEPT !.origin = o, !.media = m] :
           t \in Transports, key \in {NoKey, BadKey, k1}, o \in {"listed", "other"}, m \in {"json", "text"}}

OneCall == {Claim(ann, patch), Call("grpc", "ClaimTask", k1, patch, ann)}

\* One call over either transport and any of the keyed calls beside it, in
\* either order; or one delivery of any call of the surface.
MCWorkloads ==
  {[r \in Requests |-> IF r = r1 THEN OneCall ELSE KeyedTraffic]}
  \cup {[r \in Requests |-> IF r = r1 THEN {q} ELSE {}] : q \in Surface}
=============================================================================
