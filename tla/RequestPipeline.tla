--------------------------- MODULE RequestPipeline ---------------------------
(***************************************************************************)
(* Requests on their way through the HTTP middlewares or the gRPC          *)
(* interceptors to a handler, several at a time and on several replicas,   *)
(* with the idempotency records they share in Redis.                       *)
(*                                                                         *)
(* A request stops at the stages that read or write something shared: the  *)
(* edge (everything before authentication), authentication, authorisation, *)
(* the per-user limit, idempotency, the handler, and the saving of its     *)
(* result.  Time is a countdown: left[r] until the deadline the Timeout    *)
(* middleware set, and a ttl in every idempotency record.                  *)
(***************************************************************************)
EXTENDS ApiSurface, Naturals, FiniteSets

CONSTANTS
  Requests,        \* deliveries of calls, a retry being another delivery
  Workloads,       \* the calls each delivery may carry, one choice per behaviour
  Keys,            \* valid Idempotency-Key values
  NoKey,           \* the header is absent
  BadKey,          \* the header is present and malformed
  NoSubject,       \* no principal in the context
  NoCall,          \* a request that has not arrived
  SkipOps, PSKOps, \* auth.skip_* and auth.psk.* route patterns
  Errors,          \* errors the environment may make the service return
  FailOpen,        \* rate_limit.fail_open
  Outages,         \* dependencies that may fail: "redis", "authorizer"
  Revocable,       \* permissions that may be withdrawn meanwhile
  RequestTimeout,  \* http.request_timeout
  ClientDeadline,  \* what a gRPC client allows its call; the server sets none
  ProcessingTTL, ResultTTL, FailureTTL

Transports == {"http", "grpc"}
PSK == "psk"

\* The calls clients make.
Traffic == UNION {w[r] : w \in Workloads, r \in Requests}

\* A call is what the client sends: the transport and operation, the key header,
\* the body and the field it omits, the caller and its credential, and for HTTP
\* the origin and media type.
ASSUME TrafficAssumption ==
  /\ Workloads \subseteq [Requests -> SUBSET Traffic]
  /\ \A q \in Traffic : /\ q.transport \in Transports
                        /\ q.op \in DOMAIN Handlers[q.transport]
                        /\ q.key \in Keys \cup {NoKey, BadKey}
ASSUME NamesAssumption ==
  NoKey \notin Keys /\ BadKey \notin Keys /\ NoKey # BadKey /\ NoCall \notin Traffic \cup Requests
ASSUME ErrorsAssumption == Errors \subseteq ServiceErrors
ASSUME TimesAssumption ==
  /\ RequestTimeout \in Nat /\ ProcessingTTL \in Nat /\ ResultTTL \in Nat /\ FailureTTL \in Nat
  /\ ClientDeadline \in Nat
  /\ RequestTimeout > 0 /\ ResultTTL > 0 /\ FailureTTL > 0
\* Not enforced by Config.Validate, which only asks for positive values; the
\* defaults are 10 s and 30 s.
ASSUME LeaseAssumption == RequestTimeout <= ProcessingTTL

VARIABLES
  workload,  \* the choice made of Workloads
  call,      \* the call each request carries
  stage,     \* where it is
  left,      \* ticks until its deadline
  subject,   \* the principal authentication put in its context
  answer,    \* what was written to the client
  store,     \* idempotency records in Redis
  grants,    \* permissions held in authorization-service
  outage,    \* dependencies that do not answer
  applied,   \* requests whose transaction changed rows
  lapsed,    \* keys whose record ran out at least once
  doubted,   \* keys under which a commit was applied and reported as failed
  entitled   \* requests that arrived with a right to be served

history == <<workload, lapsed, doubted, entitled>>
vars == <<call, stage, left, subject, answer, store, grants, outage, applied, history>>

NoAnswer == [code |-> "none", by |-> NoCall]
NoRecord == [state |-> "none", owner |-> NoCall, fingerprint |-> NoCall, code |-> "none", ttl |-> 0]

(* -- The order of the chains ---------------------------------------------- *)

\* Mutant: results are replayed before the caller is authorised.
HttpNextReplayFirst ==
  [edge |-> "authn", authn |-> "idem", idem |-> "authz", authz |-> "user", user |-> "handler"]

HttpNext == [edge |-> "authn", authn |-> "authz", authz |-> "user", user |-> "idem", idem |-> "handler"]

GrpcNext == [edge |-> "authn", authn |-> "authz", authz |-> "idem", idem |-> "handler"]

After(r) == IF call[r].transport = "http" THEN HttpNext[stage[r]] ELSE GrpcNext[stage[r]]

InFlight(r) == stage[r] \notin {"idle", "done", "lost"}
Mutates(q) == q.op \in Mutations
Protected(q) == q.op \in DOMAIN Requirement[q.transport]

(* -- Steps shared by the stages ------------------------------------------- *)

Reply(r, code, by) ==
  answer' = [answer EXCEPT ![r] = [code |-> code, by |-> by]]

Refuse(r, reason) ==
  /\ Reply(r, Refusal[call[r].transport][reason], NoCall)
  /\ stage' = [stage EXCEPT ![r] = "done"]

Pass(r) ==
  /\ stage' = [stage EXCEPT ![r] = After(r)]
  /\ UNCHANGED answer

\* A call made with the request's context fails when its deadline is over.
Reachable(r, dependency) == dependency \notin outage /\ left[r] > 0

(* -- Arrival and the edge -------------------------------------------------- *)

\* The three ways in, in the order the code tries them.
Accepted(q) ==
  \/ q.op \in PSKOps /\ q.credential = PSK
  \/ q.op \notin PSKOps /\ (q.op \in SkipOps \/ q.credential = "jwt")

Principal(q) ==
  IF q.op \in PSKOps THEN PSK ELSE IF q.op \in SkipOps THEN NoSubject ELSE q.caller

Deadline(q) == IF q.transport = "http" THEN RequestTimeout ELSE ClientDeadline

Arrive(r, q) ==
  /\ stage[r] = "idle" /\ q \in workload[r]
  /\ call' = [call EXCEPT ![r] = q]
  /\ stage' = [stage EXCEPT ![r] = "edge"]
  /\ left' = [left EXCEPT ![r] = Deadline(q)]
  /\ entitled' = IF Accepted(q) /\ <<Principal(q), workflowHTTPRequirement[q.op]>> \in grants
                 THEN entitled \cup {r} ELSE entitled
  /\ UNCHANGED <<subject, answer, store, grants, outage, applied, workload, lapsed, doubted>>

\* RateLimit asks Redis; an empty key skips the check.  Whether the bucket
\* still holds a token is the library's affair.
RateLimit(r, key) ==
  \/ /\ key # NoSubject /\ Reachable(r, "redis")
     /\ Refuse(r, "too_many")
  \/ /\ key # NoSubject /\ ~Reachable(r, "redis") /\ ~FailOpen
     /\ Refuse(r, "unavailable")
  \/ /\ key = NoSubject \/ Reachable(r, "redis") \/ FailOpen
     /\ Pass(r)

\* The middlewares at the edge, each by what it turns away.
IdempotencyKey(q) == q.key = BadKey
CORS(q) == q.origin = "other"
RequireJSON(q) == q.media # "json"

\* They come before the limits by address and by route.
HttpEdge(r) ==
  LET q == call[r] IN
  \/ IdempotencyKey(q) /\ Refuse(r, "bad_key")
  \/ ~IdempotencyKey(q) /\ CORS(q) /\ Refuse(r, "origin")
  \/ ~IdempotencyKey(q) /\ ~CORS(q) /\ RequireJSON(q) /\ Refuse(r, "media")
  \/ ~IdempotencyKey(q) /\ ~CORS(q) /\ ~RequireJSON(q) /\ RateLimit(r, q.op)

validateIdempotencyMetadata(q) == q.key = BadKey

GrpcEdge(r) ==
  \/ validateIdempotencyMetadata(call[r]) /\ Refuse(r, "bad_key")
  \/ ~validateIdempotencyMetadata(call[r]) /\ Pass(r)

Edge(r) ==
  /\ stage[r] = "edge"
  /\ \/ call[r].transport = "http" /\ HttpEdge(r)
     \/ call[r].transport = "grpc" /\ GrpcEdge(r)
  /\ UNCHANGED <<call, left, subject, store, grants, outage, applied, history>>

(* -- Authentication and authorisation -------------------------------------- *)

Authentication(r) ==
  /\ stage[r] = "authn"
  /\ \/ /\ Accepted(call[r]) /\ Pass(r)
        /\ subject' = [subject EXCEPT ![r] = Principal(call[r])]
     \/ /\ ~Accepted(call[r]) /\ Refuse(r, "unauthenticated")
        /\ UNCHANGED subject
  /\ UNCHANGED <<call, left, store, grants, outage, applied, history>>

Allowed(r) == <<subject[r], Requirement[call[r].transport][call[r].op]>> \in grants

\* With authorization.enabled, which Validate requires in production; without
\* it the middleware lets everything pass (middleware.go:339).
Authorization(r) ==
  /\ stage[r] = "authz"
  /\ \/ ~Protected(call[r]) /\ Pass(r)
     \/ Protected(call[r]) /\ Reachable(r, "authorizer") /\ Allowed(r) /\ Pass(r)
     \/ Protected(call[r]) /\ Reachable(r, "authorizer") /\ ~Allowed(r) /\ Refuse(r, "denied")
     \/ Protected(call[r]) /\ ~Reachable(r, "authorizer") /\ Refuse(r, "unavailable")
  /\ UNCHANGED <<call, left, subject, store, grants, outage, applied, history>>

UserLimit(r) ==
  /\ stage[r] = "user"
  /\ RateLimit(r, subject[r])
  /\ UNCHANGED <<call, left, subject, store, grants, outage, applied, history>>

(* -- Idempotent execution --------------------------------------------------- *)

Guarded(r) == call[r].key \in Keys /\ Mutates(call[r])

\* Mutant: the fingerprint leaves the caller out.
AnonymousFingerprint(r) == <<call[r].transport, call[r].op, call[r].body, call[r].omit>>

idempotencyFingerprint(r) == <<subject[r], call[r].transport, call[r].op, call[r].body, call[r].omit>>

\* Mutant: a failing Begin lets the request through.
BeginFailsOpen(r, k) ==
  /\ ~Reachable(r, "redis")
  /\ Pass(r) /\ UNCHANGED store

BeginUnavailable(r, k) ==
  /\ ~Reachable(r, "redis")
  /\ Refuse(r, "unavailable")
  /\ UNCHANGED store

BeginAcquires(r, k) ==
  /\ Reachable(r, "redis") /\ store[k].state = "none"
  /\ store' = [store EXCEPT ![k] = [state |-> "processing", owner |-> r,
                                    fingerprint |-> idempotencyFingerprint(r),
                                    code |-> "none", ttl |-> ProcessingTTL]]
  /\ Pass(r)

\* A record of another request, one in progress, or a stored result.
BeginFinds(r, k) ==
  LET found == store[k] IN
  /\ Reachable(r, "redis") /\ found.state # "none"
  /\ UNCHANGED store
  /\ \/ /\ found.fingerprint # idempotencyFingerprint(r)
        /\ Refuse(r, "other_request")
     \/ /\ found.fingerprint = idempotencyFingerprint(r)
        /\ found.state = "processing"
        /\ Refuse(r, "in_progress")
     \/ /\ found.fingerprint = idempotencyFingerprint(r)
        /\ found.state \in {"completed", "failed"}
        /\ Reply(r, found.code, found.owner)
        /\ stage' = [stage EXCEPT ![r] = "done"]

\* A body that cannot be read and a record that cannot be decoded (lines
\* 103-106, 115-117, 133-135) only refuse the request and are left out.
IdempotencyExecution(r) ==
  /\ stage[r] = "idem"
  /\ \/ ~Guarded(r) /\ Pass(r) /\ UNCHANGED store
     \/ Guarded(r) /\ BeginUnavailable(r, call[r].key)
     \/ Guarded(r) /\ BeginAcquires(r, call[r].key)
     \/ Guarded(r) /\ BeginFinds(r, call[r].key)
  /\ UNCHANGED <<call, left, subject, grants, outage, applied, history>>

(* -- The handler ------------------------------------------------------------- *)

\* Required fields of the HTTP request types; gRPC methods bind nothing.
Binds(q) == q.transport = "grpc" \/ q.omit \notin Bound[q.op]

ServiceCall(q) == Handlers[q.transport][q.op]

FullBody(op) == Scope \cup Bound[op]

\* A field the client left out, or one its handler does not hand over.
Missing(q) == {f \in FullBody(q.op) \cap DOMAIN Checks[ServiceCall(q).service] :
                  f = q.omit \/ f \notin ServiceCall(q).fields}

\* What the service returns: the checks of actor and fields come first.  The
\* rows are not modelled here, so that a mutation may succeed each time it is
\* asked for: what stops a second one is the idempotency record alone.
Results(r) ==
  LET q == call[r] IN
  IF subject[r] = NoSubject THEN {"actor"}
  ELSE IF Missing(q) # {}
       THEN {Checks[ServiceCall(q).service][f] : f \in Missing(q)} \cup {"forbidden"}
  ELSE IF left[r] = 0 THEN {"deadline"}
  ELSE {"ok"} \cup (IF Mutates(q) THEN {"doubt"} ELSE {}) \cup Errors

Written(r, result) ==
  LET transport == call[r].transport IN
  IF result = "ok" THEN Success[transport]
  ELSE ErrorAnswer[transport][IF result = "doubt" THEN "other" ELSE result]

Respond(r, code) ==
  /\ Reply(r, code, r)
  /\ stage' = [stage EXCEPT ![r] = IF Guarded(r) THEN "persist" ELSE "done"]

Handler(r) ==
  /\ stage[r] = "handler"
  /\ \/ /\ ~Binds(call[r])
        /\ Respond(r, Refusal.http.unbound)
        /\ UNCHANGED <<applied, doubted>>
     \/ /\ Binds(call[r])
        /\ \E result \in Results(r) :
             /\ Respond(r, Written(r, result))
             /\ applied' = IF Mutates(call[r]) /\ result \in {"ok", "doubt"}
                           THEN applied \cup {r} ELSE applied
             /\ doubted' = IF result = "doubt" THEN doubted \cup {call[r].key} ELSE doubted
  /\ UNCHANGED <<call, left, subject, store, grants, outage, workload, lapsed, entitled>>

\* A panic unwinds past IdempotencyExecution to Recovery: nothing is saved.
Panic(r) ==
  /\ stage[r] = "handler"
  /\ Refuse(r, "panic")
  /\ UNCHANGED <<call, left, subject, store, grants, outage, applied, history>>

\* Complete and Fail name the owner Begin returned.
Owned(r, k) == store[k].state = "processing" /\ store[k].owner = r

\* Mutant: a failure gives the key back instead of being stored.
StoredOrReleased(r, ok) ==
  IF ok THEN [store[call[r].key] EXCEPT !.state = "completed", !.code = answer[r].code, !.ttl = ResultTTL]
        ELSE NoRecord

Stored(r, ok) ==
  [store[call[r].key] EXCEPT !.state = IF ok THEN "completed" ELSE "failed",
                             !.owner = r,
                             !.code = answer[r].code,
                             !.ttl = IF ok THEN ResultTTL ELSE FailureTTL]

\* Mutant: only an error of the server counts as a failure.
BelowServerError(r) == answer[r].code \notin {"500", "503"}

Succeeded(r) == answer[r].code = Success[call[r].transport]

\* Complete below 400 and Fail from 400 on, with a context that outlives the
\* request; an error is only logged.
Persist(r) ==
  LET k == call[r].key IN
  /\ stage[r] = "persist"
  /\ stage' = [stage EXCEPT ![r] = "done"]
  /\ \/ "redis" \in outage /\ UNCHANGED store
     \/ /\ "redis" \notin outage
        /\ store' = IF Owned(r, k)
                    THEN [store EXCEPT ![k] = Stored(r, Succeeded(r))] ELSE store
  /\ UNCHANGED <<call, left, subject, answer, grants, outage, applied, history>>

(* -- The world around -------------------------------------------------------- *)

\* The replica dies or is killed with the request in flight.
Crash(r) ==
  /\ InFlight(r)
  /\ stage' = [stage EXCEPT ![r] = "lost"]
  /\ UNCHANGED <<call, left, subject, answer, store, grants, outage, applied, history>>

Less(n) == IF n = 0 THEN 0 ELSE n - 1

\* Mutant: a processing record has no time to live.
AgedKeepsProcessing(record) ==
  IF record.state = "processing" THEN record
  ELSE IF record.ttl <= 1 THEN NoRecord ELSE [record EXCEPT !.ttl = record.ttl - 1]

Aged(record) == IF record.ttl <= 1 THEN NoRecord ELSE [record EXCEPT !.ttl = record.ttl - 1]

Tick ==
  /\ \/ \E r \in Requests : InFlight(r) /\ left[r] > 0
     \/ \E k \in Keys : store[k].state # "none"
  /\ left' = [r \in Requests |-> Less(left[r])]
  /\ store' = [k \in Keys |-> Aged(store[k])]
  /\ lapsed' = lapsed \cup {k \in Keys : store[k].state # "none" /\ Aged(store[k]) = NoRecord}
  /\ UNCHANGED <<call, stage, subject, answer, grants, outage, applied, workload, doubted, entitled>>

Revoke(g) ==
  /\ g \in grants \cap Revocable
  /\ grants' = grants \ {g}
  /\ UNCHANGED <<call, stage, left, subject, answer, store, outage, applied, history>>

Fails(dependency) ==
  /\ dependency \notin outage
  /\ outage' = outage \cup {dependency}
  /\ UNCHANGED <<call, stage, left, subject, answer, store, grants, applied, history>>

Recovers(dependency) ==
  /\ dependency \in outage
  /\ outage' = outage \ {dependency}
  /\ UNCHANGED <<call, stage, left, subject, answer, store, grants, applied, history>>

(* -- The specification ------------------------------------------------------- *)

\* Everyone starts out with the permissions of what they are about to call.
AllGrants == {<<Principal(q), workflowHTTPRequirement[q.op]>> : q \in Traffic}

Init ==
  /\ workload \in Workloads
  /\ call = [r \in Requests |-> NoCall]
  /\ stage = [r \in Requests |-> "idle"]
  /\ left = [r \in Requests |-> 0]
  /\ subject = [r \in Requests |-> NoSubject]
  /\ answer = [r \in Requests |-> NoAnswer]
  /\ store = [k \in Keys |-> NoRecord]
  /\ grants = AllGrants
  /\ outage = {} /\ applied = {} /\ lapsed = {} /\ doubted = {} /\ entitled = {}

Serve(r) ==
  \/ Edge(r) \/ Authentication(r) \/ Authorization(r) \/ UserLimit(r)
  \/ IdempotencyExecution(r) \/ Handler(r) \/ Panic(r) \/ Persist(r)

Next ==
  \/ \E r \in Requests : \/ \E q \in workload[r] : Arrive(r, q)
                         \/ Serve(r)
                         \/ Crash(r)
  \/ Tick
  \/ \E g \in grants : Revoke(g)
  \/ \E d \in Outages : Fails(d) \/ Recovers(d)

Spec == Init /\ [][Next]_vars

\* The goroutine of a request runs on, and time passes; clients, grants and
\* outages are under no obligation.
FairSpec == Spec /\ WF_vars(Tick) /\ \A r \in Requests : WF_vars(Serve(r))

(* -- Properties --------------------------------------------------------------- *)

Stages == {"idle", "edge", "authn", "authz", "user", "idem", "handler", "persist", "done", "lost"}
States == {"none", "processing", "completed", "failed"}

\* Types of the request table, the idempotency records and the history.
TypeOK ==
  /\ workload \in Workloads
  /\ call \in [Requests -> Traffic \cup {NoCall}]
  /\ stage \in [Requests -> Stages]
  /\ left \in [Requests -> Nat]
  /\ \A r \in Requests : stage[r] # "idle" => call[r] \in Traffic
  /\ store = [k \in Keys |-> store[k]]
  /\ \A k \in Keys : /\ DOMAIN store[k] = DOMAIN NoRecord
                     /\ store[k].state \in States
                     /\ store[k].ttl \in Nat
                     /\ store[k].state # "none" => store[k].owner \in Requests
  /\ applied \subseteq Requests /\ entitled \subseteq Requests
  /\ lapsed \subseteq Keys /\ doubted \subseteq Keys \cup {NoKey, BadKey}

CanCommit(r) == stage[r] = "handler" /\ Guarded(r) /\ left[r] > 0 /\ call[r].transport = "http"

\* IdempotencyExecution (middleware.go:107): two HTTP deliveries of one key are
\* never both in the handler with time left to commit, although the lease of
\* the first may run out and the second may be given it.  (The gRPC chain sets
\* no deadline of its own and promises nothing of the kind.)
ExclusiveCommit ==
  \A r, p \in Requests :
    CanCommit(r) /\ CanCommit(p) /\ call[r].key = call[p].key => r = p

\* IdempotencyExecution (middleware.go:95-157): as long as no record of a key
\* has run out, at most one of the requests that carry it changes rows,
\* whatever crashes, panics, outages and lost commits happen between.
OneEffectPerKey ==
  \A k \in Keys \ lapsed :
    \A r, p \in applied : call[r].key = k /\ call[p].key = k => r = p

\* A replayed answer (middleware.go:113-125) is that of an earlier request of
\* the same caller for the same operation and body.
ReplayIsOwn ==
  \A r \in Requests : \A p \in Requests \ {r} :
    answer[r].by = p => /\ subject[r] = subject[p]
                        /\ call[r].op = call[p].op
                        /\ call[r].body = call[p].body

\* Complete and Fail (middleware.go:148-152): a stored success is backed by a
\* change of its owner, and a stored failure means that nothing was changed
\* under the key, unless a record ran out or a commit was reported lost.
RecordTellsTruth ==
  \A k \in Keys :
    /\ store[k].state = "completed" => store[k].owner \in applied
    /\ store[k].state = "failed" /\ k \notin lapsed \cup doubted
         => \A r \in applied : call[r].key # k

\* Authentication before Authorization before IdempotencyExecution
\* (http/server.go:58-63, grpc/server.go:49): only a request that arrived with
\* an accepted credential and the permission of its operation is answered with
\* success on either transport, also when the answer is a stored one.
OnlyEntitledServed ==
  \A r \in Requests :
    answer[r].code \in {Success.http, Success.grpc} => r \in entitled

\* ShouldBindJSON (workflow_handler.go:695) and the checks of the service:
\* no request that leaves out a field its operation needs changes rows, also
\* over gRPC, which binds nothing.
OmissionHasNoEffect ==
  \A r \in applied : call[r].omit \notin FullBody(call[r].op)

\* A key whose holder died, panicked or could not save its result does not
\* stay in progress: ProcessingTTL frees it.
KeySettles == \A k \in Keys : store[k].state = "processing" ~> store[k].state # "processing"
=============================================================================
