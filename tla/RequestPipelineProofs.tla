------------------------- MODULE RequestPipelineProofs -------------------------
(***************************************************************************)
(* The lease of an idempotency key against the deadline of its holder, the *)
(* one effect per key, what is stored and replayed, and who is served, for *)
(* any number of requests, keys and calls and any times that respect       *)
(* LeaseAssumption.                                                        *)
(***************************************************************************)
EXTENDS RequestPipeline, TLAPS

LEMMA Chains ==
  /\ HttpNext["edge"] = "authn" /\ HttpNext["authn"] = "authz" /\ HttpNext["authz"] = "user"
  /\ HttpNext["user"] = "idem" /\ HttpNext["idem"] = "handler"
  /\ GrpcNext["edge"] = "authn" /\ GrpcNext["authn"] = "authz" /\ GrpcNext["authz"] = "idem"
  /\ GrpcNext["idem"] = "handler"
BY DEF HttpNext, GrpcNext

LEMMA NoRecordFields ==
  /\ NoRecord.state = "none" /\ NoRecord.ttl = 0
  /\ DOMAIN NoRecord = {"state", "owner", "fingerprint", "code", "ttl"}
BY DEF NoRecord

LEMMA RecordShape == TypeOK => \A k \in Keys : DOMAIN store[k] = DOMAIN NoRecord
BY DEF TypeOK

LEMMA AgedFields ==
  ASSUME NEW x, DOMAIN x = DOMAIN NoRecord, x.ttl \in Nat, x.ttl > 1
  PROVE  /\ Aged(x).ttl = x.ttl - 1 /\ Aged(x).state = x.state /\ Aged(x).owner = x.owner
         /\ Aged(x).fingerprint = x.fingerprint /\ DOMAIN Aged(x) = DOMAIN NoRecord
BY NoRecordFields DEF Aged

\* The deadline of an HTTP request is at most the request timeout away.
DeadlineNear ==
  \A r \in Requests : stage[r] # "idle" /\ call[r].transport = "http" => left[r] <= RequestTimeout

\* Who may still commit under a key holds its record, and its deadline comes
\* before the record runs out.
LeaseOutlives ==
  \A r \in Requests : CanCommit(r) =>
    /\ store[call[r].key].state = "processing"
    /\ store[call[r].key].owner = r
    /\ left[r] <= store[call[r].key].ttl

\* Only the HTTP chain has a stage for the limit by user.
UserOverHttp == \A r \in Requests : stage[r] = "user" => call[r].transport = "http"

PipelineInv == TypeOK /\ DeadlineNear /\ LeaseOutlives /\ UserOverHttp

HistoryOK ==
  /\ applied \subseteq Requests /\ entitled \subseteq Requests
  /\ lapsed \subseteq Keys /\ doubted \subseteq Keys \cup {NoKey, BadKey}

LEMMA PipelineInit == Init => PipelineInv
<1> SUFFICES ASSUME Init PROVE PipelineInv
  OBVIOUS
<1>1. TypeOK
  BY NoRecordFields DEF Init, TypeOK, Stages, States
<1>2. DeadlineNear /\ LeaseOutlives /\ UserOverHttp
  BY DEF Init, DeadlineNear, LeaseOutlives, CanCommit, UserOverHttp
<1> QED BY <1>1, <1>2 DEF PipelineInv

\* A request moves on, and not into the handler with a key over HTTP.
LEMMA MovesOn ==
  ASSUME PipelineInv, NEW r \in Requests, NEW s \in Stages \ {"idle"},
         stage[r] # "idle",
         stage' = [stage EXCEPT ![r] = s],
         s = "handler" => call[r].transport # "http" \/ ~Guarded(r),
         s = "user" => call[r].transport = "http",
         UNCHANGED <<workload, call, left, store>>, HistoryOK'
  PROVE  PipelineInv'
<1> USE DEF PipelineInv
<1>1. stage' \in [Requests -> Stages] /\ \A p \in Requests : stage'[p] = IF p = r THEN s ELSE stage[p]
  BY DEF TypeOK
<1>2. TypeOK'
  BY <1>1 DEF TypeOK, HistoryOK
<1>3. DeadlineNear'
  BY <1>1 DEF DeadlineNear
<1>4. \A p \in Requests : CanCommit(p)' => CanCommit(p)
  BY <1>1 DEF CanCommit, Guarded, Mutates
<1>5. LeaseOutlives'
  BY <1>4 DEF LeaseOutlives
<1>6. UserOverHttp'
  BY <1>1 DEF UserOverHttp
<1> QED BY <1>2, <1>3, <1>5, <1>6

LEMMA ArriveStep ==
  ASSUME PipelineInv, NEW r \in Requests, NEW q \in workload[r], Arrive(r, q)
  PROVE  PipelineInv'
<1> USE DEF PipelineInv
<1>1. q \in Traffic
  BY TrafficAssumption DEF TypeOK
<1>2. Deadline(q) \in Nat /\ (q.transport = "http" => Deadline(q) = RequestTimeout)
  BY TimesAssumption DEF Deadline
<1>3. /\ UNCHANGED <<workload, store, applied, lapsed, doubted>> /\ stage[r] = "idle"
      /\ \A p \in Requests : call'[p] = IF p = r THEN q ELSE call[p]
      /\ \A p \in Requests : stage'[p] = IF p = r THEN "edge" ELSE stage[p]
      /\ \A p \in Requests : left'[p] = IF p = r THEN Deadline(q) ELSE left[p]
  BY DEF Arrive, TypeOK
<1>4. /\ call' \in [Requests -> Traffic \cup {NoCall}] /\ stage' \in [Requests -> Stages]
      /\ left' \in [Requests -> Nat] /\ entitled' \subseteq Requests
  BY <1>1, <1>2 DEF Arrive, TypeOK, Stages
<1>5. TypeOK'
  BY <1>1, <1>3, <1>4 DEF TypeOK
<1>6. DeadlineNear'
  BY <1>2, <1>3, TimesAssumption DEF DeadlineNear
<1>7. \A p \in Requests : CanCommit(p)' => CanCommit(p) /\ p # r
  BY <1>3 DEF CanCommit, Guarded, Mutates
<1>8. LeaseOutlives'
  BY <1>3, <1>7 DEF LeaseOutlives
<1>9. UserOverHttp'
  BY <1>3 DEF UserOverHttp
<1> QED BY <1>5, <1>6, <1>8, <1>9

\* Everything a request does before it asks for its key.
LEMMA BeforeKeyStep ==
  ASSUME PipelineInv, NEW r \in Requests,
         Edge(r) \/ Authentication(r) \/ Authorization(r) \/ UserLimit(r)
  PROVE  PipelineInv'
<1>1. /\ UNCHANGED <<workload, call, left, store, applied, lapsed, doubted, entitled>>
      /\ stage[r] \in {"edge", "authn", "authz", "user"}
      /\ stage' = [stage EXCEPT ![r] = "done"] \/ stage' = [stage EXCEPT ![r] = After(r)]
  BY DEF Edge, HttpEdge, GrpcEdge, RateLimit, Authentication, Authorization, UserLimit, Refuse, Pass, history
<1>2. HistoryOK'
  BY <1>1 DEF HistoryOK, PipelineInv, TypeOK
<1>3. CASE stage' = [stage EXCEPT ![r] = "done"]
  BY <1>1, <1>2, <1>3, MovesOn DEF Stages
<1>4. CASE stage' = [stage EXCEPT ![r] = After(r)] /\ call[r].transport = "http"
  <2>1. After(r) \in {"authn", "authz", "user", "idem"}
    BY <1>1, <1>4, Chains DEF After
  <2> QED BY <1>1, <1>2, <1>4, <2>1, MovesOn DEF Stages
<1>5. CASE stage' = [stage EXCEPT ![r] = After(r)] /\ call[r].transport # "http"
  <2>1. stage[r] # "user"
    BY <1>5 DEF PipelineInv, UserOverHttp
  <2>2. After(r) \in {"authn", "authz", "idem"}
    BY <1>1, <1>5, <2>1, Chains DEF After
  <2> QED BY <1>1, <1>2, <1>5, <2>2, MovesOn DEF Stages
<1> QED BY <1>1, <1>3, <1>4, <1>5

\* The middleware either turns the request away, replays a result, lets a call
\* without a key through, or takes the key, which nobody holds then.
LEMMA IdempotencyStep ==
  ASSUME PipelineInv, NEW r \in Requests, IdempotencyExecution(r)
  PROVE  PipelineInv'
<1>1. /\ UNCHANGED <<workload, call, left, applied, lapsed, doubted, entitled>> /\ stage[r] = "idem"
  BY DEF IdempotencyExecution, history
<1>2. HistoryOK'
  BY <1>1 DEF HistoryOK, PipelineInv, TypeOK
<1>3. After(r) = "handler"
  BY <1>1, Chains DEF After
<1>4. CASE ~Guarded(r) /\ Pass(r) /\ UNCHANGED store
  BY <1>1, <1>2, <1>3, <1>4, MovesOn DEF Pass, Stages
<1>5. CASE Guarded(r) /\ (BeginUnavailable(r, call[r].key) \/ BeginFinds(r, call[r].key))
  <2>1. stage' = [stage EXCEPT ![r] = "done"] /\ UNCHANGED store
    BY <1>5 DEF BeginUnavailable, BeginFinds, Refuse
  <2> QED BY <1>1, <1>2, <2>1, MovesOn DEF Stages
<1>6. CASE Guarded(r) /\ BeginAcquires(r, call[r].key)
  <2> DEFINE k == call[r].key
             held == [state |-> "processing", owner |-> r, fingerprint |-> idempotencyFingerprint(r),
                      code |-> "none", ttl |-> ProcessingTTL]
  <2>1. k \in Keys /\ store[k].state = "none"
    BY <1>6 DEF Guarded, BeginAcquires
  <2>2. /\ DOMAIN held = DOMAIN NoRecord /\ held.state = "processing" /\ held.owner = r
        /\ held.ttl = ProcessingTTL
    BY NoRecordFields
  <2>3. stage' = [stage EXCEPT ![r] = "handler"] /\ store' = [store EXCEPT ![k] = held]
    BY <1>3, <1>6 DEF BeginAcquires, Pass
  <2> HIDE DEF held, k
  <2>4. /\ \A p \in Requests : stage'[p] = IF p = r THEN "handler" ELSE stage[p]
        /\ \A j \in Keys : store'[j] = IF j = k THEN held ELSE store[j]
        /\ stage' \in [Requests -> Stages] /\ store' = [j \in Keys |-> store'[j]]
    BY <2>3 DEF PipelineInv, TypeOK, Stages
  <2>5. TypeOK'
    <3>1. \A j \in Keys : /\ DOMAIN store'[j] = DOMAIN NoRecord
                          /\ store'[j].state \in States
                          /\ store'[j].ttl \in Nat
                          /\ store'[j].state # "none" => store'[j].owner \in Requests
      BY <2>2, <2>4, TimesAssumption DEF PipelineInv, TypeOK, States
    <3>2. \A p \in Requests : stage'[p] # "idle" => call'[p] \in Traffic
      BY <1>1, <2>4 DEF PipelineInv, TypeOK
    <3> QED BY <1>1, <2>4, <3>1, <3>2 DEF PipelineInv, TypeOK
  <2>6. DeadlineNear' /\ UserOverHttp'
    BY <1>1, <2>4 DEF PipelineInv, DeadlineNear, UserOverHttp
  <2>7. ASSUME NEW p \in Requests, CanCommit(p)'
        PROVE  /\ store'[call'[p].key].state = "processing"
               /\ store'[call'[p].key].owner = p
               /\ left'[p] <= store'[call'[p].key].ttl
    <3>1. CASE p = r
      <4>1. left[r] <= ProcessingTTL
        BY <1>1, <2>7, <3>1, LeaseAssumption, TimesAssumption
        DEF PipelineInv, DeadlineNear, CanCommit, TypeOK
      <4> QED BY <1>1, <2>1, <2>2, <2>4, <3>1, <4>1 DEF k
    <3>2. CASE p # r
      <4>1. CanCommit(p) /\ call[p].key \in Keys
        BY <1>1, <2>4, <2>7, <3>2 DEF CanCommit, Guarded, Mutates
      <4>2. /\ store[call[p].key].state = "processing" /\ store[call[p].key].owner = p
            /\ left[p] <= store[call[p].key].ttl
        BY <4>1 DEF PipelineInv, LeaseOutlives
      <4>3. call[p].key # k
        BY <2>1, <4>2
      <4> QED BY <1>1, <2>4, <4>1, <4>2, <4>3
    <3> QED BY <3>1, <3>2
  <2> QED BY <2>5, <2>6, <2>7 DEF PipelineInv, LeaseOutlives
<1> QED BY <1>4, <1>5, <1>6 DEF IdempotencyExecution

LEMMA HandlerStep ==
  ASSUME PipelineInv, NEW r \in Requests, Handler(r) \/ Panic(r) \/ Crash(r)
  PROVE  PipelineInv'
<1>1. /\ UNCHANGED <<workload, call, left, store, lapsed, entitled>>
      /\ stage[r] # "idle"
  BY DEF Handler, Panic, Crash, InFlight, history
<1>2. call[r].key \in Keys \cup {NoKey, BadKey}
  BY <1>1, TrafficAssumption DEF PipelineInv, TypeOK
<1>3. applied' \subseteq applied \cup {r} /\ doubted' \subseteq doubted \cup {call[r].key}
  BY DEF Handler, Panic, Crash, history
<1>4. HistoryOK'
  BY <1>1, <1>2, <1>3 DEF HistoryOK, PipelineInv, TypeOK
<1>5. PICK s \in {"persist", "done", "lost"} : stage' = [stage EXCEPT ![r] = s]
  BY DEF Handler, Respond, Panic, Refuse, Crash
<1> QED BY <1>1, <1>4, <1>5, MovesOn DEF Stages

LEMMA StoredFields ==
  ASSUME NEW r, NEW ok \in BOOLEAN, DOMAIN store[call[r].key] = DOMAIN NoRecord
  PROVE  /\ DOMAIN Stored(r, ok) = DOMAIN NoRecord
         /\ Stored(r, ok).state = IF ok THEN "completed" ELSE "failed"
         /\ Stored(r, ok).owner = r /\ Stored(r, ok).ttl \in Nat
         /\ Stored(r, ok).fingerprint = store[call[r].key].fingerprint
BY NoRecordFields, TimesAssumption DEF Stored

\* Only the owner of a record replaces it, and an owner that may still commit
\* is in the handler.
LEMMA PersistStep ==
  ASSUME PipelineInv, NEW r \in Requests, Persist(r)
  PROVE  PipelineInv'
<1> DEFINE k == call[r].key
           kept == Stored(r, Succeeded(r))
<1>1. /\ UNCHANGED <<workload, call, left, applied, lapsed, doubted, entitled>>
      /\ stage[r] = "persist" /\ stage' = [stage EXCEPT ![r] = "done"]
  BY DEF Persist, history
<1>2. HistoryOK'
  BY <1>1 DEF HistoryOK, PipelineInv, TypeOK
<1>3. CASE UNCHANGED store
  BY <1>1, <1>2, <1>3, MovesOn DEF Stages
<1>4. CASE k \notin Keys
  BY <1>1, <1>2, <1>3, <1>4, MovesOn DEF Stages, Persist, PipelineInv, TypeOK
<1>5. CASE k \in Keys /\ Owned(r, k) /\ store' = [store EXCEPT ![k] = kept]
  <2>1. /\ DOMAIN kept = DOMAIN NoRecord /\ kept.state \in {"completed", "failed"}
        /\ kept.owner = r /\ kept.ttl \in Nat
    <3>1. DOMAIN store[k] = DOMAIN NoRecord
      BY <1>5, RecordShape DEF PipelineInv
    <3>2. Succeeded(r) \in BOOLEAN
      BY DEF Succeeded
    <3> QED BY <3>1, <3>2, StoredFields
  <2> HIDE DEF kept
  <2>2. /\ \A p \in Requests : stage'[p] = IF p = r THEN "done" ELSE stage[p]
        /\ \A j \in Keys : store'[j] = IF j = k THEN kept ELSE store[j]
        /\ stage' \in [Requests -> Stages] /\ store' = [j \in Keys |-> store'[j]]
    BY <1>1, <1>5 DEF PipelineInv, TypeOK, Stages
  <2>3. TypeOK'
    <3>1. \A j \in Keys : /\ DOMAIN store'[j] = DOMAIN NoRecord
                          /\ store'[j].state \in States
                          /\ store'[j].ttl \in Nat
                          /\ store'[j].state # "none" => store'[j].owner \in Requests
      BY <2>1, <2>2 DEF PipelineInv, TypeOK, States
    <3>2. \A p \in Requests : stage'[p] # "idle" => call'[p] \in Traffic
      BY <1>1, <2>2 DEF PipelineInv, TypeOK
    <3> QED BY <1>1, <2>2, <3>1, <3>2 DEF PipelineInv, TypeOK
  <2>4. DeadlineNear' /\ UserOverHttp'
    BY <1>1, <2>2 DEF PipelineInv, DeadlineNear, UserOverHttp
  <2>5. ASSUME NEW p \in Requests, CanCommit(p)'
        PROVE  /\ store'[call'[p].key].state = "processing"
               /\ store'[call'[p].key].owner = p
               /\ left'[p] <= store'[call'[p].key].ttl
    <3>1. p # r /\ CanCommit(p) /\ call[p].key \in Keys
      BY <1>1, <2>2, <2>5 DEF CanCommit, Guarded, Mutates
    <3>2. /\ store[call[p].key].state = "processing" /\ store[call[p].key].owner = p
          /\ left[p] <= store[call[p].key].ttl
      BY <3>1 DEF PipelineInv, LeaseOutlives
    <3>3. call[p].key # k
      BY <1>5, <3>1, <3>2 DEF Owned
    <3> QED BY <1>1, <2>2, <3>1, <3>2, <3>3
  <2> QED BY <2>3, <2>4, <2>5 DEF PipelineInv, LeaseOutlives
<1> QED BY <1>3, <1>4, <1>5 DEF Persist

\* A tick takes one off the deadline and one off the record: who has time left
\* had at least two, and so had its record.
LEMMA TickStep ==
  ASSUME PipelineInv, Tick
  PROVE  PipelineInv'
<1> USE DEF PipelineInv
<1>1. /\ UNCHANGED <<workload, call, stage, applied, doubted, entitled>>
      /\ left' = [r \in Requests |-> Less(left[r])]
      /\ store' = [k \in Keys |-> Aged(store[k])]
      /\ lapsed' \subseteq Keys
  BY DEF Tick, TypeOK
<1>2. \A r \in Requests : left'[r] \in Nat /\ left'[r] <= left[r] /\ (left'[r] > 0 => left'[r] = left[r] - 1)
  BY <1>1 DEF Less, TypeOK
<1>3. \A k \in Keys : /\ DOMAIN store'[k] = DOMAIN NoRecord
                      /\ store'[k].state \in States
                      /\ store'[k].ttl \in Nat
                      /\ store'[k].state # "none" => store'[k].owner \in Requests
  <2> TAKE k \in Keys
  <2>1. store'[k] = Aged(store[k]) /\ DOMAIN store[k] = DOMAIN NoRecord
    BY <1>1, RecordShape
  <2>2. store[k].ttl \in Nat
    BY DEF TypeOK
  <2>3. CASE store[k].ttl > 1
    BY <2>1, <2>2, <2>3, AgedFields DEF TypeOK
  <2>4. CASE ~(store[k].ttl > 1)
    BY <2>1, <2>2, <2>4, NoRecordFields DEF Aged, States
  <2> QED BY <2>3, <2>4
<1>4. left' \in [Requests -> Nat] /\ store' = [k \in Keys |-> store'[k]]
  BY <1>1, <1>2
<1>5. TypeOK'
  BY <1>1, <1>3, <1>4 DEF TypeOK
<1>6. DeadlineNear' /\ UserOverHttp'
  BY <1>1, <1>2, TimesAssumption DEF DeadlineNear, UserOverHttp, TypeOK
<1>7. ASSUME NEW p \in Requests, CanCommit(p)'
      PROVE  /\ store'[call'[p].key].state = "processing"
             /\ store'[call'[p].key].owner = p
             /\ left'[p] <= store'[call'[p].key].ttl
  <2>1. CanCommit(p) /\ call[p].key \in Keys /\ left'[p] > 0 /\ call'[p] = call[p]
    BY <1>1, <1>2, <1>7 DEF CanCommit, Guarded, Mutates, TypeOK
  <2>2. /\ store[call[p].key].state = "processing" /\ store[call[p].key].owner = p
        /\ left[p] <= store[call[p].key].ttl
    BY <2>1 DEF LeaseOutlives
  <2>3. /\ store[call[p].key].ttl \in Nat /\ left[p] \in Nat /\ left'[p] = left[p] - 1
    BY <1>2, <2>1 DEF TypeOK
  <2>4. store[call[p].key].ttl > 1
    BY <2>1, <2>2, <2>3
  <2>5. /\ store'[call[p].key] = Aged(store[call[p].key])
        /\ DOMAIN store[call[p].key] = DOMAIN NoRecord
    BY <1>1, <2>1, RecordShape
  <2> QED BY <2>1, <2>2, <2>3, <2>4, <2>5, AgedFields
<1> QED BY <1>5, <1>6, <1>7 DEF LeaseOutlives

\* Steps that leave the requests and the records alone.
LEMMA OtherStep ==
  ASSUME PipelineInv,
         UNCHANGED <<workload, call, stage, left, store, applied, lapsed, doubted, entitled>>
  PROVE  PipelineInv'
BY DEF PipelineInv, TypeOK, DeadlineNear, UserOverHttp, LeaseOutlives, CanCommit, Guarded, Mutates

\* The lease of the record outlives the deadline of the request that holds it,
\* at every step of the chains, of the clock and of the outages
\* (middleware.go:95-157, 205-215).
THEOREM PipelineInvAlways == Spec => []PipelineInv
<1>1. Init => PipelineInv
  BY PipelineInit
<1>2. PipelineInv /\ [Next]_vars => PipelineInv'
  <2> SUFFICES ASSUME PipelineInv, [Next]_vars PROVE PipelineInv'
    OBVIOUS
  <2>1. ASSUME NEW r \in Requests, NEW q \in workload[r], Arrive(r, q) PROVE PipelineInv'
    BY <2>1, ArriveStep
  <2>2. ASSUME NEW r \in Requests, Serve(r) PROVE PipelineInv'
    BY <2>2, BeforeKeyStep, IdempotencyStep, HandlerStep, PersistStep DEF Serve
  <2>3. ASSUME NEW r \in Requests, Crash(r) PROVE PipelineInv'
    BY <2>3, HandlerStep
  <2>4. CASE Tick
    BY <2>4, TickStep
  <2>5. ASSUME NEW g \in grants, Revoke(g) PROVE PipelineInv'
    BY <2>5, OtherStep DEF Revoke, history
  <2>6. ASSUME NEW d \in Outages, Fails(d) \/ Recovers(d) PROVE PipelineInv'
    BY <2>6, OtherStep DEF Fails, Recovers, history
  <2>7. CASE UNCHANGED vars
    BY <2>7, OtherStep DEF vars, history
  <2> QED BY <2>1, <2>2, <2>3, <2>4, <2>5, <2>6, <2>7 DEF Next
<1> QED BY <1>1, <1>2, PTL DEF Spec

\* The request table, the records in Redis and the history keep their types.
THEOREM PipelineTypeCorrect == Spec => []TypeOK
<1>1. PipelineInv => TypeOK
  BY DEF PipelineInv
<1> QED BY <1>1, PipelineInvAlways, PTL

\* IdempotencyExecution (middleware.go:107): whatever the timeouts, as long as
\* processing_ttl is no shorter than request_timeout, two HTTP deliveries of
\* one key are never both able to commit.
THEOREM CommitIsExclusive == Spec => []ExclusiveCommit
<1>1. PipelineInv => ExclusiveCommit
  <2> SUFFICES ASSUME PipelineInv, NEW r \in Requests, NEW p \in Requests,
                      CanCommit(r), CanCommit(p), call[r].key = call[p].key
               PROVE  r = p
    BY DEF ExclusiveCommit
  <2> QED BY DEF PipelineInv, LeaseOutlives
<1> QED BY <1>1, PipelineInvAlways, PTL

(* -- The tables ------------------------------------------------------------------ *)

HttpOps ==
  {"CreateDefinition", "UpdateDefinition", "PublishDefinition", "DisableDefinition", "GetDefinition",
   "ListDefinitions", "ListStartDefinitionCandidates", "ListInstanceDefinitionCandidates",
   "StartInstance", "CancelInstance", "GetInstance", "ListInstances", "ClaimTask", "CompleteTask",
   "DelegateTask", "GetTask", "ListTasks", "ListTaskHistory", "ListInstanceTaskHistory",
   "ListTaskInstanceCandidates"}

HttpOnly ==
  {"ListStartDefinitionCandidates", "ListInstanceDefinitionCandidates", "ListTaskInstanceCandidates"}

\* The operations whose service method has another name.
Renamed == {"ListTasks", "ListInstanceTaskHistory", "ListTaskInstanceCandidates"}

LEMMA SurfaceOps ==
  DOMAIN Handlers.http = HttpOps /\ DOMAIN Handlers.grpc = HttpOps \ HttpOnly
<1>1. DOMAIN Handlers.http = HttpOps
  BY DEF Handlers, ++, DefinitionHandlers, CandidateHandlers, InstanceHandlers,
         TaskWriteHandlers, TaskReadHandlers, HttpOps
<1>2. DOMAIN Handlers.grpc = HttpOps \ HttpOnly
  BY DEF Handlers, ++, DefinitionMethods, InstanceMethods, TaskMethods, HttpOps, HttpOnly
<1> QED BY <1>1, <1>2

\* Every operation needs a permission, the same on both transports
\* (authorization.go).
LEMMA SurfacePermissions ==
  /\ DOMAIN workflowHTTPRequirement = HttpOps
  /\ DOMAIN workflowGRPCRequirement = HttpOps \ HttpOnly
  /\ \A op \in HttpOps \ HttpOnly : workflowGRPCRequirement[op] = workflowHTTPRequirement[op]
<1>1. DOMAIN workflowHTTPRequirement = HttpOps
  BY DEF workflowHTTPRequirement, ++, On, HttpOps
<1>2. DOMAIN workflowGRPCRequirement = HttpOps \ HttpOnly
  BY DEF workflowGRPCRequirement, ++, On, HttpOps, HttpOnly
<1>3. \A op \in DOMAIN workflowGRPCRequirement : workflowGRPCRequirement[op] = workflowHTTPRequirement[op]
  BY DEF workflowGRPCRequirement, workflowHTTPRequirement, ++, On, Permission
<1> QED BY <1>1, <1>2, <1>3

LEMMA CheckTables ==
  /\ DOMAIN Checks = (HttpOps \ Renamed) \cup {"ListMyTasks", "ListMyTaskInstanceCandidates"}
  /\ \A s \in DOMAIN Checks : \A f \in DOMAIN Checks[s] : Checks[s][f] \in {"invalid", "stale"}
<1>1. DOMAIN Checks = (HttpOps \ Renamed) \cup {"ListMyTasks", "ListMyTaskInstanceCandidates"}
  BY DEF Checks, ++, DefinitionChecks, InstanceChecks, TaskChecks, HttpOps, Renamed
<1>2. \A s \in DOMAIN Checks : \A f \in DOMAIN Checks[s] : Checks[s][f] \in {"invalid", "stale"}
  BY DEF Checks, ++, DefinitionChecks, InstanceChecks, TaskChecks, Invalid
<1> QED BY <1>1, <1>2

\* Every operation calls a method of the service on both transports.
LEMMA ServicesKnown ==
  \A t \in Transports : \A op \in DOMAIN Handlers[t] : Handlers[t][op].service \in DOMAIN Checks
<1>1. ASSUME NEW op \in HttpOps PROVE Handlers.http[op].service \in DOMAIN Checks
  <2>1. CASE op \in Renamed
    <3>1. Handlers.http[op].service \in {"ListMyTasks", "ListTaskHistory", "ListMyTaskInstanceCandidates"}
      BY <2>1 DEF Handlers, ++, DefinitionHandlers, CandidateHandlers, InstanceHandlers,
                  TaskWriteHandlers, TaskReadHandlers, Calls, Renamed
    <3> QED BY <3>1, CheckTables DEF HttpOps, Renamed
  <2>2. CASE op \notin Renamed
    <3>1. Handlers.http[op].service = op
      BY <2>2 DEF Handlers, ++, DefinitionHandlers, CandidateHandlers, InstanceHandlers,
                  TaskWriteHandlers, TaskReadHandlers, Calls, HttpOps, Renamed
    <3> QED BY <2>2, <3>1, CheckTables
  <2> QED BY <2>1, <2>2
<1>2. ASSUME NEW op \in HttpOps \ HttpOnly PROVE Handlers.grpc[op].service \in DOMAIN Checks
  <2>1. CASE op \in Renamed
    <3>1. Handlers.grpc[op].service \in {"ListMyTasks", "ListTaskHistory"}
      BY <2>1 DEF Handlers, ++, DefinitionMethods, InstanceMethods, TaskMethods, Calls, HttpOnly, Renamed
    <3> QED BY <3>1, CheckTables DEF HttpOps, Renamed
  <2>2. CASE op \notin Renamed
    <3>1. Handlers.grpc[op].service = op
      BY <2>2 DEF Handlers, ++, DefinitionMethods, InstanceMethods, TaskMethods, Calls,
                  HttpOps, HttpOnly, Renamed
    <3> QED BY <2>2, <3>1, CheckTables
  <2> QED BY <2>1, <2>2
<1> QED BY <1>1, <1>2, SurfaceOps DEF Transports

\* The service insists on every field its mutations need, whatever the
\* transport has bound before.
LEMMA MutationsChecked ==
  ASSUME NEW t \in Transports, NEW op \in Mutations
  PROVE  FullBody(op) \subseteq DOMAIN Checks[Handlers[t][op].service]
<1>1. Handlers[t][op].service = op
  <2>1. Handlers.http[op].service = op
    BY DEF Mutations, Handlers, ++, DefinitionHandlers, CandidateHandlers, InstanceHandlers,
           TaskWriteHandlers, TaskReadHandlers, Calls
  <2>2. Handlers.grpc[op].service = op
    BY DEF Mutations, Handlers, ++, DefinitionMethods, InstanceMethods, TaskMethods, Calls
  <2> QED BY <2>1, <2>2 DEF Transports
<1>2. /\ Bound["CreateDefinition"] = Scope \cup {"key", "name", "nodes", "edges"}
      /\ Bound["UpdateDefinition"] = Versioned \cup {"name", "nodes", "edges"}
      /\ Bound["PublishDefinition"] = Versioned
      /\ Bound["DisableDefinition"] = Versioned
      /\ Bound["StartInstance"] = Scope \cup {"definition_key", "business_key", "title", "idempotency_key"}
      /\ Bound["CancelInstance"] = Versioned \cup {"reason"}
      /\ Bound["ClaimTask"] = Versioned
      /\ Bound["CompleteTask"] = Versioned \cup {"decision"}
      /\ Bound["DelegateTask"] = Versioned \cup {"delegate_to", "reason"}
  BY DEF Bound, DefinitionRequests, InstanceRequests, TaskRequests, ++
<1>3. /\ DOMAIN Checks["CreateDefinition"] = Scope \cup {"key", "name", "nodes", "edges"}
      /\ DOMAIN Checks["UpdateDefinition"] = Versioned \cup {"name", "nodes", "edges"}
      /\ DOMAIN Checks["PublishDefinition"] = Versioned
      /\ DOMAIN Checks["DisableDefinition"] = Versioned
      /\ DOMAIN Checks["StartInstance"] = Scope \cup {"definition_key", "business_key", "title", "idempotency_key"}
      /\ DOMAIN Checks["CancelInstance"] = Versioned \cup {"reason"}
      /\ DOMAIN Checks["ClaimTask"] = Versioned
      /\ DOMAIN Checks["CompleteTask"] = Versioned \cup {"decision"}
      /\ DOMAIN Checks["DelegateTask"] = Versioned \cup {"delegate_to", "reason"}
  BY DEF Checks, ++, DefinitionChecks, InstanceChecks, TaskChecks, Invalid, Versioned
<1>4. Scope \subseteq Versioned
  BY DEF Versioned, Identity
<1>5. FullBody(op) \subseteq DOMAIN Checks[op]
  BY <1>2, <1>3, <1>4 DEF Mutations, FullBody
<1> QED BY <1>1, <1>5

\* An error of the service is not answered as a success.
LEMMA ErrorsFail ==
  /\ {"invalid", "stale", "actor", "forbidden", "deadline", "other"} \subseteq ServiceErrors
  /\ {"ok", "doubt"} \cap ServiceErrors = {}
  /\ \A t \in Transports : \A e \in ServiceErrors : ErrorAnswer[t][e] # Success[t]
BY DEF Transports, ServiceErrors, ErrorAnswer, workflowHTTPError, grpcError, Success

\* Neither is a refusal of the chain.
LEMMA RefusalsFail ==
  /\ \A x \in DOMAIN HttpRefusal : Refusal.http[x] \notin {Success.http, Success.grpc}
  /\ DOMAIN HttpRefusal = {"bad_key", "origin", "media", "too_many", "unauthenticated", "denied",
                           "unavailable", "in_progress", "other_request", "unbound", "panic"}
  /\ \A x \in {"bad_key", "unauthenticated", "panic", "denied", "unavailable", "in_progress", "other_request"} :
       Refusal.grpc[x] \notin {Success.http, Success.grpc}
BY DEF Refusal, HttpRefusal, GrpcRefusal, LibraryRefusal, ++, Success

(* -- What a step can do ------------------------------------------------------------ *)
(* The steps of one request, told apart by what they do to the records.            *)

\* Answers and principals are kept by request.
Shapes == DOMAIN answer = Requests /\ DOMAIN subject = Requests

Moves(r, s) == \A p \in Requests : stage'[p] = IF p = r THEN s ELSE stage[p]

OthersKept(r) ==
  \A p \in Requests : p # r => answer'[p] = answer[p] /\ subject'[p] = subject[p]

Arrives(r) ==
  /\ stage[r] = "idle" /\ Moves(r, "edge")
  /\ \A p \in Requests : p # r => call'[p] = call[p]
  /\ UNCHANGED <<answer, subject, store, applied, lapsed, doubted>>

\* A request goes on or ends without touching the records.
Walks(r, s) ==
  /\ InFlight(r) /\ Moves(r, s)
  /\ \/ s \in {"done", "lost"}
     \/ /\ stage[r] \in {"edge", "authn", "authz", "user", "idem"}
        /\ s \in {"authn", "authz", "user", "idem", "handler"} /\ (s = "handler" => ~Guarded(r))
  /\ answer' = answer \/ answer'[r].by = NoCall
  /\ stage[r] # "authn" => UNCHANGED subject
  /\ OthersKept(r)
  /\ UNCHANGED <<call, store, applied, lapsed, doubted>>

Acquires(r, k) ==
  /\ stage[r] = "idem" /\ Moves(r, "handler")
  /\ k = call[r].key /\ k \in Keys /\ store[k].state = "none"
  /\ store'[k].state = "processing" /\ store'[k].owner = r
  /\ store'[k].fingerprint = idempotencyFingerprint(r)
  /\ \A j \in Keys \ {k} : store'[j] = store[j]
  /\ UNCHANGED <<call, answer, subject, applied, lapsed, doubted>>

Replays(r, k) ==
  /\ stage[r] = "idem" /\ Moves(r, "done")
  /\ k \in Keys /\ store[k].state # "none"
  /\ store[k].fingerprint = idempotencyFingerprint(r)
  /\ answer'[r].by = store[k].owner
  /\ OthersKept(r)
  /\ UNCHANGED <<call, store, subject, applied, lapsed, doubted>>

Handles(r) ==
  /\ stage[r] = "handler" /\ Moves(r, IF Guarded(r) THEN "persist" ELSE "done")
  /\ answer'[r].by = r
  /\ \/ applied' = applied
     \/ /\ applied' = applied \cup {r} /\ Mutates(call[r])
        /\ call[r].omit \notin FullBody(call[r].op)
  /\ Guarded(r) =>
       IF answer'[r].code = Success[call[r].transport] THEN r \in applied'
       ELSE r \in applied' \ applied => call[r].key \in doubted'
  /\ doubted \subseteq doubted'
  /\ OthersKept(r)
  /\ UNCHANGED <<call, store, subject, lapsed>>

Persists(r, k) ==
  /\ stage[r] = "persist" /\ Moves(r, "done")
  /\ k = call[r].key /\ k \in Keys /\ Owned(r, k)
  /\ store'[k].state = IF Succeeded(r) THEN "completed" ELSE "failed"
  /\ store'[k].owner = r /\ store'[k].fingerprint = store[k].fingerprint
  /\ \A j \in Keys \ {k} : store'[j] = store[j]
  /\ UNCHANGED <<call, answer, subject, applied, lapsed, doubted>>

\* Records run out, and that is remembered.
Ages ==
  /\ UNCHANGED <<call, stage, answer, subject, applied, doubted>>
  /\ lapsed \subseteq lapsed'
  /\ \A k \in Keys :
       \/ store'[k].state = "none" /\ (store[k].state # "none" => k \in lapsed')
       \/ /\ store'[k].state = store[k].state /\ store'[k].owner = store[k].owner
          /\ store'[k].fingerprint = store[k].fingerprint

RequestStep(r) ==
  \/ Arrives(r) \/ Handles(r)
  \/ \E s \in Stages : Walks(r, s)
  \/ \E k \in Keys : Acquires(r, k) \/ Replays(r, k) \/ Persists(r, k)

PipelineStep == Ages \/ \E r \in Requests : RequestStep(r)

LEMMA MovesTo ==
  ASSUME TypeOK, NEW r \in Requests, NEW s, stage' = [stage EXCEPT ![r] = s]
  PROVE  Moves(r, s)
BY DEF TypeOK, Moves

LEMMA RepliesTo ==
  ASSUME Shapes, NEW r \in Requests, NEW code, NEW by, Reply(r, code, by), UNCHANGED subject
  PROVE  /\ OthersKept(r) /\ answer'[r].by = by /\ answer'[r].code = code
         /\ DOMAIN answer' = Requests
BY DEF Shapes, Reply, OthersKept

LEMMA ArriveView ==
  ASSUME PipelineInv, NEW r \in Requests, NEW q, Arrive(r, q)
  PROVE  Arrives(r)
<1>1. Moves(r, "edge")
  BY MovesTo DEF PipelineInv, Arrive
<1> QED BY <1>1 DEF Arrive, Arrives, PipelineInv, TypeOK

LEMMA BeforeKeyView ==
  ASSUME PipelineInv, Shapes, NEW r \in Requests,
         Edge(r) \/ Authentication(r) \/ Authorization(r) \/ UserLimit(r)
  PROVE  \E s \in Stages : Walks(r, s)
<1>1. /\ UNCHANGED <<call, left, store, applied, lapsed, doubted>>
      /\ stage[r] \in {"edge", "authn", "authz", "user"}
  BY DEF Edge, Authentication, Authorization, UserLimit, history
<1>2. InFlight(r) /\ call[r].transport \in Transports
  BY <1>1, TrafficAssumption DEF InFlight, PipelineInv, TypeOK
<1>3. After(r) \in {"authn", "authz", "user", "idem"}
  <2>1. call[r].transport # "http" => stage[r] # "user"
    BY DEF PipelineInv, UserOverHttp
  <2> QED BY <1>1, <2>1, Chains DEF After
<1>4. stage[r] # "authn" => UNCHANGED subject
  BY DEF Edge, Authentication, Authorization, UserLimit
<1>5. \A p \in Requests : p # r => subject'[p] = subject[p]
  BY DEF Edge, Authentication, Authorization, UserLimit, Shapes
<1>6. Pass(r) \/ \E x : Refuse(r, x)
  BY DEF Edge, HttpEdge, GrpcEdge, RateLimit, Authentication, Authorization, UserLimit
<1>7. CASE Pass(r)
  <2>1. Moves(r, After(r)) /\ answer' = answer
    BY <1>7, MovesTo DEF Pass, PipelineInv
  <2>2. Walks(r, After(r)) /\ After(r) \in Stages
    BY <1>1, <1>2, <1>3, <1>4, <1>5, <2>1 DEF Walks, OthersKept, Stages
  <2> QED BY <2>2
<1>8. ASSUME NEW x, Refuse(r, x) PROVE \E s \in Stages : Walks(r, s)
  <2>1. Moves(r, "done")
    BY <1>8, MovesTo DEF Refuse, PipelineInv
  <2>2. /\ \A p \in Requests : p # r => answer'[p] = answer[p]
        /\ answer'[r].by = NoCall
    BY <1>8 DEF Refuse, Reply, Shapes
  <2>3. Walks(r, "done") /\ "done" \in Stages
    BY <1>1, <1>2, <1>4, <1>5, <2>1, <2>2 DEF Walks, OthersKept, Stages
  <2> QED BY <2>3
<1> QED BY <1>6, <1>7, <1>8

LEMMA IdempotencyView ==
  ASSUME PipelineInv, Shapes, NEW r \in Requests, IdempotencyExecution(r)
  PROVE  (\E s \in Stages : Walks(r, s)) \/ (\E k \in Keys : Acquires(r, k) \/ Replays(r, k))
<1>1. /\ UNCHANGED <<call, subject, applied, lapsed, doubted>> /\ stage[r] = "idem"
      /\ InFlight(r) /\ {"done", "handler"} \subseteq Stages
  BY DEF IdempotencyExecution, history, InFlight, Stages
<1>2. After(r) = "handler"
  BY <1>1, Chains DEF After
<1>3. CASE ~Guarded(r) /\ Pass(r) /\ UNCHANGED store
  <2>1. Moves(r, "handler") /\ answer' = answer
    BY <1>2, <1>3, MovesTo DEF Pass, PipelineInv
  <2>2. Walks(r, "handler")
    BY <1>1, <1>3, <2>1 DEF Walks, OthersKept
  <2> QED BY <1>1, <2>2
<1>4. ASSUME NEW x, Refuse(r, x), UNCHANGED store PROVE \E s \in Stages : Walks(r, s)
  <2>1. Moves(r, "done")
    BY <1>4, MovesTo DEF Refuse, PipelineInv
  <2>2. OthersKept(r) /\ answer'[r].by = NoCall
    BY <1>1, <1>4, RepliesTo DEF Refuse
  <2>3. Walks(r, "done")
    BY <1>1, <1>4, <2>1, <2>2 DEF Walks
  <2> QED BY <1>1, <2>3
<1>5. CASE Guarded(r) /\ BeginAcquires(r, call[r].key)
  <2> DEFINE held == [state |-> "processing", owner |-> r, fingerprint |-> idempotencyFingerprint(r),
                      code |-> "none", ttl |-> ProcessingTTL]
  <2>1. PICK k \in Keys : k = call[r].key
    BY <1>5 DEF Guarded
  <2>2. store[k].state = "none" /\ store' = [store EXCEPT ![k] = held] /\ answer' = answer
    BY <1>5, <2>1 DEF BeginAcquires, Pass
  <2>3. Moves(r, "handler")
    BY <1>2, <1>5, MovesTo DEF BeginAcquires, Pass, PipelineInv
  <2>4. held.state = "processing" /\ held.owner = r /\ held.fingerprint = idempotencyFingerprint(r)
    OBVIOUS
  <2> HIDE DEF held
  <2>5. store'[k] = held /\ \A j \in Keys \ {k} : store'[j] = store[j]
    BY <2>2 DEF PipelineInv, TypeOK
  <2>6. Acquires(r, k)
    BY <1>1, <2>1, <2>2, <2>3, <2>4, <2>5 DEF Acquires
  <2> QED BY <2>6
<1>6. CASE Guarded(r) /\ BeginFinds(r, call[r].key) /\ ~\E x : Refuse(r, x)
  <2>1. PICK k \in Keys : k = call[r].key
    BY <1>6 DEF Guarded
  <2>2. /\ store[k].state # "none" /\ store[k].fingerprint = idempotencyFingerprint(r)
        /\ Reply(r, store[k].code, store[k].owner) /\ stage' = [stage EXCEPT ![r] = "done"]
        /\ UNCHANGED store
    BY <1>6, <2>1 DEF BeginFinds
  <2>3. Moves(r, "done")
    BY <2>2, MovesTo DEF PipelineInv
  <2>4. OthersKept(r) /\ answer'[r].by = store[k].owner
    BY <1>1, <2>2, RepliesTo
  <2>5. Replays(r, k)
    BY <1>1, <2>2, <2>3, <2>4 DEF Replays
  <2> QED BY <2>5
<1>7. BeginUnavailable(r, call[r].key) \/ BeginFinds(r, call[r].key) => UNCHANGED store
  BY DEF BeginUnavailable, BeginFinds
<1>8. BeginUnavailable(r, call[r].key) => Refuse(r, "unavailable")
  BY DEF BeginUnavailable
<1> QED BY <1>3, <1>4, <1>5, <1>6, <1>7, <1>8 DEF IdempotencyExecution

\* What the service returns, and what the client is told of it.
LEMMA HandlerView ==
  ASSUME PipelineInv, Shapes, NEW r \in Requests, Handler(r)
  PROVE  Handles(r)
<1> DEFINE q == call[r]
           n == IF Guarded(r) THEN "persist" ELSE "done"
<1>1. /\ UNCHANGED <<call, subject, store, lapsed>> /\ stage[r] = "handler"
  BY DEF Handler
<1>2. /\ q \in Traffic /\ q.transport \in Transports /\ q.op \in DOMAIN Handlers[q.transport]
  BY <1>1, TrafficAssumption DEF PipelineInv, TypeOK
<1>3. ASSUME NEW code, Respond(r, code)
      PROVE  Moves(r, n) /\ OthersKept(r) /\ answer'[r].by = r /\ answer'[r].code = code
  BY <1>1, <1>3, MovesTo, RepliesTo DEF Respond, PipelineInv
<1>4. CASE ~Binds(q) /\ Respond(r, Refusal.http.unbound) /\ UNCHANGED <<applied, doubted>>
  <2>1. q.transport = "http"
    BY <1>2, <1>4 DEF Binds, Transports
  <2>2. Refusal.http.unbound # Success.http
    BY RefusalsFail
  <2>3. answer'[r].code # Success[q.transport]
    BY <1>3, <1>4, <2>1, <2>2
  <2> QED BY <1>1, <1>3, <1>4, <2>3 DEF Handles
<1>5. ASSUME Binds(q), NEW result \in Results(r), Respond(r, Written(r, result)),
             applied' = IF Mutates(q) /\ result \in {"ok", "doubt"} THEN applied \cup {r} ELSE applied,
             doubted' = IF result = "doubt" THEN doubted \cup {q.key} ELSE doubted
      PROVE  Handles(r)
  <2>1. \A f \in Missing(q) : Checks[ServiceCall(q).service][f] \in {"invalid", "stale"}
    BY <1>2, ServicesKnown, CheckTables DEF Missing, ServiceCall
  <2>2. /\ result \in {"ok", "doubt"} \cup ServiceErrors
        /\ result \in {"ok", "doubt"} => Missing(q) = {}
    BY <2>1, ErrorsFail, ErrorsAssumption DEF Results
  <2>3. result \notin {"ok"} => Written(r, result) # Success[q.transport]
    BY <1>2, <2>2, ErrorsFail DEF Written
  <2>4. Mutates(q) /\ result \in {"ok", "doubt"} => q.omit \notin FullBody(q.op)
    BY <1>2, <2>2, MutationsChecked DEF Mutates, Missing, ServiceCall
  <2>5. answer'[r].code = Written(r, result)
    BY <1>3, <1>5
  <2>6. Guarded(r) =>
          IF answer'[r].code = Success[q.transport] THEN r \in applied'
          ELSE r \in applied' \ applied => q.key \in doubted'
    <3>1. Guarded(r) => Mutates(q)
      BY DEF Guarded
    <3>2. result = "ok" => Written(r, result) = Success[q.transport]
      BY DEF Written
    <3> QED BY <1>5, <2>3, <2>5, <3>1, <3>2
  <2>7. applied' = applied \/ (applied' = applied \cup {r} /\ Mutates(q) /\ q.omit \notin FullBody(q.op))
    BY <1>5, <2>4
  <2>8. doubted \subseteq doubted'
    BY <1>5
  <2> QED BY <1>1, <1>3, <1>5, <2>6, <2>7, <2>8 DEF Handles
<1> QED BY <1>4, <1>5 DEF Handler

LEMMA LostView ==
  ASSUME PipelineInv, Shapes, NEW r \in Requests, Panic(r) \/ Crash(r)
  PROVE  \E s \in Stages : Walks(r, s)
<1>1. UNCHANGED <<call, subject, store, applied, lapsed, doubted>> /\ InFlight(r)
  BY DEF Panic, Crash, history, InFlight
<1>2. CASE Panic(r)
  <2>1. Moves(r, "done") /\ OthersKept(r) /\ answer'[r].by = NoCall
    BY <1>1, <1>2, MovesTo, RepliesTo DEF Panic, Refuse, PipelineInv
  <2>2. Walks(r, "done") /\ "done" \in Stages
    BY <1>1, <2>1 DEF Walks, Stages
  <2> QED BY <2>2
<1>3. CASE Crash(r)
  <2>1. Moves(r, "lost") /\ answer' = answer
    BY <1>3, MovesTo DEF Crash, PipelineInv
  <2>2. Walks(r, "lost") /\ "lost" \in Stages
    BY <1>1, <2>1 DEF Walks, OthersKept, Stages
  <2> QED BY <2>2
<1> QED BY <1>2, <1>3

LEMMA PersistView ==
  ASSUME PipelineInv, Shapes, NEW r \in Requests, Persist(r)
  PROVE  (\E s \in Stages : Walks(r, s)) \/ (\E k \in Keys : Persists(r, k))
<1> DEFINE kept == Stored(r, Succeeded(r))
<1>1. /\ UNCHANGED <<call, answer, subject, applied, lapsed, doubted>>
      /\ stage[r] = "persist" /\ stage' = [stage EXCEPT ![r] = "done"]
  BY DEF Persist, history
<1>2. Moves(r, "done")
  BY <1>1, MovesTo DEF PipelineInv
<1>3. CASE UNCHANGED store
  <2>1. Walks(r, "done") /\ "done" \in Stages
    BY <1>1, <1>2, <1>3 DEF Walks, InFlight, OthersKept, Stages
  <2> QED BY <2>1
<1>4. CASE call[r].key \in Keys /\ Owned(r, call[r].key) /\ store' = [store EXCEPT ![call[r].key] = kept]
  <2>1. PICK k \in Keys : k = call[r].key
    BY <1>4
  <2>2. DOMAIN store[k] = DOMAIN NoRecord
    BY RecordShape DEF PipelineInv
  <2>3. /\ kept.state = (IF Succeeded(r) THEN "completed" ELSE "failed") /\ kept.owner = r
        /\ kept.fingerprint = store[k].fingerprint
    <3>1. Succeeded(r) \in BOOLEAN
      BY DEF Succeeded
    <3> QED BY <2>1, <2>2, <3>1, StoredFields
  <2> HIDE DEF kept
  <2>4. store'[k] = kept /\ \A j \in Keys \ {k} : store'[j] = store[j]
    BY <1>4, <2>1 DEF PipelineInv, TypeOK
  <2>5. Persists(r, k)
    BY <1>1, <1>2, <1>4, <2>1, <2>3, <2>4 DEF Persists
  <2> QED BY <2>5
<1>5. CASE call[r].key \notin Keys /\ store' = [store EXCEPT ![call[r].key] = kept]
  BY <1>3, <1>5 DEF PipelineInv, TypeOK
<1> QED BY <1>3, <1>4, <1>5 DEF Persist

LEMMA TickView ==
  ASSUME PipelineInv, Tick
  PROVE  Ages
<1>1. UNCHANGED <<call, stage, answer, subject, applied, doubted>> /\ lapsed \subseteq lapsed'
  BY DEF Tick
<1>2. ASSUME NEW k \in Keys
      PROVE  \/ store'[k].state = "none" /\ (store[k].state # "none" => k \in lapsed')
             \/ /\ store'[k].state = store[k].state /\ store'[k].owner = store[k].owner
                /\ store'[k].fingerprint = store[k].fingerprint
  <2>1. store'[k] = Aged(store[k]) /\ DOMAIN store[k] = DOMAIN NoRecord /\ store[k].ttl \in Nat
    BY RecordShape DEF Tick, PipelineInv, TypeOK
  <2>2. CASE store[k].ttl > 1
    BY <2>1, <2>2, AgedFields
  <2>3. CASE ~(store[k].ttl > 1)
    <3>1. Aged(store[k]) = NoRecord
      BY <2>1, <2>3 DEF Aged
    <3>2. store[k].state # "none" => k \in lapsed'
      BY <3>1 DEF Tick
    <3> QED BY <2>1, <3>1, <3>2, NoRecordFields
  <2> QED BY <2>2, <2>3
<1> QED BY <1>1, <1>2 DEF Ages

LEMMA RestView ==
  ASSUME UNCHANGED <<call, stage, answer, subject, store, applied, lapsed, doubted>>
  PROVE  Ages
BY DEF Ages

LEMMA NextStep ==
  ASSUME PipelineInv, Shapes, [Next]_vars
  PROVE  PipelineStep
<1>1. ASSUME NEW r \in Requests, NEW q \in workload[r], Arrive(r, q) PROVE PipelineStep
  BY <1>1, ArriveView DEF PipelineStep, RequestStep
<1>2. ASSUME NEW r \in Requests, Serve(r) \/ Crash(r) PROVE PipelineStep
  <2>1. RequestStep(r)
    BY <1>2, BeforeKeyView, IdempotencyView, HandlerView, LostView, PersistView DEF Serve, RequestStep
  <2> QED BY <2>1 DEF PipelineStep
<1>3. CASE Tick
  BY <1>3, TickView DEF PipelineStep
<1>4. ASSUME NEW g \in grants, Revoke(g) PROVE PipelineStep
  BY <1>4, RestView DEF PipelineStep, Revoke, history
<1>5. ASSUME NEW d \in Outages, Fails(d) \/ Recovers(d) PROVE PipelineStep
  BY <1>5, RestView DEF PipelineStep, Fails, Recovers, history
<1>6. CASE UNCHANGED vars
  BY <1>6, RestView DEF PipelineStep, vars, history
<1> QED BY <1>1, <1>2, <1>3, <1>4, <1>5, <1>6 DEF Next

(* -- Keys and records ----------------------------------------------------------------- *)

\* A request past the idempotency middleware.
Past == {"handler", "persist", "done", "lost"}

Engaged(r) == stage[r] \in {"handler", "persist"} \/ r \in applied

AppliedLate ==
  \A r \in applied : /\ stage[r] \in {"persist", "done", "lost"} /\ Mutates(call[r])
                     /\ call[r].omit \notin FullBody(call[r].op)

\* Until a record of its key runs out, whoever got as far as the handler with
\* the key is the owner of its record.
HoldersKnown ==
  \A r \in Requests : Engaged(r) /\ Guarded(r) /\ call[r].key \notin lapsed =>
    store[call[r].key].state # "none" /\ store[call[r].key].owner = r

\* A record carries the fingerprint of the request that owns it.
RecordsOwned ==
  \A k \in Keys : store[k].state # "none" =>
    /\ store[k].owner \in Requests /\ stage[store[k].owner] \in Past
    /\ store[k].fingerprint = idempotencyFingerprint(store[k].owner)

\* A settled record tells what its owner did.
Settled ==
  \A k \in Keys :
    /\ store[k].state \in {"completed", "failed"} => stage[store[k].owner] = "done"
    /\ store[k].state = "completed" => store[k].owner \in applied
    /\ store[k].state = "failed" /\ store[k].owner \in applied => k \in doubted

\* So does the answer that is about to be stored.
PersistTold ==
  \A r \in Requests : stage[r] = "persist" =>
    /\ Guarded(r)
    /\ Succeeded(r) => r \in applied
    /\ ~Succeeded(r) /\ r \in applied => call[r].key \in doubted

Replayed ==
  \A r \in Requests : \A p \in Requests \ {r} :
    answer[r].by = p => /\ stage[r] = "done" /\ stage[p] \in Past
                        /\ subject[r] = subject[p]
                        /\ call[r].op = call[p].op
                        /\ call[r].body = call[p].body

KeyInv == AppliedLate /\ HoldersKnown /\ RecordsOwned /\ Settled /\ PersistTold /\ Replayed

LEMMA KeyInvInit == Init => KeyInv
<1> SUFFICES ASSUME Init PROVE KeyInv
  OBVIOUS
<1>1. \A r \in Requests : stage[r] = "idle" /\ answer[r].by = NoCall
  BY DEF Init, NoAnswer
<1>2. \A k \in Keys : store[k].state = "none"
  BY NoRecordFields DEF Init
<1>3. AppliedLate /\ HoldersKnown /\ RecordsOwned /\ Settled /\ PersistTold
  BY <1>1, <1>2 DEF Init, AppliedLate, HoldersKnown, Engaged, RecordsOwned, Settled, PersistTold
<1>4. Replayed
  BY <1>1, NamesAssumption DEF Replayed
<1> QED BY <1>3, <1>4 DEF KeyInv

\* The owner of a record, and what is kept of it while its call stays.
LEMMA FingerprintKept ==
  ASSUME NEW p, call'[p] = call[p], subject'[p] = subject[p]
  PROVE  /\ idempotencyFingerprint(p)' = idempotencyFingerprint(p)
         /\ Guarded(p)' = Guarded(p)
BY DEF idempotencyFingerprint, Guarded, Mutates

LEMMA ArrivesKeeps ==
  ASSUME TypeOK, KeyInv, NEW r \in Requests, Arrives(r)
  PROVE  KeyInv'
<1> USE DEF KeyInv
<1>1. /\ stage[r] = "idle" /\ \A p \in Requests : stage'[p] = IF p = r THEN "edge" ELSE stage[p]
      /\ \A p \in Requests : p # r => call'[p] = call[p]
      /\ UNCHANGED <<answer, subject, store, applied, lapsed, doubted>>
  BY DEF Arrives, Moves
<1>2. applied \subseteq Requests /\ r \notin applied
  BY <1>1 DEF TypeOK, AppliedLate
<1>3. AppliedLate'
  BY <1>1, <1>2 DEF AppliedLate, Mutates
<1>4. HoldersKnown'
  BY <1>1, <1>2 DEF HoldersKnown, Engaged, Guarded, Mutates
<1>5. RecordsOwned'
  <2>1. ASSUME NEW k \in Keys, store[k].state # "none"
        PROVE  /\ store[k].owner \in Requests /\ stage'[store[k].owner] \in Past
               /\ store[k].fingerprint = idempotencyFingerprint(store[k].owner)
               /\ call'[store[k].owner] = call[store[k].owner]
    BY <1>1, <2>1 DEF RecordsOwned, Past
  <2> QED BY <1>1, <2>1 DEF RecordsOwned, idempotencyFingerprint
<1>6. Settled'
  BY <1>1 DEF Settled, RecordsOwned, TypeOK, States
<1>7. PersistTold'
  BY <1>1 DEF PersistTold, Guarded, Mutates, Succeeded
<1>8. Replayed'
  BY <1>1 DEF Replayed, Past
<1> QED BY <1>3, <1>4, <1>5, <1>6, <1>7, <1>8

LEMMA WalksKeeps ==
  ASSUME TypeOK, Shapes, KeyInv, NEW r \in Requests, NEW s, Walks(r, s)
  PROVE  KeyInv'
<1> USE DEF KeyInv
<1>1. /\ stage[r] \notin {"idle", "done", "lost"}
      /\ \A p \in Requests : stage'[p] = IF p = r THEN s ELSE stage[p]
      /\ UNCHANGED <<call, store, applied, lapsed, doubted>>
      /\ s # "persist" /\ (s = "handler" => ~Guarded(r))
  BY DEF Walks, Moves, InFlight
<1>2. stage[r] \in {"handler", "persist"} => s \in {"done", "lost"}
  BY DEF Walks
<1>3. \A p \in Requests : stage[p] \in Past => stage'[p] \in Past /\ subject'[p] = subject[p]
  BY <1>1, <1>2 DEF Walks, OthersKept, Past
<1>4. applied \subseteq Requests
  BY DEF TypeOK
<1>5. AppliedLate'
  BY <1>1, <1>2, <1>4 DEF AppliedLate, Mutates
<1>6. HoldersKnown'
  <2>1. \A p \in Requests : Engaged(p)' /\ Guarded(p) => Engaged(p)
    BY <1>1 DEF Engaged
  <2>2. \A p \in Requests : Guarded(p)' = Guarded(p)
    BY <1>1 DEF Guarded, Mutates
  <2> QED BY <1>1, <2>1, <2>2 DEF HoldersKnown
<1>7. RecordsOwned'
  BY <1>1, <1>3 DEF RecordsOwned, idempotencyFingerprint
<1>8. Settled'
  BY <1>1 DEF Settled, RecordsOwned, TypeOK, States
<1>9. PersistTold'
  <2>1. ASSUME NEW p \in Requests, stage'[p] = "persist" PROVE p # r /\ answer'[p] = answer[p] /\ stage[p] = "persist"
    BY <1>1, <2>1 DEF Walks, OthersKept
  <2> QED BY <1>1, <2>1 DEF PersistTold, Guarded, Mutates, Succeeded
<1>10. Replayed'
  <2>1. ASSUME NEW p \in Requests, NEW o \in Requests \ {p}, answer'[p].by = o
        PROVE  p # r /\ answer[p].by = o
    <3>1. CASE p = r
      <4>1. answer'[r].by # NoCall
        BY <2>1, <3>1, NamesAssumption
      <4>2. answer[r].by = o
        BY <2>1, <3>1, <4>1 DEF Walks
      <4> QED BY <1>1, <3>1, <4>2 DEF Replayed
    <3>2. CASE p # r
      BY <2>1, <3>2 DEF Walks, OthersKept
    <3> QED BY <3>1, <3>2
  <2>2. \A p \in Requests : p # r => subject'[p] = subject[p]
    BY DEF Walks, OthersKept
  <2> QED BY <1>1, <1>3, <2>1, <2>2 DEF Replayed
<1> QED BY <1>5, <1>6, <1>7, <1>8, <1>9, <1>10

LEMMA AcquiresKeeps ==
  ASSUME TypeOK, KeyInv, NEW r \in Requests, NEW k \in Keys, Acquires(r, k)
  PROVE  KeyInv'
<1> USE DEF KeyInv
<1>1. /\ stage[r] = "idem" /\ k = call[r].key /\ store[k].state = "none"
      /\ \A p \in Requests : stage'[p] = IF p = r THEN "handler" ELSE stage[p]
      /\ store'[k].state = "processing" /\ store'[k].owner = r
      /\ store'[k].fingerprint = idempotencyFingerprint(r)
      /\ \A j \in Keys : j # k => store'[j] = store[j]
      /\ UNCHANGED <<call, answer, subject, applied, lapsed, doubted>>
  BY DEF Acquires, Moves
<1>2. \A p \in Requests : idempotencyFingerprint(p)' = idempotencyFingerprint(p) /\ Guarded(p)' = Guarded(p)
  BY <1>1, FingerprintKept
<1>3. applied \subseteq Requests
  BY DEF TypeOK
<1>4. AppliedLate'
  BY <1>1, <1>3 DEF AppliedLate, Mutates
<1>5. HoldersKnown'
  <2>1. ASSUME NEW p \in Requests, p # r, Engaged(p)', Guarded(p), call[p].key \notin lapsed
        PROVE  store'[call[p].key].state # "none" /\ store'[call[p].key].owner = p
    <3>1. Engaged(p) /\ call[p].key \in Keys
      BY <1>1, <2>1 DEF Engaged, Guarded
    <3>2. store[call[p].key].state # "none" /\ store[call[p].key].owner = p
      BY <2>1, <3>1 DEF HoldersKnown
    <3> QED BY <1>1, <3>1, <3>2
  <2> QED BY <1>1, <1>2, <2>1 DEF HoldersKnown
<1>6. RecordsOwned'
  <2>1. ASSUME NEW j \in Keys, store'[j].state # "none"
        PROVE  /\ store'[j].owner \in Requests /\ stage'[store'[j].owner] \in Past
               /\ store'[j].fingerprint = idempotencyFingerprint(store'[j].owner)
    <3>1. CASE j = k
      BY <1>1, <3>1 DEF Past
    <3>2. CASE j # k
      BY <1>1, <2>1, <3>2 DEF RecordsOwned, Past
    <3> QED BY <3>1, <3>2
  <2> QED BY <1>1, <2>1 DEF RecordsOwned, idempotencyFingerprint
<1>7. Settled'
  <2>1. ASSUME NEW j \in Keys, j # k, store[j].state \in {"completed", "failed"}
        PROVE  store[j].owner # r /\ store[j].owner \in Requests
    BY <1>1, <2>1 DEF Settled, RecordsOwned
  <2> QED BY <1>1, <2>1 DEF Settled
<1>8. PersistTold'
  BY <1>1, <1>2 DEF PersistTold, Succeeded
<1>9. Replayed'
  BY <1>1 DEF Replayed, Past
<1> QED BY <1>4, <1>5, <1>6, <1>7, <1>8, <1>9

LEMMA ReplaysKeeps ==
  ASSUME TypeOK, KeyInv, NEW r \in Requests, NEW k \in Keys, Replays(r, k)
  PROVE  KeyInv'
<1> USE DEF KeyInv
<1>1. /\ stage[r] = "idem" /\ store[k].state # "none"
      /\ store[k].fingerprint = idempotencyFingerprint(r)
      /\ \A p \in Requests : stage'[p] = IF p = r THEN "done" ELSE stage[p]
      /\ UNCHANGED <<call, store, subject, applied, lapsed, doubted>>
  BY DEF Replays, Moves
<1>2. \A p \in Requests : p # r => answer'[p] = answer[p]
  BY DEF Replays, OthersKept
<1>3. applied \subseteq Requests
  BY DEF TypeOK
<1>4. AppliedLate'
  BY <1>1, <1>3 DEF AppliedLate, Mutates
<1>5. HoldersKnown'
  BY <1>1 DEF HoldersKnown, Engaged, Guarded, Mutates
<1>6. RecordsOwned'
  BY <1>1 DEF RecordsOwned, idempotencyFingerprint, Past
<1>7. Settled'
  BY <1>1 DEF Settled, RecordsOwned
<1>8. PersistTold'
  BY <1>1, <1>2 DEF PersistTold, Guarded, Mutates, Succeeded
<1>9. Replayed'
  <2>1. PICK o \in Requests : o = store[k].owner /\ stage[o] \in Past
    BY <1>1 DEF RecordsOwned
  <2>2. idempotencyFingerprint(r) = idempotencyFingerprint(o)
    BY <1>1, <2>1 DEF RecordsOwned
  <2>3. subject[r] = subject[o] /\ call[r].op = call[o].op /\ call[r].body = call[o].body
    BY <2>2 DEF idempotencyFingerprint
  <2>4. answer'[r].by = o
    BY <2>1 DEF Replays
  <2>5. o # r
    BY <1>1, <2>1 DEF Past
  <2> QED BY <1>1, <1>2, <2>1, <2>3, <2>4, <2>5 DEF Replayed, Past
<1> QED BY <1>4, <1>5, <1>6, <1>7, <1>8, <1>9

LEMMA HandlesKeeps ==
  ASSUME TypeOK, KeyInv, NEW r \in Requests, Handles(r)
  PROVE  KeyInv'
<1> USE DEF KeyInv
<1>1. /\ stage[r] = "handler"
      /\ \A p \in Requests : stage'[p] = IF p = r THEN (IF Guarded(r) THEN "persist" ELSE "done") ELSE stage[p]
      /\ UNCHANGED <<call, store, subject, lapsed>>
      /\ applied \subseteq applied' /\ applied' \subseteq applied \cup {r} /\ doubted \subseteq doubted'
  BY DEF Handles, Moves
<1>2. \A p \in Requests : p # r => answer'[p] = answer[p]
  BY DEF Handles, OthersKept
<1>3. applied \subseteq Requests /\ r \notin applied
  BY <1>1 DEF TypeOK, AppliedLate
<1>4. \A p \in Requests : idempotencyFingerprint(p)' = idempotencyFingerprint(p) /\ Guarded(p)' = Guarded(p)
  BY <1>1, FingerprintKept
<1>5. AppliedLate'
  <2>1. r \in applied' => Mutates(call[r]) /\ call[r].omit \notin FullBody(call[r].op)
    BY <1>3 DEF Handles
  <2> QED BY <1>1, <1>3, <2>1 DEF AppliedLate, Mutates
<1>6. HoldersKnown'
  <2>1. \A p \in Requests : Engaged(p)' => Engaged(p)
    BY <1>1 DEF Engaged
  <2> QED BY <1>1, <1>4, <2>1 DEF HoldersKnown
<1>7. RecordsOwned'
  BY <1>1 DEF RecordsOwned, idempotencyFingerprint, Past
<1>8. Settled'
  <2>1. ASSUME NEW j \in Keys, store[j].state \in {"completed", "failed"}
        PROVE  store[j].owner # r /\ store[j].owner \in Requests
    BY <1>1, <2>1 DEF Settled, RecordsOwned
  <2> QED BY <1>1, <2>1 DEF Settled
<1>9. PersistTold'
  <2>1. ASSUME NEW p \in Requests, p # r, stage[p] = "persist"
        PROVE  /\ Guarded(p)
               /\ Succeeded(p) => p \in applied'
               /\ ~Succeeded(p) /\ p \in applied' => call[p].key \in doubted'
    BY <1>1, <2>1 DEF PersistTold
  <2>2. Guarded(r) => /\ answer'[r].code = Success[call[r].transport] => r \in applied'
                      /\ answer'[r].code # Success[call[r].transport] /\ r \in applied' => call[r].key \in doubted'
    BY <1>3 DEF Handles
  <2>3. ASSUME NEW p \in Requests, stage'[p] = "persist"
        PROVE  /\ Guarded(p)
               /\ answer'[p].code = Success[call[p].transport] => p \in applied'
               /\ answer'[p].code # Success[call[p].transport] /\ p \in applied' => call[p].key \in doubted'
    <3>1. CASE p = r
      BY <1>1, <2>2, <2>3, <3>1
    <3>2. CASE p # r
      BY <1>1, <1>2, <2>1, <2>3, <3>2 DEF Succeeded
    <3> QED BY <3>1, <3>2
  <2> QED BY <1>1, <1>4, <2>3 DEF PersistTold, Succeeded
<1>10. Replayed'
  <2>1. answer'[r].by = r
    BY DEF Handles
  <2>2. \A p \in Requests : stage[p] \in Past => stage'[p] \in Past
    BY <1>1 DEF Past
  <2>3. \A p \in Requests : \A o \in Requests \ {p} : answer'[p].by = o => p # r /\ answer[p].by = o
    BY <1>2, <2>1
  <2> QED BY <1>1, <2>2, <2>3 DEF Replayed
<1> QED BY <1>5, <1>6, <1>7, <1>8, <1>9, <1>10

LEMMA PersistsKeeps ==
  ASSUME TypeOK, KeyInv, NEW r \in Requests, NEW k \in Keys, Persists(r, k)
  PROVE  KeyInv'
<1> USE DEF KeyInv
<1>1. /\ stage[r] = "persist" /\ k = call[r].key /\ store[k].state = "processing" /\ store[k].owner = r
      /\ \A p \in Requests : stage'[p] = IF p = r THEN "done" ELSE stage[p]
      /\ store'[k].state = IF Succeeded(r) THEN "completed" ELSE "failed"
      /\ store'[k].owner = r /\ store'[k].fingerprint = store[k].fingerprint
      /\ \A j \in Keys : j # k => store'[j] = store[j]
      /\ UNCHANGED <<call, answer, subject, applied, lapsed, doubted>>
  BY DEF Persists, Moves, Owned
<1>2. \A p \in Requests : idempotencyFingerprint(p)' = idempotencyFingerprint(p) /\ Guarded(p)' = Guarded(p)
  BY <1>1, FingerprintKept
<1>3. applied \subseteq Requests
  BY DEF TypeOK
<1>4. store'[k].state \in {"completed", "failed"}
  BY <1>1
<1>5. \A j \in Keys : store'[j].owner = store[j].owner /\ store'[j].fingerprint = store[j].fingerprint
                      /\ (store'[j].state = "none" <=> store[j].state = "none")
  BY <1>1, <1>4
<1>6. AppliedLate'
  BY <1>1, <1>3 DEF AppliedLate, Mutates
<1>7. HoldersKnown'
  <2>1. \A p \in Requests : Engaged(p)' => Engaged(p)
    BY <1>1 DEF Engaged
  <2>2. \A p \in Requests : Guarded(p) => call[p].key \in Keys
    BY DEF Guarded
  <2> QED BY <1>1, <1>2, <1>5, <2>1, <2>2 DEF HoldersKnown
<1>8. RecordsOwned'
  BY <1>1, <1>5 DEF RecordsOwned, idempotencyFingerprint, Past
<1>9. Settled'
  <2>1. ASSUME NEW j \in Keys, j # k, store[j].state \in {"completed", "failed"}
        PROVE  store[j].owner # r /\ store[j].owner \in Requests
    BY <1>1, <2>1 DEF Settled, RecordsOwned
  <2>2. /\ store'[k].state = "completed" => r \in applied
        /\ store'[k].state = "failed" /\ r \in applied => k \in doubted
    BY <1>1 DEF PersistTold
  <2> QED BY <1>1, <2>1, <2>2 DEF Settled
<1>10. PersistTold'
  BY <1>1, <1>2 DEF PersistTold, Succeeded
<1>11. Replayed'
  BY <1>1 DEF Replayed, Past
<1> QED BY <1>6, <1>7, <1>8, <1>9, <1>10, <1>11

LEMMA AgesKeeps ==
  ASSUME TypeOK, KeyInv, Ages
  PROVE  KeyInv'
<1> USE DEF KeyInv
<1>1. /\ UNCHANGED <<call, stage, answer, subject, applied, doubted>> /\ lapsed \subseteq lapsed'
      /\ \A k \in Keys :
           \/ store'[k].state = "none" /\ (store[k].state # "none" => k \in lapsed')
           \/ /\ store'[k].state = store[k].state /\ store'[k].owner = store[k].owner
              /\ store'[k].fingerprint = store[k].fingerprint
  BY DEF Ages
<1>2. AppliedLate'
  BY <1>1 DEF AppliedLate, Mutates
<1>3. HoldersKnown'
  <2>1. ASSUME NEW p \in Requests, Engaged(p), Guarded(p), call[p].key \notin lapsed'
        PROVE  store'[call[p].key].state # "none" /\ store'[call[p].key].owner = p
    <3>1. call[p].key \in Keys /\ call[p].key \notin lapsed
      BY <1>1, <2>1 DEF Guarded
    <3>2. store[call[p].key].state # "none" /\ store[call[p].key].owner = p
      BY <2>1, <3>1 DEF HoldersKnown
    <3> QED BY <1>1, <2>1, <3>1, <3>2
  <2> QED BY <1>1, <2>1 DEF HoldersKnown, Engaged, Guarded, Mutates
<1>4. RecordsOwned'
  BY <1>1 DEF RecordsOwned, idempotencyFingerprint
<1>5. Settled'
  BY <1>1 DEF Settled
<1>6. PersistTold'
  BY <1>1 DEF PersistTold, Guarded, Mutates, Succeeded
<1>7. Replayed'
  BY <1>1 DEF Replayed
<1> QED BY <1>2, <1>3, <1>4, <1>5, <1>6, <1>7

LEMMA KeyInvStep ==
  ASSUME PipelineInv, Shapes, KeyInv, [Next]_vars
  PROVE  KeyInv'
<1>1. TypeOK /\ PipelineStep
  BY NextStep DEF PipelineInv
<1>2. ASSUME NEW r \in Requests, RequestStep(r) PROVE KeyInv'
  BY <1>1, <1>2, ArrivesKeeps, WalksKeeps, AcquiresKeeps, ReplaysKeeps, HandlesKeeps, PersistsKeeps
  DEF RequestStep
<1> QED BY <1>1, <1>2, AgesKeeps DEF PipelineStep

LEMMA ShapesStep ==
  ASSUME Shapes, [Next]_vars
  PROVE  Shapes'
<1>1. ASSUME NEW r \in Requests, NEW q, Arrive(r, q) PROVE Shapes'
  BY <1>1 DEF Arrive, Shapes
<1>2. ASSUME NEW r \in Requests, Serve(r) \/ Crash(r) PROVE Shapes'
  <2>1. DOMAIN subject' = DOMAIN subject
    BY <1>2 DEF Serve, Edge, Authentication, Authorization, UserLimit, IdempotencyExecution, Handler,
                Panic, Persist, Crash
  <2>2. answer' = answer \/ \E x, y : Reply(r, x, y)
    BY <1>2 DEF Serve, Edge, HttpEdge, GrpcEdge, RateLimit, Authentication, Authorization, UserLimit,
                IdempotencyExecution, BeginUnavailable, BeginAcquires, BeginFinds, Handler, Respond,
                Panic, Persist, Crash, Refuse, Pass
  <2> QED BY <2>1, <2>2 DEF Shapes, Reply
<1>3. CASE UNCHANGED <<answer, subject>>
  BY <1>3 DEF Shapes
<1> QED BY <1>1, <1>2, <1>3 DEF Next, Tick, Revoke, Fails, Recovers, vars

LEMMA KeyInvariant == Spec => [](PipelineInv /\ Shapes /\ KeyInv)
<1>1. Init => Shapes /\ KeyInv
  BY KeyInvInit DEF Init, Shapes
<1>2. PipelineInv /\ Shapes /\ KeyInv /\ [Next]_vars => Shapes' /\ KeyInv'
  BY ShapesStep, KeyInvStep
<1> QED BY <1>1, <1>2, PipelineInvAlways, PTL DEF Spec

\* IdempotencyExecution (middleware.go:95-157): as long as no record of a key
\* has run out, at most one of the requests that carry the key changes rows,
\* whatever crashes, panics, outages and lost commits happen between.
THEOREM EffectIsSingle == Spec => []OneEffectPerKey
<1>1. PipelineInv /\ KeyInv => OneEffectPerKey
  <2> SUFFICES ASSUME PipelineInv, KeyInv, NEW k \in Keys \ lapsed, NEW r \in applied, NEW p \in applied,
                      call[r].key = k, call[p].key = k
               PROVE  r = p
    BY DEF OneEffectPerKey
  <2>1. r \in Requests /\ p \in Requests
    BY DEF PipelineInv, TypeOK
  <2>2. Engaged(r) /\ Guarded(r) /\ Engaged(p) /\ Guarded(p)
    BY DEF Engaged, Guarded, KeyInv, AppliedLate
  <2> QED BY <2>1, <2>2 DEF KeyInv, HoldersKnown
<1> QED BY <1>1, KeyInvariant, PTL

\* Complete and Fail (middleware.go:148-152): a stored success is backed by a
\* change of its owner, and a stored failure means that nothing was changed
\* under the key, unless a record ran out or a commit was reported lost.
THEOREM RecordsAreTrue == Spec => []RecordTellsTruth
<1>1. PipelineInv /\ KeyInv => RecordTellsTruth
  <2> SUFFICES ASSUME PipelineInv, KeyInv, NEW k \in Keys
               PROVE  /\ store[k].state = "completed" => store[k].owner \in applied
                      /\ store[k].state = "failed" /\ k \notin lapsed \cup doubted
                           => \A r \in applied : call[r].key # k
    BY DEF RecordTellsTruth
  <2>1. store[k].state = "completed" => store[k].owner \in applied
    BY DEF KeyInv, Settled
  <2>2. ASSUME store[k].state = "failed", k \notin lapsed \cup doubted, NEW r \in applied, call[r].key = k
        PROVE  FALSE
    <3>1. r \in Requests /\ Engaged(r) /\ Guarded(r)
      BY <2>2 DEF PipelineInv, TypeOK, Engaged, Guarded, KeyInv, AppliedLate
    <3>2. store[k].owner = r
      BY <2>2, <3>1 DEF KeyInv, HoldersKnown
    <3> QED BY <2>2, <3>2 DEF KeyInv, Settled
  <2> QED BY <2>1, <2>2
<1> QED BY <1>1, KeyInvariant, PTL

\* A replayed answer (middleware.go:113-125) is that of an earlier request of
\* the same caller for the same operation and body: the fingerprint tells them
\* apart, and a record never outlives what its owner was.
THEOREM ReplaysAreOwn == Spec => []ReplayIsOwn
<1>1. KeyInv => ReplayIsOwn
  BY DEF KeyInv, Replayed, ReplayIsOwn
<1> QED BY <1>1, KeyInvariant, PTL

\* No request that leaves out a field its operation needs changes rows
\* (workflow_handler.go:695 over HTTP, the checks of the service alone over
\* gRPC), for every operation of both transports.
THEOREM OmissionsAreHarmless == Spec => []OmissionHasNoEffect
<1>1. KeyInv => OmissionHasNoEffect
  BY DEF KeyInv, AppliedLate, OmissionHasNoEffect
<1> QED BY <1>1, KeyInvariant, PTL

(* -- Who is served ---------------------------------------------------------------------- *)

Identified ==
  \A r \in Requests : stage[r] \in {"authz", "user", "idem", "handler", "persist"} =>
    Accepted(call[r]) /\ subject[r] = Principal(call[r])

\* Permissions are only withdrawn: who has one now had it on arrival.
Remembered ==
  \A r \in Requests :
    /\ stage[r] # "idle" /\ Accepted(call[r])
    /\ <<Principal(call[r]), workflowHTTPRequirement[call[r].op]>> \in grants
    => r \in entitled

EntitledPast ==
  \A r \in Requests : stage[r] \in {"user", "idem", "handler", "persist"} => r \in entitled

EntitledInv == Identified /\ Remembered /\ EntitledPast /\ OnlyEntitledServed

\* A request that reaches the authorisation with the permission is entitled,
\* and no operation goes without one.
LEMMA AuthorizedEntitled ==
  ASSUME PipelineInv, EntitledInv, NEW r \in Requests, stage[r] = "authz",
         ~Protected(call[r]) \/ Allowed(r)
  PROVE  r \in entitled
<1> DEFINE q == call[r]
<1>1. q.transport \in Transports /\ q.op \in DOMAIN Handlers[q.transport]
  BY TrafficAssumption DEF PipelineInv, TypeOK
<1>2. Protected(q) /\ Requirement[q.transport][q.op] = workflowHTTPRequirement[q.op]
  BY <1>1, SurfaceOps, SurfacePermissions DEF Protected, Requirement, Transports
<1>3. <<subject[r], workflowHTTPRequirement[q.op]>> \in grants
  BY <1>2 DEF Allowed
<1>4. Accepted(q) /\ subject[r] = Principal(q)
  BY DEF EntitledInv, Identified
<1> QED BY <1>3, <1>4 DEF EntitledInv, Remembered

\* A request that moves on to where it is entitled to be, with an answer that
\* is no success unless it is entitled.
LEMMA EntitledMoves ==
  ASSUME TypeOK, Shapes, EntitledInv, NEW r \in Requests, NEW s, stage[r] # "idle",
         stage' = [stage EXCEPT ![r] = s],
         s \in {"authz", "user", "idem", "handler", "persist"} => Accepted(call[r]) /\ subject'[r] = Principal(call[r]),
         s \in {"user", "idem", "handler", "persist"} => r \in entitled,
         OthersKept(r),
         answer'[r].code \in {Success.http, Success.grpc} => r \in entitled,
         UNCHANGED <<call, grants, entitled>>
  PROVE  EntitledInv'
<1> USE DEF EntitledInv
<1>1. \A p \in Requests : stage'[p] = IF p = r THEN s ELSE stage[p]
  BY DEF TypeOK
<1>2. Identified'
  BY <1>1 DEF Identified, OthersKept, Accepted, Principal
<1>3. Remembered'
  BY <1>1 DEF Remembered, Accepted, Principal
<1>4. EntitledPast'
  BY <1>1 DEF EntitledPast
<1>5. OnlyEntitledServed'
  BY DEF OnlyEntitledServed, OthersKept
<1> QED BY <1>2, <1>3, <1>4, <1>5

GrpcReasons ==
  {"bad_key", "unauthenticated", "panic", "denied", "unavailable", "in_progress", "other_request"}

\* A refusal serves nobody.
LEMMA RefusedKeeps ==
  ASSUME PipelineInv, Shapes, EntitledInv, NEW r \in Requests, stage[r] # "idle",
         NEW x, Refuse(r, x),
         x \in DOMAIN HttpRefusal, call[r].transport = "http" \/ x \in GrpcReasons,
         UNCHANGED <<call, subject, grants, entitled>>
  PROVE  EntitledInv'
<1>1. call[r].transport \in Transports
  BY TrafficAssumption DEF PipelineInv, TypeOK
<1>2. Refusal[call[r].transport][x] \notin {Success.http, Success.grpc}
  BY <1>1, RefusalsFail DEF Transports, GrpcReasons
<1>3. OthersKept(r) /\ answer'[r].code = Refusal[call[r].transport][x]
  BY RepliesTo DEF Refuse
<1>4. stage' = [stage EXCEPT ![r] = "done"]
  BY DEF Refuse
<1> QED BY <1>2, <1>3, <1>4, EntitledMoves DEF PipelineInv

LEMMA PassedKeeps ==
  ASSUME PipelineInv, Shapes, EntitledInv, NEW r \in Requests, stage[r] # "idle", Pass(r),
         After(r) = "authn" \/ (Accepted(call[r]) /\ subject'[r] = Principal(call[r])),
         After(r) \in {"authn", "authz"} \/ r \in entitled,
         \A p \in Requests : p # r => subject'[p] = subject[p],
         UNCHANGED <<call, grants, entitled>>
  PROVE  EntitledInv'
<1> DEFINE s == After(r)
<1>1. stage' = [stage EXCEPT ![r] = s] /\ UNCHANGED answer
  BY DEF Pass
<1>2. /\ s \in {"authz", "user", "idem", "handler", "persist"} => Accepted(call[r]) /\ subject'[r] = Principal(call[r])
      /\ s \in {"user", "idem", "handler", "persist"} => r \in entitled
  OBVIOUS
<1>3. OthersKept(r)
  BY <1>1 DEF OthersKept
<1>4. answer'[r].code \in {Success.http, Success.grpc} => r \in entitled
  BY <1>1 DEF EntitledInv, OnlyEntitledServed
<1> HIDE DEF s
<1> QED BY <1>1, <1>2, <1>3, <1>4, EntitledMoves DEF PipelineInv

\* Past the authorisation every answer is deserved.
LEMMA EntitledAnswers ==
  ASSUME PipelineInv, Shapes, EntitledInv, NEW r \in Requests,
         stage[r] \in {"idem", "handler", "persist"},
         NEW s \in {"handler", "persist", "done", "lost"}, stage' = [stage EXCEPT ![r] = s],
         OthersKept(r), UNCHANGED <<call, subject, grants, entitled>>
  PROVE  EntitledInv'
<1>1. Accepted(call[r]) /\ subject'[r] = Principal(call[r]) /\ r \in entitled
  BY DEF EntitledInv, Identified, EntitledPast
<1> QED BY <1>1, EntitledMoves DEF PipelineInv

LEMMA ArriveEntitles ==
  ASSUME PipelineInv, Shapes, EntitledInv, NEW r \in Requests, NEW q \in workload[r], Arrive(r, q)
  PROVE  EntitledInv'
<1> USE DEF EntitledInv
<1>1. /\ UNCHANGED <<subject, answer, grants>> /\ entitled \subseteq entitled'
      /\ Accepted(q) /\ <<Principal(q), workflowHTTPRequirement[q.op]>> \in grants => r \in entitled'
  BY DEF Arrive
<1>2. \A p \in Requests : /\ call'[p] = IF p = r THEN q ELSE call[p]
                          /\ stage'[p] = IF p = r THEN "edge" ELSE stage[p]
  BY DEF Arrive, PipelineInv, TypeOK
<1>3. Identified'
  BY <1>1, <1>2 DEF Identified, Accepted, Principal
<1>4. Remembered'
  <2> SUFFICES ASSUME NEW p \in Requests, stage'[p] # "idle", Accepted(call'[p]),
                      <<Principal(call'[p]), workflowHTTPRequirement[call'[p].op]>> \in grants'
               PROVE  p \in entitled'
    BY DEF Remembered, Accepted, Principal
  <2>1. CASE p = r
    BY <1>1, <1>2, <2>1
  <2>2. CASE p # r
    BY <1>1, <1>2, <2>2 DEF Remembered
  <2> QED BY <2>1, <2>2
<1>5. EntitledPast'
  BY <1>1, <1>2 DEF EntitledPast
<1>6. OnlyEntitledServed'
  BY <1>1 DEF OnlyEntitledServed
<1> QED BY <1>3, <1>4, <1>5, <1>6

\* Where a request goes next, and with what it is turned away.
LEMMA EdgeEntitles ==
  ASSUME PipelineInv, Shapes, EntitledInv, NEW r \in Requests, Edge(r)
  PROVE  EntitledInv'
<1>1. stage[r] = "edge" /\ UNCHANGED <<call, subject, grants, entitled>>
  BY DEF Edge, history
<1>2. CASE Pass(r)
  <2>1. After(r) = "authn"
    BY <1>1, Chains DEF After
  <2> QED BY <1>1, <1>2, <2>1, PassedKeeps
<1>3. ASSUME NEW x \in {"bad_key", "origin", "media", "too_many", "unavailable"}, Refuse(r, x),
             call[r].transport = "http" \/ x = "bad_key"
      PROVE  EntitledInv'
  BY <1>1, <1>3, RefusalsFail, RefusedKeeps DEF GrpcReasons
<1> QED BY <1>2, <1>3 DEF Edge, HttpEdge, GrpcEdge, RateLimit

LEMMA AuthenticationEntitles ==
  ASSUME PipelineInv, Shapes, EntitledInv, NEW r \in Requests, Authentication(r)
  PROVE  EntitledInv'
<1>1. stage[r] = "authn" /\ UNCHANGED <<call, grants, entitled>>
  BY DEF Authentication, history
<1>2. CASE Accepted(call[r]) /\ Pass(r) /\ subject' = [subject EXCEPT ![r] = Principal(call[r])]
  <2>1. After(r) = "authz"
    BY <1>1, Chains DEF After
  <2>2. /\ subject'[r] = Principal(call[r])
        /\ \A p \in Requests : p # r => subject'[p] = subject[p]
    BY <1>2 DEF Shapes
  <2> QED BY <1>1, <1>2, <2>1, <2>2, PassedKeeps
<1>3. CASE Refuse(r, "unauthenticated") /\ UNCHANGED subject
  BY <1>1, <1>3, RefusalsFail, RefusedKeeps DEF GrpcReasons
<1> QED BY <1>2, <1>3 DEF Authentication

LEMMA AuthorizationEntitles ==
  ASSUME PipelineInv, Shapes, EntitledInv, NEW r \in Requests, Authorization(r) \/ UserLimit(r)
  PROVE  EntitledInv'
<1>1. stage[r] \in {"authz", "user"} /\ UNCHANGED <<call, subject, grants, entitled>>
  BY DEF Authorization, UserLimit, history
<1>2. CASE Pass(r) /\ r \in entitled
  <2>1. Accepted(call[r]) /\ subject'[r] = Principal(call[r])
    BY <1>1 DEF EntitledInv, Identified
  <2> QED BY <1>1, <1>2, <2>1, PassedKeeps
<1>3. ASSUME NEW x \in {"denied", "unavailable", "too_many"}, Refuse(r, x),
             call[r].transport = "http" \/ x # "too_many"
      PROVE  EntitledInv'
  BY <1>1, <1>3, RefusalsFail, RefusedKeeps DEF GrpcReasons
<1>4. CASE Authorization(r)
  <2>1. (~Protected(call[r]) \/ Allowed(r)) => r \in entitled
    BY <1>4, AuthorizedEntitled DEF Authorization
  <2> QED BY <1>2, <1>3, <1>4, <2>1 DEF Authorization
<1>5. CASE UserLimit(r)
  <2>1. call[r].transport = "http" /\ r \in entitled
    BY <1>5 DEF UserLimit, PipelineInv, UserOverHttp, EntitledInv, EntitledPast
  <2> QED BY <1>2, <1>3, <1>5, <2>1 DEF UserLimit, RateLimit
<1> QED BY <1>4, <1>5

LEMMA ServedEntitles ==
  ASSUME PipelineInv, Shapes, EntitledInv, NEW r \in Requests,
         IdempotencyExecution(r) \/ Handler(r) \/ Panic(r) \/ Persist(r)
  PROVE  EntitledInv'
<1>1. /\ stage[r] \in {"idem", "handler", "persist"}
      /\ UNCHANGED <<call, subject, grants, entitled>>
  BY DEF IdempotencyExecution, Handler, Panic, Persist, history
<1>2. stage[r] = "idem" => After(r) = "handler"
  BY Chains DEF After
<1>3. PICK s \in {"handler", "persist", "done"} : stage' = [stage EXCEPT ![r] = s]
  BY <1>2 DEF IdempotencyExecution, BeginUnavailable, BeginAcquires, BeginFinds, Handler, Respond,
              Panic, Persist, Refuse, Pass
<1>4. answer' = answer \/ \E x, y : Reply(r, x, y)
  BY DEF IdempotencyExecution, BeginUnavailable, BeginAcquires, BeginFinds, Handler, Respond,
         Panic, Persist, Refuse, Pass
<1>5. OthersKept(r)
  BY <1>1, <1>4, RepliesTo DEF OthersKept
<1> QED BY <1>1, <1>3, <1>5, EntitledAnswers

LEMMA CrashEntitles ==
  ASSUME PipelineInv, Shapes, EntitledInv, NEW r \in Requests, Crash(r)
  PROVE  EntitledInv'
<1>1. /\ stage[r] # "idle" /\ stage' = [stage EXCEPT ![r] = "lost"]
      /\ UNCHANGED <<call, subject, answer, grants, entitled>>
  BY DEF Crash, InFlight, history
<1>2. OthersKept(r) /\ (answer'[r].code \in {Success.http, Success.grpc} => r \in entitled)
  BY <1>1 DEF OthersKept, EntitledInv, OnlyEntitledServed
<1> QED BY <1>1, <1>2, EntitledMoves DEF PipelineInv

\* The clock, the outages and a permission that is withdrawn.
LEMMA WorldEntitles ==
  ASSUME EntitledInv, grants' \subseteq grants, UNCHANGED <<call, stage, subject, answer, entitled>>
  PROVE  EntitledInv'
<1>1. Identified' /\ Remembered'
  BY DEF EntitledInv, Identified, Remembered, Accepted, Principal
<1>2. EntitledPast' /\ OnlyEntitledServed'
  BY DEF EntitledInv, EntitledPast, OnlyEntitledServed
<1> QED BY <1>1, <1>2 DEF EntitledInv

LEMMA EntitledInit == Init => EntitledInv
<1> SUFFICES ASSUME Init PROVE EntitledInv
  OBVIOUS
<1>1. Identified /\ Remembered /\ EntitledPast
  BY DEF Init, Identified, Remembered, EntitledPast
<1>2. \A r \in Requests : answer[r].code = "none"
  BY DEF Init, NoAnswer
<1>3. OnlyEntitledServed
  BY <1>2 DEF OnlyEntitledServed, Success
<1> QED BY <1>1, <1>3 DEF EntitledInv

LEMMA EntitledInvariant == Spec => []EntitledInv
<1>1. PipelineInv /\ Shapes /\ EntitledInv /\ [Next]_vars => EntitledInv'
  <2> SUFFICES ASSUME PipelineInv, Shapes, EntitledInv, [Next]_vars PROVE EntitledInv'
    OBVIOUS
  <2>1. ASSUME NEW r \in Requests, NEW q \in workload[r], Arrive(r, q) PROVE EntitledInv'
    BY <2>1, ArriveEntitles
  <2>2. ASSUME NEW r \in Requests, Serve(r) PROVE EntitledInv'
    BY <2>2, EdgeEntitles, AuthenticationEntitles, AuthorizationEntitles, ServedEntitles DEF Serve
  <2>3. ASSUME NEW r \in Requests, Crash(r) PROVE EntitledInv'
    BY <2>3, CrashEntitles
  <2>4. CASE Tick
    BY <2>4, WorldEntitles DEF Tick
  <2>5. ASSUME NEW g \in grants, Revoke(g) PROVE EntitledInv'
    BY <2>5, WorldEntitles DEF Revoke, history
  <2>6. ASSUME NEW d \in Outages, Fails(d) \/ Recovers(d) PROVE EntitledInv'
    BY <2>6, WorldEntitles DEF Fails, Recovers, history
  <2>7. CASE UNCHANGED vars
    BY <2>7, WorldEntitles DEF vars, history
  <2> QED BY <2>1, <2>2, <2>3, <2>4, <2>5, <2>6, <2>7 DEF Next
<1> QED BY <1>1, EntitledInit, KeyInvariant, PTL DEF Spec

\* Authentication before Authorization before IdempotencyExecution
\* (http/server.go:58-63, grpc/server.go:49): only a request that arrived with
\* an accepted credential and the permission of its operation is answered with
\* success on either transport, also when the answer is a stored one: every
\* operation has a requirement, and permissions are only withdrawn meanwhile.
THEOREM OnlyEntitledAreServed == Spec => []OnlyEntitledServed
<1>1. EntitledInv => OnlyEntitledServed
  BY DEF EntitledInv
<1> QED BY <1>1, EntitledInvariant, PTL
===============================================================================
