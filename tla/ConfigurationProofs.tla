-------------------------- MODULE ConfigurationProofs --------------------------
(***************************************************************************)
(* What holds of a process start for every content of the files, variables *)
(* and flags.                                                              *)
(***************************************************************************)
EXTENDS Configuration, TLAPS

Decided == {"loaded", "valid", "built", "broken", "failed", "started"}
Judged == {"valid", "built", "broken", "failed", "started"}

\* The two files merged, in the order of LoadWithProfile.
Files(l) ==
  IF l.profile = NoFile THEN Merged(setDefaults, l.base)
  ELSE Merged(Merged(setDefaults, l.base), l.profile)

Refusable ==
  \/ ServerErrors \/ StoreErrors \/ ObservabilityErrors \/ AccessErrors
  \/ IdempotencyErrors \/ MessagingErrors \/ UpstreamErrors

\* What each phase has established: the merge so far, the profile the flag
\* asks for, app.env pinned to the profile, and nothing Validate refuses.
ConfigInv ==
  /\ phase = "base" => config = Merged(setDefaults, layers.base)
  /\ phase = "files" => config = Files(layers)
  /\ phase \in Decided => config = Merged(Files(layers), Heard(layers)) /\ env = profile
  /\ phase \in Decided \cup {"base", "files"} /\ layers.flag # "" => profile = Normalised(layers.flag)
  /\ phase \in Judged => ~Refusable
  /\ AcceptedEngineStarts

Unfit ==
  \/ NewLoggerFails \/ OpenFails \/ NewRegistryFails \/ WorkflowModuleFails
  \/ NewRuntimeFails \/ NewGRPCServerFails \/ NewHTTPServerFails

\* A configuration Validate accepted passes the constructors and the start of
\* the event runtime, if it is one of the engine in production, everything in it
\* parses and its files can be loaded.
LEMMA AcceptedPasses ==
  ASSUME ~Refusable, env = "production", On("temporal"), ~Malformed, ~Unloadable
  PROVE  ~Unfit /\ On("database")
<1>1. On("database") /\ On("events")
  BY DEF Refusable, MessagingErrors, Lacks
<1>2. Has("application", "present") /\ Has("authorization", "present")
  BY <1>1 DEF Refusable, AccessErrors, InProduction, Lacks
<1>3. ASSUME NEW u \in Upstreams, Has(u, "present")
      PROVE  /\ Has(u, "credential") => Has(u, "tls")
             /\ Has(u, "target") /\ Has(u, "timeout") /\ Has(u, "form") /\ Has(u, "files")
             /\ Has(u, "tls") => Has(u, "tls_pair")
  BY <1>3 DEF Refusable, UpstreamErrors, validateClientPolicy, InProduction, Malformed, Unloadable
<1>4. ~NewRegistryFails
  BY <1>3 DEF NewRegistryFails, NewHTTPClientFails, httpTransportFails, DialFails, transportCredentialsFails, Upstreams
<1>5. ~WorkflowModuleFails
  BY <1>2 DEF WorkflowModuleFails, Lacks
<1>6. ~NewLoggerFails /\ ~OpenFails /\ ~NewRuntimeFails /\ ~NewGRPCServerFails /\ ~NewHTTPServerFails
  BY DEF NewLoggerFails, OpenFails, NewRuntimeFails, NewGRPCServerFails, NewHTTPServerFails, Malformed, Unloadable
<1> QED BY <1>1, <1>4, <1>5, <1>6 DEF Unfit

\* The judgement depends on the settings and app.env alone.
LEMMA JudgementStays ==
  ASSUME UNCHANGED <<config, env>>
  PROVE  Refusable' <=> Refusable
<1>1. /\ ServerErrors' <=> ServerErrors
      /\ StoreErrors' <=> StoreErrors
      /\ ObservabilityErrors' <=> ObservabilityErrors
      /\ IdempotencyErrors' <=> IdempotencyErrors
      /\ AccessErrors' <=> AccessErrors
      /\ MessagingErrors' <=> MessagingErrors
  BY DEF ServerErrors, StoreErrors, ObservabilityErrors, AccessErrors, IdempotencyErrors, MessagingErrors,
         InProduction, Has, On, Lacks
<1>2. \A u : validateClientPolicy(u)' <=> validateClientPolicy(u)
  BY DEF validateClientPolicy, InProduction, Has
<1>3. UpstreamErrors' <=> UpstreamErrors
  BY <1>2 DEF UpstreamErrors, Has
<1> QED BY <1>1, <1>3 DEF Refusable

LEMMA ConfigInvInit == Init => ConfigInv
BY DEF Init, ConfigInv, Decided, Judged, AcceptedEngineStarts

LEMMA ConfigInvStep == ConfigInv /\ [Next]_vars => ConfigInv'
<1> SUFFICES ASSUME ConfigInv, [Next]_vars PROVE ConfigInv'
  OBVIOUS
<1>1. CASE ReadBase
  BY <1>1 DEF ReadBase, ConfigInv, Decided, Judged, AcceptedEngineStarts
<1>2. CASE MergeProfile
  BY <1>2 DEF MergeProfile, ConfigInv, Decided, Judged, Files, AcceptedEngineStarts
<1>3. CASE Unmarshal
  BY <1>3 DEF Unmarshal, ConfigInv, Decided, Judged, AcceptedEngineStarts
<1>4. CASE Validate
  <2>1. UNCHANGED <<layers, profile, config, env>>
    BY <1>4 DEF Validate
  <2>2. Refusable' <=> Refusable
    BY <2>1, JudgementStays
  <2> QED BY <1>4, <2>1, <2>2 DEF Validate, Refusable, ConfigInv, Decided, Judged, AcceptedEngineStarts
<1>5. CASE Construct \/ Start \/ Unavailable
  <2>1. UNCHANGED <<layers, profile, config, env>> /\ phase \in {"valid", "built"}
    BY <1>5 DEF Construct, Start, Unavailable
  <2>2. ~Refusable /\ env = profile /\ phase \in Decided
    BY <2>1 DEF ConfigInv, Judged, Decided
  <2>3. ~Refusable'
    BY <2>1, <2>2, JudgementStays
  <2>4. AcceptedEngineStarts'
    <3> SUFFICES ASSUME phase' = "broken", profile = "production", On("temporal"), ~Malformed, ~Unloadable
                 PROVE  FALSE
      BY <2>1 DEF AcceptedEngineStarts, Malformed, Unloadable, Lacks, On, Has
    <3>1. ~Unfit /\ On("database")
      BY <2>2, AcceptedPasses
    <3> QED BY <1>5, <3>1 DEF Construct, Start, Unavailable, Unfit, Lacks
  <2>5. phase' \in {"built", "broken", "failed", "started"}
    BY <1>5 DEF Construct, Start, Unavailable
  <2> QED BY <2>1, <2>2, <2>3, <2>4, <2>5 DEF ConfigInv, Judged, Decided
<1>6. CASE UNCHANGED vars
  <2>1. UNCHANGED <<layers, phase, profile, config, env>>
    BY <1>6 DEF vars
  <2>2. Refusable' <=> Refusable
    BY <2>1, JudgementStays
  <2>3. AcceptedEngineStarts'
    BY <2>1 DEF ConfigInv, AcceptedEngineStarts, Malformed, Unloadable, Lacks, On, Has
  <2> QED BY <2>1, <2>2, <2>3 DEF ConfigInv
<1> QED BY <1>1, <1>2, <1>3, <1>4, <1>5, <1>6 DEF Next

\* After every phase the settings are those the layers read so far make of them
\* (LoadWithProfile), and behind Validate none of its reasons to refuse holds.
THEOREM ConfigInvAlways == Spec => []ConfigInv
BY ConfigInvInit, ConfigInvStep, PTL DEF Spec

\* Whatever files, variables and flags say: a process that runs with the
\* production profile has the protection Validate asks for (config.go:505-711),
\* since app.env is pinned to the profile (config.go:323).
THEOREM ProductionIsGuarded == Spec => []ProductionGuarded
<1>1. ConfigInv => ProductionGuarded
  <2> SUFFICES ASSUME ConfigInv, phase = "started", profile = "production"
               PROVE  /\ On("grpc") => On("grpc_tls")
                      /\ Lacks("reflection") /\ On("authorization") /\ On("jwks")
                      /\ On("swagger") => On("swagger_auth")
                      /\ \A u \in Upstreams : Has(u, "present") /\ Has(u, "credential") => Has(u, "tls")
    BY DEF ProductionGuarded
  <2>1. ~Refusable /\ InProduction
    BY DEF ConfigInv, Judged, Decided, InProduction
  <2>2. \A u \in Upstreams : Has(u, "present") /\ Has(u, "credential") => Has(u, "tls")
    BY <2>1 DEF Refusable, UpstreamErrors, validateClientPolicy
  <2> QED BY <2>1, <2>2 DEF Refusable, ServerErrors, ObservabilityErrors, AccessErrors, Lacks
<1> QED BY <1>1, ConfigInvAlways, PTL

\* Validate and the constructors agree on which settings the engine needs in
\* production and which go together: what the first accepts the others refuse
\* only for a value that does not parse or a file that cannot be loaded, neither
\* of which Validate looks at (logging.go:22, http.go:41, http/server.go:35).
THEOREM AcceptedEngineAlwaysStarts == Spec => []AcceptedEngineStarts
<1>1. ConfigInv => AcceptedEngineStarts
  BY DEF ConfigInv
<1> QED BY <1>1, ConfigInvAlways, PTL

\* The strongest layer that mentions a setting decides on it (README.md:58).
THEOREM StrongestLayerDecides == Spec => []PrecedenceHolds
<1>1. ConfigInv => PrecedenceHolds
  <2> SUFFICES ASSUME ConfigInv, phase \in Decided
               PROVE  /\ \A s \in Settings : s \in config <=> Strongest(s)
                      /\ layers.flag # "" => env = Normalised(layers.flag)
    BY DEF PrecedenceHolds, Decided
  <2>1. config = Merged(Files(layers), Heard(layers)) /\ env = profile
    BY DEF ConfigInv
  <2>2. ASSUME NEW s PROVE s \in config <=> Strongest(s)
    BY <2>1 DEF Merged, Files, Heard, Layer, Strongest, Decides
  <2>3. layers.flag # "" => env = Normalised(layers.flag)
    BY <2>1 DEF ConfigInv
  <2> QED BY <2>2, <2>3
<1> QED BY <1>1, ConfigInvAlways, PTL
================================================================================
