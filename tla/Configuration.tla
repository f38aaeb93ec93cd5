---------------------------- MODULE Configuration ----------------------------
(***************************************************************************)
(* From the layers of configuration to a started process: LoadWithProfile  *)
(* merges them, Validate judges the result, the constructors of the app    *)
(* and the OnStart hooks judge it again.                                   *)
(*                                                                         *)
(* A configuration is the set of the settings that are switched on, given  *)
(* or well formed; a layer says which settings it turns on and off.        *)
(***************************************************************************)
EXTENDS Naturals, FiniteSets

CONSTANTS
  BaseFiles,      \* what config.yaml may hold: layers
  ProfileFiles,   \* what config-{env}.yaml may hold: layers
  Environments,   \* what APP_* variables may hold: layers
  Flags           \* what -env may hold

VARIABLES
  layers,   \* the layers of this process
  phase,
  profile,  \* the profile selected
  config,   \* settings as merged so far
  env       \* app.env as merged so far

vars == <<layers, phase, profile, config, env>>

Layer(name, on, off) == [env |-> name, on |-> on, off |-> off]
Nothing == Layer("", {}, {})
NoFile == [absent |-> TRUE]

(* -- Settings and defaults -------------------------------------------------- *)

\* One upstream of each kind; application and authorization are gRPC.
Upstreams == {"http", "application", "authorization"}
\* "target" is given and "timeout" positive; "form": the base_url or target
\* parses; "files": the TLS files that are named can be loaded.
ClientSettings ==
  {"present", "target", "form", "timeout", "credential", "token", "tls", "tls_pair", "files", "insecure", "retry", "breaker"}

\* "grpc_cert" and "dsn" are given; "grpc_files" can be loaded, "dsn_form",
\* "proxies" and "log_level" parse.
Server ==
  {"http_address", "timeouts", "cors", "origins", "proxies", "grpc", "grpc_address", "grpc_tls", "grpc_cert", "grpc_files",
   "reflection", "log_level"}
Stores == {"database", "database_name", "dsn", "dsn_form", "redis", "redis_address", "rate_limit", "rules"}
Observability == {"tracing", "tracing_endpoint", "ratio", "pprof", "pprof_token", "swagger", "swagger_auth"}
Access == {"jwks", "client_login", "jwt_secret", "authorization", "psk", "psk_key", "patterns"}
Upkeep == {"auto_up", "migration_url", "idempotency", "ttls", "routes"}
Messaging == {"events", "stream", "ack_order", "temporal", "task_queue", "temporal_tls_pair", "temporal_files", "retention"}
Service(settings) == {"service"} \X settings
ServiceSettings == Service(Server \cup Stores \cup Observability \cup Access \cup Upkeep \cup Messaging)
Settings == ServiceSettings \cup (Upstreams \X ClientSettings)

\* What is not named here is off, empty or invalid by default.
setDefaults == Service(
  {"http_address", "timeouts", "proxies", "grpc", "grpc_address", "reflection", "log_level", "swagger", "tracing_endpoint",
   "ratio", "database_name", "redis_address", "rules", "ttls", "retention", "patterns",
   "stream", "ack_order", "task_queue", "temporal_tls_pair", "temporal_files"})
DefaultEnv == "development"

Merged(c, layer) == (c \ layer.off) \cup layer.on

(* -- LoadWithProfile ---------------------------------------------------------- *)

\* strings.ToLower(strings.TrimSpace(...))
Normalised(name) == IF name = "Production" THEN "production" ELSE name

\* Environment variables beat files, files the default.
EnvSetting(l) ==
  IF l.variables.env # "" THEN l.variables.env
  ELSE IF l.base.env # "" THEN l.base.env ELSE DefaultEnv

\* The defaults, config.yaml and the name of the profile, which is refused
\* unless it matches validProfile.
ReadBase ==
  /\ phase = "start"
  /\ config' = Merged(setDefaults, layers.base)
  /\ profile' = Normalised(IF layers.flag # "" THEN layers.flag ELSE EnvSetting(layers))
  /\ phase' = IF profile' = "not a name" THEN "refused" ELSE "base"
  /\ UNCHANGED <<layers, env>>

\* Mutant: the profile file is read before the base file.
MergeProfileUnder ==
  /\ phase = "base"
  /\ config' = IF layers.profile = NoFile THEN config
               ELSE Merged(Merged(setDefaults, layers.profile), layers.base)
  /\ env' = EnvSetting(layers)
  /\ phase' = "files"
  /\ UNCHANGED <<layers, profile>>

\* config-{env}.yaml if it exists.
MergeProfile ==
  /\ phase = "base"
  /\ config' = IF layers.profile = NoFile THEN config ELSE Merged(config, layers.profile)
  /\ env' = IF layers.variables.env = "" /\ layers.profile # NoFile /\ layers.profile.env # ""
            THEN layers.profile.env ELSE EnvSetting(layers)
  /\ phase' = "files"
  /\ UNCHANGED <<layers, profile>>

\* BindEnv: of an upstream the target, which makes it present.
BoundVariables ==
  {"application", "authorization"} \X {"present", "target", "form"}
    \cup {"application"} \X {"credential", "token", "insecure"}

Decides(layer, s) == s \in layer.on \cup layer.off

\* AutomaticEnv is asked for the keys viper knows: bound ones, those in a file,
\* and those with a default, as everything of the service but the idempotent
\* routes has.
Known(l, s) ==
  \/ s \in ServiceSettings \ Service({"routes"})
  \/ s \in BoundVariables
  \/ Decides(l.base, s)
  \/ l.profile # NoFile /\ Decides(l.profile, s)

Heard(l) == Layer(l.variables.env, {s \in l.variables.on : Known(l, s)}, {s \in l.variables.off : Known(l, s)})

\* Mutant: app.env stays what the layers made of it.
UnmarshalAsMerged ==
  /\ phase = "files"
  /\ config' = Merged(config, Heard(layers))
  /\ phase' = "loaded"
  /\ UNCHANGED <<layers, profile, env>>

\* AutomaticEnv, then v.Set("app.env", profile).
Unmarshal ==
  /\ phase = "files"
  /\ config' = Merged(config, Heard(layers))
  /\ env' = profile
  /\ phase' = "loaded"
  /\ UNCHANGED <<layers, profile>>

(* -- Validate: the reasons to refuse ------------------------------------------- *)

InProduction == env = "production"
Has(u, s) == <<u, s>> \in config
On(s) == Has("service", s)
Lacks(s) == ~On(s)

ServerErrors ==
  \/ Lacks("database_name") \/ Lacks("http_address")
  \/ On("grpc") /\ Lacks("grpc_address")
  \/ On("grpc_tls") /\ Lacks("grpc_cert")
  \/ InProduction /\ On("grpc") /\ Lacks("grpc_tls")
  \/ InProduction /\ On("reflection")

StoreErrors ==
  \/ On("database") /\ Lacks("dsn")
  \/ On("auto_up") /\ (Lacks("database") \/ Lacks("migration_url"))
  \/ On("redis") /\ Lacks("redis_address")
  \/ Lacks("timeouts")
  \/ On("rate_limit") /\ (Lacks("redis") \/ Lacks("rules"))

ObservabilityErrors ==
  \/ On("cors") /\ Lacks("origins")
  \/ Lacks("ratio")
  \/ On("tracing") /\ Lacks("tracing_endpoint")
  \/ On("pprof") /\ Lacks("pprof_token")
  \/ InProduction /\ On("swagger") /\ Lacks("swagger_auth")

\* Mutant: authorisation may be on without its upstream.
AccessErrorsWithoutUpstream ==
  \/ InProduction /\ Lacks("jwks")
  \/ InProduction /\ Lacks("authorization")
  \/ On("database") /\ ~Has("application", "present")
  \/ On("client_login") /\ Lacks("jwt_secret")
  \/ On("psk") /\ Lacks("psk_key")
  \/ Lacks("patterns")

AccessErrors ==
  \/ InProduction /\ Lacks("jwks")
  \/ InProduction /\ Lacks("authorization")
  \/ On("authorization") /\ ~Has("authorization", "present")
  \/ On("database") /\ ~Has("application", "present")
  \/ On("client_login") /\ Lacks("jwt_secret")
  \/ On("psk") /\ Lacks("psk_key")
  \/ Lacks("patterns")

IdempotencyErrors ==
  On("idempotency") /\ (Lacks("redis") \/ Lacks("routes") \/ Lacks("ttls"))

MessagingErrors ==
  \/ On("events") /\ (Lacks("stream") \/ Lacks("ack_order"))
  \/ On("temporal") /\ Lacks("task_queue")
  \/ Lacks("temporal_tls_pair")
  \/ On("temporal") /\ (Lacks("database") \/ Lacks("events"))
  \/ Lacks("retention")

validateClientPolicy(u) ==
  \/ Has(u, "credential") /\ ~Has(u, "token")
  \/ Has(u, "credential") /\ ~Has(u, "tls") /\ ~Has(u, "insecure")
  \/ Has(u, "tls") /\ Has(u, "insecure")
  \/ InProduction /\ Has(u, "credential") /\ Has(u, "insecure")
  \/ ~Has(u, "retry") \/ ~Has(u, "breaker")
  \/ Has(u, "tls") /\ ~Has(u, "tls_pair")

UpstreamErrors ==
  \E u \in Upstreams :
    Has(u, "present") /\ (~Has(u, "target") \/ ~Has(u, "timeout") \/ validateClientPolicy(u))

Validate ==
  /\ phase = "loaded"
  /\ phase' = IF \/ ServerErrors \/ StoreErrors \/ ObservabilityErrors \/ AccessErrors
                 \/ IdempotencyErrors \/ MessagingErrors \/ UpstreamErrors
              THEN "refused" ELSE "valid"
  /\ UNCHANGED <<layers, profile, config, env>>

(* -- The constructors and the start ---------------------------------------------- *)

NewLoggerFails == Lacks("log_level")

OpenFails == On("database") /\ Lacks("dsn_form")

\* The files that are named are loaded even with TLS off.
httpTransportFails == ~Has("http", "files")

\* NewHTTPClient does not look at allow_insecure, Dial does.
NewHTTPClientFails ==
  \/ Has("http", "credential") /\ ~Has("http", "tls")
  \/ ~Has("http", "form") \/ httpTransportFails

transportCredentialsFails(u) == Has(u, "tls") /\ (~Has(u, "tls_pair") \/ ~Has(u, "files"))

DialFails(u) ==
  \/ ~Has(u, "target") \/ ~Has(u, "timeout") \/ ~Has(u, "form")
  \/ transportCredentialsFails(u)
  \/ Has(u, "credential") /\ ~Has(u, "tls") /\ ~Has(u, "insecure")

NewRegistryFails ==
  \/ Has("http", "present") /\ NewHTTPClientFails
  \/ \E u \in {"application", "authorization"} : Has(u, "present") /\ DialFails(u)

\* The repository exists with the database, and asks for both upstreams.
WorkflowModuleFails ==
  On("database") /\ (~Has("authorization", "present") \/ ~Has("application", "present"))

\* temporalTLS
NewRuntimeFails == On("temporal") /\ Lacks("temporal_files")

\* serverCredentials, whether or not gRPC is enabled.
NewGRPCServerFails == On("grpc_tls") /\ Lacks("grpc_files")

\* SetTrustedProxies
NewHTTPServerFails == Lacks("proxies")

Construct ==
  /\ phase = "valid"
  /\ phase' = IF \/ NewLoggerFails \/ OpenFails \/ NewRegistryFails \/ WorkflowModuleFails
                 \/ NewRuntimeFails \/ NewGRPCServerFails \/ NewHTTPServerFails
              THEN "broken" ELSE "built"
  /\ UNCHANGED <<layers, profile, config, env>>

\* The surroundings do not do their part, whatever the settings: a peer does not
\* answer at the address given, a migration fails, a port is taken, the log
\* directory cannot be created.
Unavailable ==
  /\ phase \in {"valid", "built"}
  /\ phase' = "failed"
  /\ UNCHANGED <<layers, profile, config, env>>

\* The event runtime refuses to run without the outbox of the database.
Start ==
  /\ phase = "built"
  /\ phase' = IF On("events") /\ Lacks("database") THEN "broken" ELSE "started"
  /\ UNCHANGED <<layers, profile, config, env>>

(* -- The specification -------------------------------------------------------------- *)

Init ==
  /\ layers \in [base : BaseFiles, profile : ProfileFiles, variables : Environments, flag : Flags]
  /\ phase = "start" /\ profile = "" /\ config = {} /\ env = ""

Next == ReadBase \/ MergeProfile \/ Unmarshal \/ Validate \/ Construct \/ Start \/ Unavailable

Spec == Init /\ [][Next]_vars

(* -- Properties --------------------------------------------------------------------- *)

\* The layer that decides on a setting, from the strongest down.
Strongest(s) ==
  IF Decides(layers.variables, s) /\ Known(layers, s) THEN s \in layers.variables.on
  ELSE IF layers.profile # NoFile /\ Decides(layers.profile, s) THEN s \in layers.profile.on
  ELSE IF Decides(layers.base, s) THEN s \in layers.base.on
  ELSE s \in setDefaults

\* README.md:58: defaults < config.yaml < config-{env}.yaml < APP_* < -env, a
\* variable counting for the keys that are known (config.go:275-296).
PrecedenceHolds ==
  phase \in {"loaded", "valid", "built", "broken", "failed", "started"} =>
    /\ \A s \in Settings : s \in config <=> Strongest(s)
    /\ layers.flag # "" => env = Normalised(layers.flag)

\* v.Set (config.go:323) and the production rules of Validate: whatever the
\* files and variables say of app.env, a process that runs with the production
\* profile has TLS, authorisation, JWKS and no reflection or plain credentials.
ProductionGuarded ==
  phase = "started" /\ profile = "production" =>
    /\ On("grpc") => On("grpc_tls")
    /\ Lacks("reflection") /\ On("authorization") /\ On("jwks")
    /\ On("swagger") => On("swagger_auth")
    /\ \A u \in Upstreams :
         Has(u, "present") /\ Has(u, "credential") => Has(u, "tls")

\* What Validate takes as it is given and a constructor parses.
Malformed ==
  \/ Lacks("log_level") \/ Lacks("proxies") \/ Lacks("dsn_form")
  \/ \E u \in Upstreams : Has(u, "present") /\ ~Has(u, "form")

\* Files that Validate knows by their names and a constructor loads.
Unloadable ==
  \/ On("grpc_tls") /\ Lacks("grpc_files")
  \/ Lacks("temporal_files")
  \/ \E u \in Upstreams : Has(u, "present") /\ ~Has(u, "files")

\* Validate against NewRegistry, newWorkflowAssignmentResolver,
\* newApplicationVerifier and workflowEventRuntime.start (app/workflow.go,
\* workflow_eventbus.go:37): a production configuration of the workflow engine
\* that is accepted and then refused by a constructor or hook is refused for a
\* value that does not parse (logging.go:22, http.go:41, http/server.go:35) or a
\* file that cannot be loaded, never for want of a setting or for a combination
\* of settings.
AcceptedEngineStarts ==
  phase = "broken" /\ profile = "production" /\ On("temporal") => Malformed \/ Unloadable
=============================================================================
