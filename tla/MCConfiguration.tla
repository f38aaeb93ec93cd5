-------------------------- MODULE MCConfiguration --------------------------
EXTENDS Configuration

Client(u) == {u} \X {"present", "target", "form", "timeout", "retry", "breaker", "tls_pair", "files"}

\* Everything the engine runs with.
Engine ==
  Service({"database", "dsn", "dsn_form", "redis", "idempotency", "routes", "events", "temporal"})
    \cup Client("application") \cup Client("authorization")

\* What production adds.
Hardening == Service({"grpc_tls", "grpc_cert", "grpc_files", "jwks", "authorization", "swagger_auth"})
Reflection == Service({"reflection"})

\* One setting the other way round.
Change(s) == {Layer("", {s}, {}), Layer("", {}, {s})}
AnyChange == UNION {Change(s) : s \in Settings}

Files == {Layer("", Engine, {}), Layer("production", Engine \cup Hardening, Reflection),
          Layer("", Engine \cup Client("http") \cup {<<"http", "insecure">>, <<"http", "token">>}, {})}

Profiles ==
  AnyChange \cup {NoFile, Layer("", Hardening, Reflection),
                  Layer("development", Hardening, Reflection), Layer("development", {}, {})}

Variables ==
  AnyChange \cup {Nothing, Layer("Production", {}, {}), Layer("development", {}, Service({"authorization"})),
                  Layer("not a name", {}, {})}

SomeFlags == {"", "production"}
=============================================================================
