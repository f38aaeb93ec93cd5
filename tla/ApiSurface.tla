----------------------------- MODULE ApiSurface -----------------------------
(***************************************************************************)
(* The two public surfaces of the service as tables: what each HTTP route  *)
(* binds, which service method every handler calls with which fields, what *)
(* the gRPC methods pass on, which fields the service itself insists on,   *)
(* the permission of each operation and how errors become answers.         *)
(*                                                                         *)
(* Field values are not modelled, only whether a field reaches the next    *)
(* layer.                                                                  *)
(***************************************************************************)

\* Two tables read as one.
f ++ g == [x \in DOMAIN f \cup DOMAIN g |-> IF x \in DOMAIN f THEN f[x] ELSE g[x]]

(* -- What the request types of the HTTP API mark as required ------------ *)

Scope == {"tenant", "application"}
Identity == Scope \cup {"id"}
Versioned == Identity \cup {"version"}

DefinitionRequests ==
  [CreateDefinition |-> Scope \cup {"key", "name", "nodes", "edges"},
   UpdateDefinition |-> Versioned \cup {"name", "nodes", "edges"},
   PublishDefinition |-> Versioned, DisableDefinition |-> Versioned,
   GetDefinition |-> Identity, ListDefinitions |-> {"tenant"},
   ListStartDefinitionCandidates |-> Scope,
   ListInstanceDefinitionCandidates |-> Scope]

InstanceRequests ==
  [StartInstance |-> Scope \cup {"definition_key", "business_key", "title", "idempotency_key"},
   CancelInstance |-> Versioned \cup {"reason"},
   GetInstance |-> Identity, ListInstances |-> Scope]

TaskRequests ==
  [ClaimTask |-> Versioned, CompleteTask |-> Versioned \cup {"decision"},
   DelegateTask |-> Versioned \cup {"delegate_to", "reason"},
   GetTask |-> Identity, ListTasks |-> Scope,
   ListTaskInstanceCandidates |-> Scope,
   ListTaskHistory |-> Scope \cup {"task_id"},
   ListInstanceTaskHistory |-> Scope \cup {"instance_id"}]

Bound == DefinitionRequests ++ InstanceRequests ++ TaskRequests
Operations == DOMAIN Bound

(* -- The service call of each HTTP handler and the fields it hands over -- *)

Calls(service, fields) == [service |-> service, fields |-> fields]

DefinitionHandlers ==
  [CreateDefinition |-> Calls("CreateDefinition", Scope \cup {"key", "name", "nodes", "edges"}),
   UpdateDefinition |-> Calls("UpdateDefinition", Versioned \cup {"name", "nodes", "edges"}),
   PublishDefinition |-> Calls("PublishDefinition", Versioned),
   DisableDefinition |-> Calls("DisableDefinition", Versioned),
   GetDefinition |-> Calls("GetDefinition", Identity),
   ListDefinitions |-> Calls("ListDefinitions", Scope)]

CandidateHandlers ==
  [ListStartDefinitionCandidates |-> Calls("ListStartDefinitionCandidates", Scope),
   ListInstanceDefinitionCandidates |-> Calls("ListInstanceDefinitionCandidates", Scope)]

InstanceHandlers ==
  [StartInstance |-> Calls("StartInstance",
      Scope \cup {"definition_key", "business_key", "title", "idempotency_key"}),
   CancelInstance |-> Calls("CancelInstance", Versioned \cup {"reason"}),
   GetInstance |-> Calls("GetInstance", Identity),
   ListInstances |-> Calls("ListInstances", Scope)]

TaskWriteHandlers ==
  [ClaimTask |-> Calls("ClaimTask", Versioned),
   CompleteTask |-> Calls("CompleteTask", Versioned \cup {"decision"}),
   DelegateTask |-> Calls("DelegateTask", Versioned \cup {"delegate_to", "reason"})]

TaskReadHandlers ==
  [GetTask |-> Calls("GetTask", Identity),
   ListTasks |-> Calls("ListMyTasks", Scope),
   ListTaskInstanceCandidates |-> Calls("ListMyTaskInstanceCandidates", Scope),
   ListTaskHistory |-> Calls("ListTaskHistory", Scope \cup {"task_id"}),
   ListInstanceTaskHistory |-> Calls("ListTaskHistory", Scope \cup {"instance_id"})]

(* -- The same for the gRPC methods, which bind nothing ------------------- *)

DefinitionMethods ==
  [CreateDefinition |-> Calls("CreateDefinition", Scope \cup {"key", "name", "nodes", "edges"}),
   UpdateDefinition |-> Calls("UpdateDefinition", Versioned \cup {"name", "nodes", "edges"}),
   PublishDefinition |-> Calls("PublishDefinition", Versioned),
   DisableDefinition |-> Calls("DisableDefinition", Versioned),
   GetDefinition |-> Calls("GetDefinition", Identity),
   ListDefinitions |-> Calls("ListDefinitions", Scope)]

InstanceMethods ==
  [StartInstance |-> Calls("StartInstance",
      Scope \cup {"definition_key", "business_key", "title", "idempotency_key"}),
   CancelInstance |-> Calls("CancelInstance", Versioned \cup {"reason"}),
   GetInstance |-> Calls("GetInstance", Identity),
   ListInstances |-> Calls("ListInstances", Scope)]

TaskMethods ==
  [ClaimTask |-> Calls("ClaimTask", Versioned),
   CompleteTask |-> Calls("CompleteTask", Versioned \cup {"decision"}),
   DelegateTask |-> Calls("DelegateTask", Versioned \cup {"delegate_to", "reason"}),
   GetTask |-> Calls("GetTask", Identity),
   ListTasks |-> Calls("ListMyTasks", Scope),
   ListTaskHistory |-> Calls("ListTaskHistory", Scope \cup {"task_id"}),
   ListInstanceTaskHistory |-> Calls("ListTaskHistory", Scope \cup {"instance_id"})]

Handlers ==
  [http |-> DefinitionHandlers ++ CandidateHandlers ++ InstanceHandlers ++ TaskWriteHandlers ++ TaskReadHandlers,
   grpc |-> DefinitionMethods ++ InstanceMethods ++ TaskMethods]

(* -- What the service refuses to work without: one error per field ------ *)
(* A task operation loads the task before it looks at the version; Claim   *)
(* answers a missing version as a stale one, the others as invalid input.  *)

Invalid(fields) == [f \in fields |-> "invalid"]

DefinitionChecks ==
  [CreateDefinition |-> Invalid(Scope \cup {"key", "name", "nodes", "edges"}),
   UpdateDefinition |-> Invalid(Versioned \cup {"name", "nodes", "edges"}),
   PublishDefinition |-> Invalid(Versioned), DisableDefinition |-> Invalid(Versioned),
   GetDefinition |-> Invalid(Identity), ListDefinitions |-> Invalid(Scope),
   ListStartDefinitionCandidates |-> Invalid(Scope),
   ListInstanceDefinitionCandidates |-> Invalid(Scope)]

InstanceChecks ==
  [StartInstance |-> Invalid(Scope \cup {"definition_key", "business_key", "title", "idempotency_key"}),
   CancelInstance |-> Invalid(Versioned \cup {"reason"}),
   GetInstance |-> Invalid(Identity), ListInstances |-> Invalid(Scope)]

\* Mutant: the service leaves the version to the binding of the HTTP layer.
TaskChecksUnversioned ==
  [ClaimTask |-> Invalid(Identity), CompleteTask |-> Invalid(Identity \cup {"decision"}),
   DelegateTask |-> Invalid(Identity \cup {"delegate_to", "reason"}),
   GetTask |-> Invalid(Identity), ListMyTasks |-> Invalid(Scope),
   ListMyTaskInstanceCandidates |-> Invalid(Scope),
   ListTaskHistory |-> Invalid(Scope \cup {"task_id", "instance_id"})]

\* ListTaskHistory wants exactly one of task and instance; its two callers
\* each hand over one, so that the other is never missed.
TaskChecks ==
  [ClaimTask |-> Invalid(Identity) ++ [version |-> "stale"],
   CompleteTask |-> Invalid(Versioned \cup {"decision"}),
   DelegateTask |-> Invalid(Versioned \cup {"delegate_to", "reason"}),
   GetTask |-> Invalid(Identity), ListMyTasks |-> Invalid(Scope),
   ListMyTaskInstanceCandidates |-> Invalid(Scope),
   ListTaskHistory |-> Invalid(Scope \cup {"task_id", "instance_id"})]

Checks == DefinitionChecks ++ InstanceChecks ++ TaskChecks

\* The operations that change rows; the configured idempotent routes.
Mutations == {"CreateDefinition", "UpdateDefinition", "PublishDefinition", "DisableDefinition",
              "StartInstance", "CancelInstance", "ClaimTask", "CompleteTask", "DelegateTask"}

(* -- Permissions --------------------------------------------------------- *)

Permission(resource, action) == [resource |-> resource, action |-> action]
On(resource, actions) == [op \in DOMAIN actions |-> Permission(resource, actions[op])]

workflowHTTPRequirement ==
  On("workflow.definition",
     [CreateDefinition |-> "create", UpdateDefinition |-> "update", PublishDefinition |-> "publish",
      DisableDefinition |-> "disable", GetDefinition |-> "read", ListDefinitions |-> "list"])
  ++ On("workflow.instance",
     [StartInstance |-> "start", CancelInstance |-> "cancel", GetInstance |-> "read",
      ListInstances |-> "list", ListStartDefinitionCandidates |-> "start",
      ListInstanceDefinitionCandidates |-> "list", ListInstanceTaskHistory |-> "read"])
  ++ On("workflow.task",
     [ClaimTask |-> "claim", CompleteTask |-> "complete", DelegateTask |-> "delegate",
      GetTask |-> "read", ListTasks |-> "list", ListTaskInstanceCandidates |-> "list",
      ListTaskHistory |-> "read"])

workflowGRPCRequirement ==
  On("workflow.definition",
     [CreateDefinition |-> "create", UpdateDefinition |-> "update", PublishDefinition |-> "publish",
      DisableDefinition |-> "disable", GetDefinition |-> "read", ListDefinitions |-> "list"])
  ++ On("workflow.instance",
     [StartInstance |-> "start", CancelInstance |-> "cancel", GetInstance |-> "read",
      ListInstances |-> "list", ListInstanceTaskHistory |-> "read"])
  ++ On("workflow.task",
     [ClaimTask |-> "claim", CompleteTask |-> "complete", DelegateTask |-> "delegate",
      GetTask |-> "read", ListTasks |-> "list", ListTaskHistory |-> "read"])

Requirement == [http |-> workflowHTTPRequirement, grpc |-> workflowGRPCRequirement]

(* -- Errors of the service as answers ------------------------------------ *)

workflowHTTPError ==
  [invalid |-> "400", actor |-> "401", not_found |-> "404", forbidden |-> "403",
   stale |-> "409", conflict |-> "409", app_unavailable |-> "503",
   deadline |-> "500", other |-> "500"]

grpcError ==
  [invalid |-> "InvalidArgument", actor |-> "Unauthenticated", not_found |-> "NotFound",
   forbidden |-> "PermissionDenied", stale |-> "Aborted", conflict |-> "FailedPrecondition",
   app_unavailable |-> "Unavailable", deadline |-> "DeadlineExceeded", other |-> "Internal"]

ErrorAnswer == [http |-> workflowHTTPError, grpc |-> grpcError]
ServiceErrors == DOMAIN workflowHTTPError

\* The answers the middlewares and interceptors of the repository give.
HttpRefusal ==
  [bad_key |-> "400", origin |-> "403", media |-> "415", too_many |-> "429",
   unauthenticated |-> "401", denied |-> "403", unavailable |-> "503",
   in_progress |-> "409", other_request |-> "409", unbound |-> "400", panic |-> "500"]

GrpcRefusal ==
  [bad_key |-> "InvalidArgument", unauthenticated |-> "Unauthenticated", panic |-> "Internal"]

\* Authorisation and idempotency of the gRPC chain are library interceptors:
\* their codes are not in the repository and are left abstract.
LibraryRefusal ==
  [denied |-> "denied", unavailable |-> "unavailable",
   in_progress |-> "in_progress", other_request |-> "other_request"]

Refusal == [http |-> HttpRefusal, grpc |-> GrpcRefusal ++ LibraryRefusal]

Success == [http |-> "200", grpc |-> "OK"]
=============================================================================
