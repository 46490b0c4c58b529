----------------------------- MODULE KubeErrors -----------------------------
(***************************************************************************)
(* The translation of Kubernetes SDK failures into application exceptions  *)
(* (app/services/kube_errors.py, KubeApiException in                       *)
(* app/core/exceptions.py), and the split of those exceptions into         *)
(* per-node and cluster-level failures that a batch relies on.             *)
(* An exception is a record; NoStatus stands for Python's None.            *)
(***************************************************************************)
EXTENDS Naturals

NoStatus == 0

\* What a call into the SDK can raise: an ApiException with the HTTP status
\* the API server answered (0 when there was no HTTP response, as the SDK
\* spells a TLS failure), or a urllib3 network error.
ApiError(status) == [sdk |-> "ApiException", status |-> status]
NetworkError == [sdk |-> "HTTPError", status |-> NoStatus]

SdkErrors(statuses) == {ApiError(s) : s \in statuses} \cup {NetworkError}

\* A write whose answer was lost, or that the API server gave up on, may have
\* been applied; one refused with a 4xx, or never sent, was not.
MayHaveApplied(e) == e = NetworkError \/ e.status >= 500

-----------------------------------------------------------------------------
\* KubeApiException.__init__: a status below 400 (or none) answers 502.
KubeApiException_NotFloored(status, clusterLevel) ==
  [code         |-> "KUBE_API_ERROR",
   http         |-> status,
   kubeStatus   |-> status,
   clusterLevel |-> clusterLevel]

KubeApiException(status, clusterLevel) ==
  [code         |-> "KUBE_API_ERROR",
   http         |-> IF status >= 400 THEN status ELSE 502,
   kubeStatus   |-> status,
   clusterLevel |-> clusterLevel]

\* An exception about one resource, which carries no Kubernetes status.
AppException(code, http) ==
  [code |-> code, http |-> http, kubeStatus |-> NoStatus, clusterLevel |-> FALSE]

NodeNotFound == AppException("NODE_NOT_FOUND", 404)
NodeNotReady == AppException("NODE_NOT_READY", 409)

ConnectionError == KubeApiException(503, TRUE)

\* What PolicyService.enforce and denied_nodes raise: a refusal, and a users
\* file that cannot be trusted.
PolicyDenied == AppException("POLICY_DENIED", 403)
UsersFileInvalid == AppException("USERS_FILE_INVALID", 500)
PolicyErrors == {PolicyDenied, UsersFileInvalid}

\* What stops call_kube before the first Kubernetes call: a cluster nobody
\* configured, a credential file that does not parse, a client that cannot be
\* built from it.
ResolveErrors ==
  {AppException("CLUSTER_NOT_FOUND", 404), AppException("VALIDATION_ERROR", 422),
   KubeApiException(NoStatus, FALSE)}

\* translate_kube_errors without and with a not_found factory.
Translate(e) ==
  IF e.sdk = "HTTPError" THEN ConnectionError ELSE KubeApiException(e.status, FALSE)

TranslateOn(e, notFound) ==
  IF e = ApiError(404) THEN notFound ELSE Translate(e)

\* NodeService._is_cluster_level
IsClusterLevel_StatusOnly(exc) ==
  /\ exc.code = "KUBE_API_ERROR"
  /\ exc.clusterLevel \/ exc.kubeStatus \in {401, 403}

IsClusterLevel(exc) ==
  /\ exc.code = "KUBE_API_ERROR"
  /\ exc.clusterLevel \/ exc.kubeStatus \in {401, 403, NoStatus}
=============================================================================
