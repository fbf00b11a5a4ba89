---------------------------- MODULE GatewayErrors ----------------------------
(***************************************************************************)
(* The gateway's errors: their codes and statuses, who is at fault for     *)
(* each, what each dependency's failure becomes, and the two decisions     *)
(* that read them (clientGone and shouldTryFallback).                      *)
(***************************************************************************)
EXTENDS Integers

-----------------------------------------------------------------------------
(* GatewayError: fault is the "fault" metadata, "" when there is none.      *)

Error(code, status) == [code |-> code, status |-> status, fault |-> ""]

NoError == Error("none", 0)

\* An error that is not a GatewayError; the handler reports it as a 500.
Untyped == Error("untyped", 500)

ErrInvalidAPIKey == Error("invalid_api_key", 401)
ErrInactiveAccount == Error("inactive_account", 403)
ErrGuestModelNotAllowed == Error("guest_model_not_allowed", 403)
ErrUnsupportedModel == Error("unsupported_model", 404)
ErrUnsupportedEndpoint == Error("unsupported_endpoint", 422)
ErrInvalidField == Error("invalid_field", 400)
ErrInsufficientBalance == Error("insufficient_balance", 402)
ErrDailyTokenLimit == Error("daily_token_limit_exceeded", 429)
ErrClientCanceled == Error("client_canceled", 499)
ErrNotFound == Error("not_found", 404)
ErrInternal == Error("internal_error", 500)
ErrProviderError(status) == Error("provider_error", status)
ErrProviderUnavailable == Error("provider_unavailable", 503)
ErrProviderTimeout == Error("provider_timeout", 504)
ErrProviderConfiguration == Error("provider_configuration_error", 502)
ErrProviderRateLimited == Error("provider_rate_limited", 429)
ErrProviderRejected(status) == Error("provider_rejected_request", status)

\* A provider the catalog names and this build does not know.
ErrNotRegistered == [ErrProviderUnavailable EXCEPT !.fault = "nexus"]

-----------------------------------------------------------------------------
(* Fault.                                                                  *)

CallerCodes ==
  {"invalid_api_key", "confidential_request_limit_exceeded",
   "inactive_api_key", "inactive_account", "unsupported_model",
   "unsupported_endpoint", "unsupported_feature", "context_length_exceeded",
   "tool_schema_invalid", "tool_message_invalid", "invalid_field",
   "unknown_field", "insufficient_balance", "client_canceled", "not_found",
   "forbidden", "conflict", "already_exists"}

ProviderCodes ==
  {"provider_rate_limited", "provider_unavailable", "provider_timeout",
   "provider_error"}

\* A code the table does not name is Nexus's.
faultByCode(code) ==
  CASE code \in CallerCodes -> "caller"
    [] code \in ProviderCodes -> "provider"
    [] code = "provider_rejected_request" -> "unclear"
    [] OTHER -> "nexus"

FaultOf(err) == IF err.fault # "" THEN err.fault ELSE faultByCode(err.code)

\* A Nexus-side failure after the client left is the client's cancellation.
clientGone(gone, err) ==
  IF err # NoError /\ gone /\ FaultOf(err) = "nexus" THEN ErrClientCanceled
  ELSE err

\* Only rate limits and server-side failures change provider.
shouldTryFallback(live, err, hasFallback) ==
  /\ err # NoError /\ hasFallback /\ live
  /\ err = Untyped \/ err.status = 429 \/ err.status >= 500

-----------------------------------------------------------------------------
(* What a dependency's failure becomes.                                    *)

\* Metering (userFacingMeteringError, meteringResponseError): the refusals it
\* documents for the operation reach the caller; anything else, and no answer
\* at all, is internal.  A call ended by its context returns ctx.Err().
Refusals(op) ==
  CASE op = "authenticate" -> {ErrInvalidAPIKey, ErrInactiveAccount}
    [] op = "model" -> {ErrUnsupportedModel}
    [] op = "router" -> {ErrNotFound}
    [] op = "reserve" -> {ErrInsufficientBalance, ErrDailyTokenLimit}

MeteringErrors(op, gone) ==
  Refusals(op) \cup {ErrInternal} \cup (IF gone THEN {Untyped} ELSE {})

\* The router (mapRouterError).
RouterErrors == {ErrUnsupportedModel, ErrInvalidField, ErrInternal}

\* The provider (mapProviderError), by the status it answered with; 0 is a
\* network failure.
mapProviderError(status) ==
  CASE status \in {401, 402, 403} -> ErrProviderConfiguration
    [] status = 429 -> ErrProviderRateLimited
    [] status = 503 -> ErrProviderUnavailable
    [] status = 504 -> ErrProviderTimeout
    [] status >= 500 /\ status \notin {503, 504} -> ErrProviderError(status)
    [] OTHER -> ErrProviderRejected(status)

NetworkErrors == {ErrProviderTimeout, ErrProviderUnavailable, ErrProviderError(502)}

\* TypeSafe's adapter passes these on as the provider's own errors.
TypeSafeErrors(statuses) ==
  {ErrProviderError(status) : status \in statuses \cap {422, 429, 529}}

\* What a provider call can fail with: the credential is missing, the provider
\* refuses or does not answer; a canceled context reads as the client's
\* cancellation, which Proxy replaces with the context's cause.
ProviderErrors(statuses, live) ==
  {ErrInternal} \cup {mapProviderError(status) : status \in statuses}
    \cup TypeSafeErrors(statuses) \cup NetworkErrors
    \cup (IF live THEN {} ELSE {ErrClientCanceled})

=============================================================================
