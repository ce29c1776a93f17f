----------------------------- MODULE ErrorMapper -----------------------------
(***************************************************************************)
(* The error mapper interceptor and its mappers                            *)
(* (examples/go/errormapperinterceptor): an activity's attempts return     *)
(* errors, which are rewritten on their way to the SDK.                    *)
(*                                                                         *)
(* An error is the chain of what it wraps, outermost first.  The SDK is    *)
(* external: it reports a cancellation where one was requested and the     *)
(* chain has it, and otherwise goes by the outermost error.                *)
(***************************************************************************)
EXTENDS ActivityHelpers, FiniteSetsExt

CONSTANTS
  Errors,       \* the chains an activity may return
  Chains,       \* the values of Options.Mappers: sequences of mapper names
  MaxTries      \* bound on the attempts

Native == {"RetryableError", "NonRetryableError",
           "CanceledError", "TimeoutError", "TerminatedError"}
JSONErrors    == {"json.UnmarshalTypeError", "json.SyntaxError"}
DNSErrors     == {"nxdomain", "dns"}
GRPCPermanent == {"grpc.InvalidArgument", "grpc.NotFound"}
GRPCTransient == {"grpc.Unavailable", "grpc.Canceled"}
Others        == {"wrap", "url.Error", "context.Canceled", "timeout", "refused", "grpc.OK"}

Node == Native \cup JSONErrors \cup DNSErrors \cup GRPCPermanent \cup GRPCTransient \cup Others

MapperNames == {"encoding/json", "net", "net/url", "grpc"}

ASSUME MapperAssumption ==
  /\ Errors \subseteq Seq(Node) \ {<<>>}
  /\ Chains \subseteq Seq(MapperNames)
  /\ MaxTries \in Nat \ {0}

\* The kinds that decide whether a failure can be mended, and those of errors without
\* an Unwrap method.
Deciding == JSONErrors \cup DNSErrors \cup GRPCPermanent \cup GRPCTransient \cup {"grpc.OK"}
Leaves   == JSONErrors \cup {"context.Canceled", "CanceledError"}

\* What the libraries wrap: no error for another reason than its own, least of all
\* a gRPC status in a url.Error.
ASSUME WrappingAssumption ==
  \A e \in Errors : \A i, j \in DOMAIN e :
    /\ {e[i], e[j]} \subseteq Deciding => e[i] = e[j]
    /\ e[i] = "url.Error" => e[j] \notin Deciding \ (JSONErrors \cup DNSErrors)
    /\ e[i] \in Leaves => j <= i

\* The order is reversed in a fault.
DefaultMappersGenericFirst == <<"net/url", "net", "encoding/json">>

DefaultMappers == <<"encoding/json", "net", "net/url">>

\* errors.As: the first of the chain that is one of kinds, or 0.
checkError(e, kinds) ==
  LET found == {i \in DOMAIN e : e[i] \in kinds} IN IF found = {} THEN 0 ELSE Min(found)

Is(e, kinds) == checkError(e, kinds) # 0

Declined == <<>>

\* An ApplicationError around its cause.
Mapped(nonRetryable, cause) ==
  <<IF nonRetryable THEN "NonRetryableError"
                    ELSE "RetryableError">> \o cause

\* The cause is the JSON error itself, whatever it came wrapped in.
MapJSON(e) ==
  IF Is(e, JSONErrors) THEN Mapped(TRUE, SubSeq(e, checkError(e, JSONErrors), Len(e)))
  ELSE Declined

MapNet(e) ==
  IF Is(e, DNSErrors) THEN Mapped(e[checkError(e, DNSErrors)] = "nxdomain", e)
  ELSE Declined

\* A fault: the cause is left out.
MapURLWithoutCause(e) == IF Is(e, {"url.Error"}) THEN Mapped(FALSE, <<>>) ELSE Declined

MapURL(e) == IF Is(e, {"url.Error"}) THEN Mapped(FALSE, e) ELSE Declined

MapGRPC(e) ==
  LET code == checkError(e, GRPCPermanent \cup GRPCTransient \cup {"grpc.OK"}) IN
  IF code = 0 \/ Is(e, {"grpc.OK"}) THEN Declined ELSE Mapped(e[code] \in GRPCPermanent, e)

MapError(name, e) ==
  CASE name = "encoding/json" -> MapJSON(e)
    [] name = "net" -> MapNet(e)
    [] name = "net/url" -> MapURL(e)
    [] name = "grpc" -> MapGRPC(e)

isNativeTemporalError(e) == Is(e, Native)

Rewritten(chain, e) ==
  LET claims == {i \in DOMAIN chain : MapError(chain[i], e) # Declined} IN
  IF isNativeTemporalError(e) \/ claims = {} THEN e ELSE MapError(chain[Min(claims)], e)

-----------------------------------------------------------------------------
(* The activity.                                                           *)

VARIABLES
  mappers,   \* Options.Mappers, fixed by MapperInit
  tries,
  state,     \* "running", "returned", "retrying", "failed", "canceled" or "completed"
  canceled,  \* has its cancellation been requested?
  raw,       \* the error its code returned in the last attempt
  err        \* the error the interceptor returned

mapperVars == <<mappers, tries, state, canceled, raw, err>>

RequestCancel ==
  /\ ~canceled /\ state = "running"
  /\ canceled' = TRUE
  /\ UNCHANGED <<mappers, tries, state, raw, err>>

\* The worker's shutdown cancels the context too.
ExecuteActivity(e) ==
  /\ state = "running"
  /\ raw' = e
  /\ err' = Rewritten(mappers, e)
  /\ state' = "returned"
  /\ UNCHANGED <<mappers, tries, canceled>>

Succeed ==
  /\ state = "running"
  /\ state' = "completed"
  /\ UNCHANGED <<mappers, tries, canceled, raw, err>>

\* The SDK reports the error and the service decides.
ReportError ==
  /\ state = "returned"
  /\ state' = IF canceled /\ Is(err, {"context.Canceled", "CanceledError"}) THEN "canceled"
              ELSE IF err[1] = "NonRetryableError" THEN "failed"
              ELSE IF tries = MaxTries THEN "failed" ELSE "retrying"
  /\ UNCHANGED <<mappers, tries, canceled, raw, err>>

RetryMapped ==
  /\ state = "retrying"
  /\ tries' = tries + 1
  /\ state' = "running"
  /\ UNCHANGED <<mappers, canceled, raw, err>>

MapperInit ==
  /\ mappers \in Chains
  /\ tries = 1
  /\ state = "running"
  /\ canceled = FALSE
  /\ raw = <<>> /\ err = <<>>

MapperNext ==
  \/ RequestCancel
  \/ \E e \in Errors : ExecuteActivity(e)
  \/ Succeed
  \/ ReportError
  \/ RetryMapped

MapperSpec == MapperInit /\ [][MapperNext]_mapperVars

-----------------------------------------------------------------------------
(* Properties.                                                             *)

Uses(names) == names \subseteq {mappers[i] : i \in DOMAIN mappers}

\* A failure no retry can mend: NXDOMAIN, a JSON value of the wrong shape, a
\* gRPC code that stands for the request itself.
Hopeless(e) ==
  \/ Uses({"net"}) /\ Is(e, {"nxdomain"})
  \/ Uses({"encoding/json"}) /\ Is(e, JSONErrors)
  \/ Uses({"grpc"}) /\ Is(e, GRPCPermanent)

\* Whatever a hopeless error is wrapped in and whatever other mapper could claim
\* it, it is not retried ("more specific packages come first so that, for
\* example, a *url.Error that wraps a *net.DNSError is claimed by net").
HopelessNotRetried ==
  state = "retrying" => ~Hopeless(raw) \/ isNativeTemporalError(raw)

\* Nothing else is failed before its time: what the mappers do not know, and what
\* they know to be transient, is retried.
TransientRetried ==
  state = "failed" /\ tries < MaxTries =>
    Hopeless(raw) \/ raw[1] = "NonRetryableError"

RightlyRetried == HopelessNotRetried /\ TransientRetried

\* "rewriting them would mask [...] cancellation" (interceptor.go:13-15): an
\* activity that stops for its cancellation is reported as canceled, with the
\* mappers as without them, native or not the error that says so.
CancellationSurvives ==
  state \in {"failed", "retrying"} /\ canceled =>
    ~Is(raw, {"CanceledError", "context.Canceled"})

\* The inductive core: the error reported is the one rewritten from the code's, and
\* decides what becomes of the activity.
MapperInv ==
  /\ mappers \in Chains
  /\ state \in {"running", "returned", "retrying", "failed", "canceled", "completed"}
  /\ canceled \in BOOLEAN
  /\ state \in {"returned", "retrying", "failed", "canceled"} =>
       raw \in Errors /\ err = Rewritten(mappers, raw)
  /\ state \in {"retrying", "failed"} /\ canceled =>
       ~Is(err, {"CanceledError", "context.Canceled"})
  /\ state = "retrying" => err[1] # "NonRetryableError"
  /\ state = "failed" /\ tries < MaxTries => err[1] = "NonRetryableError"
=============================================================================
