----------------------------- MODULE OrderErrors -----------------------------
(***************************************************************************)
(* errors.py: how the SDK turns the status of a failed RPC into the type   *)
(* of exception its caller sees, and the flag that says whether the        *)
(* failure proves the exchange was left untouched.                         *)
(***************************************************************************)

(* The gRPC status codes a failed call can end with.                       *)
StatusCodes ==
  { "CANCELLED", "UNKNOWN", "INVALID_ARGUMENT", "DEADLINE_EXCEEDED",
    "NOT_FOUND", "ALREADY_EXISTS", "PERMISSION_DENIED", "RESOURCE_EXHAUSTED",
    "FAILED_PRECONDITION", "ABORTED", "OUT_OF_RANGE", "UNIMPLEMENTED",
    "INTERNAL", "UNAVAILABLE", "DATA_LOSS", "UNAUTHENTICATED" }

(* What translate reads out of a detail: the prefix that opens it.         *)
Markers == {"none", "NOT_PROCESSED", "ORDER_CHANGED", "ORDER_PENDING"}

(* A failed call: its code, the marker opening its detail, and whether the *)
(* detail closes with the clause "(cancel-all incomplete: ...)".           *)
Statuses == [code : StatusCodes, marker : Markers, clause : BOOLEAN]

Failure(code) == [code |-> code, marker |-> "none", clause |-> FALSE]
Marked(code, marker) == [code |-> code, marker |-> marker, clause |-> FALSE]

(* Mutant: a closing channel forgotten among the uncertain codes.          *)
UncertainCodesSansCancelled ==
  {"DEADLINE_EXCEEDED", "UNAVAILABLE", "INTERNAL", "UNKNOWN"}

(* Codes that do not prove the exchange was left untouched.                *)
UncertainCodes ==
  {"DEADLINE_EXCEEDED", "UNAVAILABLE", "INTERNAL", "CANCELLED", "UNKNOWN"}

(* The class each code has of its own.                                     *)
CodeToClass ==
  [ UNAUTHENTICATED     |-> "Unauthenticated",
    PERMISSION_DENIED   |-> "PermissionDenied",
    NOT_FOUND           |-> "NotFound",
    INVALID_ARGUMENT    |-> "InvalidArgument",
    FAILED_PRECONDITION |-> "FailedPrecondition",
    ABORTED             |-> "Aborted",
    UNAVAILABLE         |-> "Unavailable",
    DEADLINE_EXCEEDED   |-> "DeadlineExceeded",
    INTERNAL            |-> "Internal",
    RESOURCE_EXHAUSTED  |-> "ResourceExhausted",
    CANCELLED           |-> "Cancelled" ]

ErrorClasses ==
  { "Unauthenticated", "PermissionDenied", "NotFound", "InvalidArgument",
    "FailedPrecondition", "Aborted", "Unavailable", "DeadlineExceeded",
    "Internal", "ResourceExhausted", "Cancelled", "VoltnirError",
    "OrderChanged", "OrderPending", "RequestNotProcessed",
    "OrderOutcomeUnknown" }

(* The classes an `except` clause naming cls catches.                      *)
CaughtBy(cls) ==
  CASE cls = "VoltnirError" -> ErrorClasses
    [] cls = "Aborted"      -> {"Aborted", "OrderChanged", "OrderPending"}
    [] cls = "Unavailable"  -> {"Unavailable", "RequestNotProcessed"}
    [] OTHER                -> {cls}

(* The plain reading of a code; one with no class gets the base class.     *)
ClassOfCode(code) ==
  IF code \in DOMAIN CodeToClass THEN CodeToClass[code] ELSE "VoltnirError"

(* Mutant: every UNAVAILABLE taken for the broker's return.                *)
TranslateUnmarked(status, orderMutating) ==
  IF orderMutating /\ status.code = "UNAVAILABLE" THEN "RequestNotProcessed"
  ELSE IF orderMutating /\ status.code \in UncertainCodes
  THEN "OrderOutcomeUnknown"
  ELSE ClassOfCode(status.code)

(* translate: the markers are read before the uncertain set is consulted.  *)
Translate(status, orderMutating) ==
  IF status.code = "ABORTED" /\ status.marker = "ORDER_CHANGED"
  THEN "OrderChanged"
  ELSE IF status.code = "ABORTED" /\ status.marker = "ORDER_PENDING"
  THEN "OrderPending"
  ELSE IF /\ orderMutating
          /\ status.code = "UNAVAILABLE"
          /\ status.marker = "NOT_PROCESSED"
  THEN "RequestNotProcessed"
  ELSE IF orderMutating /\ status.code \in UncertainCodes
  THEN "OrderOutcomeUnknown"
  ELSE ClassOfCode(status.code)

(* Mutant: the clause is not looked for.                                   *)
IsIncompleteNever(rpc, status) == FALSE

(* Only a CancelAllOrders message that ends with the clause counts.        *)
IsIncompleteCancelAll(rpc, status) ==
  rpc = "CancelAllOrders" /\ status.clause

(* Mutant: OrderOutcomeUnknown does not override the class attribute.      *)
ClassRejectsAlways(cls) == TRUE

(* The value of request_definitely_rejected the class starts from.         *)
ClassRejects(cls) == cls # "OrderOutcomeUnknown"

(* request_definitely_rejected of the instance the caller catches.         *)
DefinitelyRejected(cls, rpc, status) ==
  ClassRejects(cls) /\ ~IsIncompleteCancelAll(rpc, status)

(* The error a caller of rpc catches: the class, and its own flag.         *)
ErrorOf(rpc, status, orderMutating) ==
  LET cls == Translate(status, orderMutating) IN
  [cls |-> cls, rejected |-> DefinitelyRejected(cls, rpc, status)]
=============================================================================
