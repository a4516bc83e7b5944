---------------------------- MODULE HttpAssetReader ----------------------------
(***************************************************************************)
(* A reader bound to one revision of an HTTP asset                         *)
(* (libs/usd-asset-http/src/HttpAssetReader.cpp, Framing.cpp): the open's  *)
(* metadata request, ranged reads, bounded retry, resume and redirect, and *)
(* the evidence that tells a changed asset from a malformed answer.        *)
(*                                                                         *)
(* One request and its answer is one step; between two of them the origin  *)
(* may have moved to another revision.  A byte is the revision it is of,   *)
(* and the buffer is modelled up to the bytes that count.                  *)
(* The transport and the server are external: an answer is any record that *)
(* the code in src/ distinguishes from another.                            *)
(***************************************************************************)
EXTENDS Integers, FiniteSets

CONSTANTS
  Rev,           \* revisions of the asset
  NoRev,
  SizeOf(_),     \* the length of a revision
  WeakTag(_),    \* what a weak validator or a date says of a revision
  Strength,      \* validators an origin may offer: Strong, Weak, Date, None
  Host,          \* scheme, host and port: what SameOrigin compares
  NoHost,
  Origin,        \* the one the asset is opened at
  Permitted,     \* hosts the destination policy permits
  Secure,        \* hosts reached by https
  MaxAttempts,
  MaxRedirects

ASSUME HttpAssumption ==
  /\ \A r \in Rev : SizeOf(r) \in Nat \ {0}
  /\ Strength \subseteq {"Strong", "Weak", "Date", "None"}
  /\ Origin \in Host /\ NoHost \notin Host /\ NoRev \notin Rev
  /\ MaxAttempts \in Nat /\ MaxRedirects \in Nat

VARIABLES
  scheme,  \* the validator the origin offers
  reader,  \* what the open captured: revision, size, validator, final URI
  op       \* the logical operation in progress: an open or one Read

httpVars == <<scheme, reader, op>>

NoTag == <<"absent">>
NoBuffer == <<>>

\* What a response says its representation is.
TagOf(rev) == CASE scheme = "Strong" -> <<"tag", rev>>
                [] scheme \in {"Weak", "Date"} -> <<"weak", WeakTag(rev)>>
                [] scheme = "None" -> NoTag

NoResponse == [status |-> 0, error |-> "None", rev |-> NoRev, tag |-> NoTag, complete |-> 0,
               window |-> "none", body |-> 0, overflow |-> FALSE, location |-> NoHost]

NoOp == [pc |-> "idle", method |-> "HEAD", length |-> 0, done |-> 0, buffer |-> NoBuffer,
         retries |-> 0, redirects |-> 0, current |-> NoHost, response |-> NoResponse,
         sent |-> 0, result |-> "none", returned |-> 0]
Closed == [open |-> FALSE, rev |-> NoRev, size |-> 0, tag |-> NoTag, uri |-> NoHost]

Init ==
  /\ scheme \in Strength
  /\ reader = Closed
  /\ op = NoOp

------------------------------------------------------------------------------
\* An open, or one Read, has one budget of retries.
Budget == IF MaxAttempts > 0 THEN MaxAttempts - 1 ELSE 0

Open ==
  /\ op.pc = "idle" /\ ~reader.open
  /\ op' = [NoOp EXCEPT !.pc = "preflight", !.retries = Budget, !.current = Origin]
  /\ UNCHANGED <<scheme, reader>>

\* A non-empty range inside the size; any other read returns without a request.
Read ==
  /\ op.pc = "idle" /\ reader.open
  /\ \E length \in 1..reader.size :
       op' = [NoOp EXCEPT !.pc = "preflight", !.method = "GET", !.length = length,
                          !.retries = Budget, !.current = reader.uri]
  /\ UNCHANGED <<scheme, reader>>

Returns(status, bytes, buffer) ==
  /\ op' = [op EXCEPT !.pc = "returned", !.result = status, !.returned = bytes,
                      !.buffer = buffer, !.response = NoResponse]
  /\ UNCHANGED <<scheme, reader>>

Fails(status) == Returns(status, op.done, op.buffer)

Return ==
  /\ op.pc = "returned"
  /\ op' = NoOp
  /\ UNCHANGED <<scheme, reader>>

------------------------------------------------------------------------------
\* PerformExchange.  Every hop starts with the destination policy.
Refuse    == op.pc = "preflight" /\ op.current \notin Permitted /\ Fails("AccessDenied")
Preflight ==
  /\ op.pc = "preflight" /\ op.current \in Permitted
  /\ op' = [op EXCEPT !.pc = "attempt"]
  /\ UNCHANGED <<scheme, reader>>

\* Intercept is asked per attempt, and only for the origin as opened; it may
\* decline or answer with headers that cannot be sent.
Intercepted == op.current = Origin
Decline ==
  /\ op.pc = "attempt" /\ Intercepted
  /\ \E status \in {"AccessDenied", "InvalidArgument"} : Fails(status)

\* If-Range carries a strong tag or a date, as captured.
IfRange == IF op.method = "GET" /\ scheme \in {"Strong", "Date"} THEN reader.tag ELSE NoTag
Remaining == op.length - op.done

\* One request is sent and answered by a.
Receives(a) ==
  /\ op.pc = "attempt"
  /\ op' = [op EXCEPT !.pc = "judge", !.response = a, !.sent = @ + 1]
  /\ UNCHANGED <<scheme, reader>>

Answer(status) == [NoResponse EXCEPT !.status = status]

Unanswered ==
  \/ \E e \in {"ConnectFailed", "ConnectionLost", "ConnectTimeout", "ResponseTimeout",
               "Malformed", "DestinationRefused"} : Receives([NoResponse EXCEPT !.error = e])
  \/ \E s \in {302, 503} : Receives([Answer(s) EXCEPT !.error = "HeadersTooLarge"])

\* How a transfer whose status line arrived may end: the transport hands up the
\* status and the headers it has, and the error beside them.
Endings == {"None", "IncompleteBody", "ConnectionLost", "ResponseTimeout", "TransferTimeout"}

Refused == \E s \in {404, 503}, e \in Endings : Receives([Answer(s) EXCEPT !.error = e])
Moved   == \E h \in Host \cup {NoHost}, e \in Endings :
             Receives([Answer(302) EXCEPT !.location = h, !.error = e])

\* A whole representation, or a refusal of the range, with what it says of the
\* representation.  complete = 0: not stated.  Of how its transfer ended, which
\* the code does not look at, one failure stands for all.
Whole ==
  \E s \in {200, 416}, r \in Rev, e \in {"None", "TransferTimeout"} :
    \E tag \in {TagOf(r), NoTag}, n \in {0, SizeOf(r)} :
      Receives([Answer(s) EXCEPT !.rev = r, !.tag = tag, !.complete = n, !.error = e])

\* A partial representation.  The origin honours If-Range, or else says which
\* representation it is sending: one that does neither cannot be told apart.
Identified(a) == a.tag = TagOf(a.rev) \/ IfRange \in {NoTag, TagOf(a.rev)}
Partial ==
  /\ op.method = "GET"
  /\ \E r \in Rev : \E tag \in {TagOf(r), NoTag}, n \in {0, SizeOf(r)} :
       LET a == [Answer(206) EXCEPT !.rev = r, !.tag = tag, !.complete = n, !.window = "exact"]
       IN  /\ Identified(a)
           /\ \/ \E b \in 0..Remaining, e \in Endings :
                   /\ e = "ResponseTimeout" => b = 0
                   /\ Receives([a EXCEPT !.body = b, !.error = e])
              \/ \E w \in {"other", "none"} : Receives([a EXCEPT !.window = w])
              \/ Receives([a EXCEPT !.overflow = TRUE])

IsRetryableStatus(status) == status \in {429, 502, 503, 504}
IsRetryableTransportError(error) == error \in {"ConnectFailed", "ConnectionLost"}
\* Mutant: a transfer that ran out of time goes on.
IsResumable_Timeouts(error) == error \in {"IncompleteBody", "ConnectionLost", "TransferTimeout"}
IsResumable(error) == error \in {"IncompleteBody", "ConnectionLost"}
IsRedirect(status) == status \in {301, 302, 307, 308}

Retryable(a) ==
  /\ a.error # "HeadersTooLarge"
  /\ IF a.status = 0 THEN IsRetryableTransportError(a.error) ELSE IsRetryableStatus(a.status)

Judging == op.pc = "judge"
Retried == op.retries > 0 /\ Retryable(op.response)

\* Mutant: a retry costs nothing.
Retry_Free ==
  /\ Judging /\ Retried
  /\ op' = [op EXCEPT !.pc = "attempt", !.response = NoResponse]
  /\ UNCHANGED <<scheme, reader>>

Retry ==
  /\ Judging /\ Retried
  /\ op' = [op EXCEPT !.pc = "attempt", !.retries = @ - 1, !.response = NoResponse]
  /\ UNCHANGED <<scheme, reader>>

ProjectTransportError(error) ==
  CASE error \in {"ConnectFailed", "ConnectionLost", "Internal"} -> "NetworkError"
    [] error \in {"ConnectTimeout", "ResponseTimeout", "TransferTimeout"} -> "Timeout"
    [] error \in {"IncompleteBody", "Malformed", "HeadersTooLarge"} -> "InvalidResponse"
    [] error = "DestinationRefused" -> "AccessDenied"

ProjectHttpStatus(status) ==
  CASE status \in {404, 410} -> "NotFound"
    [] status \in {401, 403} -> "AccessDenied"
    [] status \in {405, 501} -> "Unsupported"
    [] status \notin {405, 501} /\ (status >= 500 \/ status = 429) -> "NetworkError"
    [] OTHER -> "InvalidResponse"

NoUsableResponse(a) == a.error \in {"DestinationRefused", "HeadersTooLarge"} \/ a.status = 0

TransportFails ==
  /\ Judging /\ ~Retried /\ NoUsableResponse(op.response)
  /\ Fails(ProjectTransportError(op.response.error))

\* A hop is not a retry; the chain is bounded, and never leaves https.
Redirected == Judging /\ ~Retried /\ ~NoUsableResponse(op.response) /\ IsRedirect(op.response.status)

MayFollow ==
  /\ op.response.location # NoHost
  /\ op.redirects < MaxRedirects
  /\ ~(op.current \in Secure /\ op.response.location \notin Secure)
\* Mutant: a redirect to nowhere is not answered for.
RedirectFails_AtLimit ==
  Redirected /\ op.redirects >= MaxRedirects /\ Fails("InvalidResponse")
RedirectFails == Redirected /\ ~MayFollow /\ Fails("InvalidResponse")
Follow ==
  /\ Redirected /\ MayFollow
  /\ op' = [op EXCEPT !.pc = "preflight", !.redirects = @ + 1, !.current = op.response.location,
                      !.response = NoResponse]
  /\ UNCHANGED <<scheme, reader>>

Answered(method) ==
  /\ Judging /\ ~Retried /\ ~NoUsableResponse(op.response) /\ ~IsRedirect(op.response.status)
  /\ op.method = method

\* Open: a 200 with a size and byte ranges binds the reader to the revision;
\* there is no fallback.
OpenBinds ==
  /\ Answered("HEAD") /\ op.response.status = 200 /\ op.response.complete # 0
  /\ reader' = [open |-> TRUE, rev |-> op.response.rev, size |-> op.response.complete,
                tag |-> op.response.tag, uri |-> op.current]
  /\ op' = [op EXCEPT !.pc = "returned", !.result = "Ok", !.response = NoResponse]
  /\ UNCHANGED scheme
OpenFails ==
  /\ Answered("HEAD")
  /\ \/ op.response.status # 200 /\ Fails(ProjectHttpStatus(op.response.status))
     \/ op.response.status = 200 /\ op.response.complete = 0 /\ Fails("InvalidResponse")
     \/ op.response.status = 200 /\ op.response.complete # 0 /\ Fails("RangeNotSupported")

\* Mutant: the server is taken to have honoured If-Range.
ContradictsCapturedValidator_Never(a) == FALSE

\* Read.  The response's own identity, checked independently of If-Range, and
\* its length, which is evidence where there is no validator to compare.
ContradictsCapturedValidator(a) ==
  reader.tag # NoTag /\ a.tag # NoTag /\ a.tag # reader.tag
OtherLength(a) == a.complete # 0 /\ a.complete # reader.size

\* Content-Range is looked at before the length it states.
AssetChanged(a) ==
  \/ ContradictsCapturedValidator(a)
  \/ (a.status = 206 => a.window # "none") /\ OtherLength(a)

ReadChanged ==
  /\ Answered("GET") /\ op.response.status \in {200, 206, 416} /\ AssetChanged(op.response)
  /\ Returns("AssetChanged", 0, op.buffer)

ReadRefused ==
  LET a == op.response
  IN  /\ Answered("GET")
      /\ a.status \in {200, 206, 416} => ~AssetChanged(a)
      /\ \/ a.status = 200 /\ Fails("RangeNotSupported")
         \/ a.status = 416 /\ Fails("InvalidResponse")
         \/ a.status \notin {200, 206, 416} /\ Fails(ProjectHttpStatus(a.status))
         \/ a.status = 206 /\ (a.window # "exact" \/ a.overflow) /\ Fails("InvalidResponse")

Accepted ==
  /\ Answered("GET") /\ op.response.status = 206 /\ ~AssetChanged(op.response)
  /\ op.response.window = "exact" /\ ~op.response.overflow
Done == op.done + op.response.body
Filled == [i \in 1..Done |-> IF i <= op.done THEN op.buffer[i] ELSE op.response.rev]

\* The framing was sound: the bytes count, and how the transfer ended decides.
Unresumable == op.response.error # "None" /\ ~IsResumable(op.response.error)
Stalled == op.response.error = "None" /\ op.response.body = 0

ReadEnds ==
  /\ Accepted
  /\ \/ Unresumable /\ Returns(ProjectTransportError(op.response.error), Done, Filled)
     \/ Stalled /\ Returns("ShortRead", Done, Filled)
     \/ ~Unresumable /\ ~Stalled /\ Done = op.length /\ Returns("Ok", Done, Filled)
     \/ /\ ~Unresumable /\ ~Stalled /\ Done < op.length /\ op.retries <= 0
        /\ Returns(IF op.response.error = "ConnectionLost" THEN "NetworkError" ELSE "ShortRead",
                   Done, Filled)

\* A resume is a retry: it draws on the same budget, and is an exchange of its
\* own for the rest of the range.
Resume ==
  /\ Accepted /\ ~Unresumable /\ ~Stalled /\ Done < op.length /\ op.retries > 0
  /\ op' = [op EXCEPT !.pc = "preflight", !.retries = @ - 1, !.done = Done, !.buffer = Filled,
                      !.redirects = 0, !.current = reader.uri, !.response = NoResponse]
  /\ UNCHANGED <<scheme, reader>>

Close ==
  /\ op.pc = "idle" /\ reader.open
  /\ reader' = Closed
  /\ UNCHANGED <<scheme, op>>

Step ==
  \/ Refuse \/ Preflight \/ Decline
  \/ Unanswered \/ Refused \/ Moved \/ Whole \/ Partial
  \/ Retry \/ TransportFails \/ RedirectFails \/ Follow \/ OpenBinds \/ OpenFails
  \/ ReadChanged \/ ReadRefused \/ ReadEnds \/ Resume \/ Return

Next == Open \/ Read \/ Step \/ Close

\* The transport's deadlines make every request end, so an operation that has
\* begun keeps taking steps.
Spec == Init /\ [][Next]_httpVars /\ WF_httpVars(Step)

------------------------------------------------------------------------------
\* A read as the contract of AssetReader sees it, through a reader that is bound
\* by a strong validator: no other says which bytes are of one revision.
IsBound == scheme = "Strong" /\ reader.tag # NoTag
CallOf ==
  LET over == op.pc = "returned"
  IN  IF op.pc = "idle" \/ op.method = "HEAD" \/ ~IsBound
      THEN [pc |-> "idle", rev |-> NoRev, asked |-> <<0, 0>>, status |-> "none", given |-> {}]
      ELSE [pc     |-> IF over THEN "returned" ELSE "reading",
            rev    |-> reader.rev,
            asked  |-> <<1, op.length>>,
            status |-> IF ~over THEN "none"
                       ELSE IF op.result \in {"Ok", "AssetChanged"} THEN op.result ELSE "Failed",
            given  |-> IF over THEN {<<i, op.buffer[i]>> : i \in 1..op.returned} ELSE {}]

Contract == INSTANCE AssetReaderContract
              WITH Caller <- {Origin}, Byte <- UNION {1..SizeOf(r) : r \in Rev},
                   call <- [c \in {Origin} |-> CallOf]

\* However many requests, resumes and redirects a read took and whenever the
\* origin moved to another revision, it counts only bytes of the revision
\* captured at open: all of the range in a success, some in a failure, and none
\* once the asset is found changed, although earlier requests delivered some
\* (If-Range, ContradictsCapturedValidator, the AssetChanged returns of Read).
ImplementsContract == Contract!Spec

\* The work of one logical operation is bounded: retries and resumes share one
\* budget, and each exchange follows a bounded chain (retriesRemaining).
RequestsAreBounded == op.sent <= (1 + Budget) * (1 + MaxRedirects)

\* The bound the comment on PerformExchange states: redirects and attempts add
\* up over the operation.
RequestsAsDocumented == op.sent <= MaxRedirects + MaxAttempts

Deadlines == {"ConnectTimeout", "ResponseTimeout", "TransferTimeout"}

\* What PerformExchange acts on before it looks at how the transfer ended.
ActedOn(a) == IsRetryableStatus(a.status) \/ IsRedirect(a.status)

\* An elapsed deadline ends the operation, and a read that met one is never a
\* success, even with every byte in hand: none is retried and none is resumed
\* (IsRetryableTransportError, IsResumable).  The exception is the code's: a
\* status the deadline came with is judged first, so a 503 that did not finish
\* in time is retried and a redirect followed, although the library's README
\* says that a timeout never is.
TimeoutsEndTheOperation ==
  [][op.response.error \in Deadlines /\ ~ActedOn(op.response)
       => /\ op'.pc = "returned"
          /\ op'.result = "Ok" => op.method = "HEAD"]_httpVars

\* Every open and every read returns, whatever the origin answers: the reader is
\* again and again between two operations.
OperationsReturn == []<>(op.pc = "idle")
==============================================================================
