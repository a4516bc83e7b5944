----------------------------- MODULE CurlTransport -----------------------------
(***************************************************************************)
(* One reader's transport: the threads that call Perform, the pool of      *)
(* libcurl handles they draw on, and the callbacks libcurl makes while a   *)
(* transfer runs (libs/usd-asset-http/src/CurlTransport.cpp).  What        *)
(* libcurl and the network do is any choice the callbacks allow.           *)
(*                                                                         *)
(* An address is its class.  A header line is one byte long, and a body    *)
(* arrives in chunks of one byte or two.                                   *)
(***************************************************************************)
EXTENDS Integers, Sequences, FiniteSets, Functions

CONSTANTS
  Thread,
  Handles,           \* how many handles libcurl could hand out
  MaxIdle,           \* kMaxIdle
  MaxHeaderBytes,    \* kMaxResponseHeaderBytes
  Capacity,          \* TransportRequest::bodyCapacity
  Addresses,         \* the classes of the addresses there are
  Permitted,         \* the classes the reader's policy permits
  Proxies,           \* what the process may be set to connect through
  MaxTries,          \* the most addresses one name resolves to
  Name               \* a host that is not a literal

ASSUME TransportAssumption ==
  /\ {MaxIdle, MaxHeaderBytes, Handles} \subseteq Nat \ {0}
  /\ Capacity \in Nat
  /\ Permitted \subseteq Addresses
  /\ Proxies \subseteq Addresses \cup {"None"}
  /\ Name \notin Addresses

VARIABLES
  proxy,       \* the address of the proxy, or None
  idle,        \* HandlePool::_idle
  live,        \* the handles that exist
  connection,  \* the connection each handle keeps, as a set of at most one
  perform      \* what each thread's Perform is doing

transportVars == <<proxy, idle, live, connection, perform>>

None == "None"

NoResponse ==
  [error |-> None, connected |-> FALSE, headers |-> {}, bodyBytes |-> 0, overflowed |-> FALSE]

\* The locals of Perform and its Exchange.  headers says whether any are kept
\* that came under the last status line, and any under an earlier one.
NoExchange ==
  [pc |-> "idle", host |-> Name, handle |-> 0, code |-> None,
   refused |-> 0, admitted |-> 0, sent |-> FALSE,
   headers |-> {}, statusLine |-> FALSE, headerBytes |-> 0, headersComplete |-> FALSE,
   headersTooLarge |-> FALSE, written |-> 0, overflowed |-> FALSE, deadline |-> None,
   response |-> NoResponse]        \* of the last Perform

Init ==
  /\ proxy \in Proxies
  /\ idle = <<>>
  /\ live = {}
  /\ connection = [h \in 1 .. Handles |-> {}]
  /\ perform = [t \in Thread |-> NoExchange]

At(t, pc) == perform[t].pc = pc

\* The same Perform, further on.
Goes(t, updated) == perform' = [perform EXCEPT ![t] = updated]

Returns(t, response) == Goes(t, [NoExchange EXCEPT !.response = response])

Fails(t, error) == Returns(t, [NoResponse EXCEPT !.error = error])

------------------------------------------------------------------------------
(***************************************************************************)
(* The handle pool.                                                        *)
(***************************************************************************)

\* Mutant: the handle stays in the pool while it is used.
Acquired_Kept(t) ==
  /\ idle # <<>>
  /\ Goes(t, [perform[t] EXCEPT !.pc = "build", !.handle = idle[Len(idle)]])
  /\ UNCHANGED <<proxy, idle, live, connection>>

Acquired(t) ==
  /\ idle # <<>>
  /\ idle' = SubSeq(idle, 1, Len(idle) - 1)
  /\ Goes(t, [perform[t] EXCEPT !.pc = "build", !.handle = idle[Len(idle)]])
  /\ UNCHANGED <<proxy, live, connection>>

\* curl_easy_init, which may fail.
Created(t) ==
  LET free == (1 .. Handles) \ live
      new  == CHOOSE h \in free : TRUE
  IN  /\ idle = <<>>
      /\ free # {}
      /\ live' = live \cup {new}
      /\ Goes(t, [perform[t] EXCEPT !.pc = "build", !.handle = new])
      /\ UNCHANGED <<proxy, idle, connection>>

NotCreated(t) ==
  /\ idle = <<>>
  /\ Fails(t, "Internal")
  /\ UNCHANGED <<proxy, idle, live, connection>>

Acquire(t) ==
  /\ At(t, "acquire")
  /\ Acquired(t) \/ Created(t) \/ NotCreated(t)

HasRoom == Len(idle) < MaxIdle

\* Release, with what the transfer left of the handle's connection.
Release(handle, kept) ==
  IF HasRoom
  THEN /\ idle' = Append(idle, handle)
       /\ connection' = [connection EXCEPT ![handle] = kept]
       /\ UNCHANGED live
  ELSE /\ live' = live \ {handle}
       /\ connection' = [connection EXCEPT ![handle] = {}]
       /\ UNCHANGED idle

------------------------------------------------------------------------------
(***************************************************************************)
(* Perform, up to the transfer.                                            *)
(***************************************************************************)

\* Mutant: a host that is a literal is left to the connect-time check.
PermittedByClient_Always(host) == TRUE

PermittedByClient(host) == host = Name \/ host \in Permitted

Perform(t, host) ==
  /\ At(t, "idle")
  /\ IF PermittedByClient(host)
     THEN Goes(t, [NoExchange EXCEPT !.pc = "acquire", !.host = host])
     ELSE Fails(t, "DestinationRefused")
  /\ UNCHANGED <<proxy, idle, live, connection>>

BuildHeaders(t) ==
  /\ At(t, "build")
  /\ Goes(t, [perform[t] EXCEPT !.pc = "connect"])
  /\ UNCHANGED <<proxy, idle, live, connection>>

\* An append that fails abandons the request.
HeadersNotBuilt(t) ==
  /\ At(t, "build")
  /\ Release(perform[t].handle, connection[perform[t].handle])
  /\ UNCHANGED proxy
  /\ Fails(t, "Internal")

------------------------------------------------------------------------------
(***************************************************************************)
(* Perform, after the transfer.                                            *)
(***************************************************************************)
ClassifyCurlError(p) ==
  CASE p.code = "connect"   -> "ConnectFailed"
    [] p.code = "timeout"   -> IF ~p.sent THEN "ConnectTimeout"
                               ELSE IF p.headersComplete THEN "TransferTimeout"
                               ELSE "ResponseTimeout"
    [] p.code = "aborted"   -> IF p.deadline # None THEN p.deadline ELSE "ConnectionLost"
    [] p.code = "partial"   -> "IncompleteBody"
    [] p.code = "lost"      -> "ConnectionLost"
    [] p.code = "malformed" -> "Malformed"
    [] p.code = "tooLarge"  -> "HeadersTooLarge"
    [] p.code = "nomem"     -> "Internal"
    [] OTHER                -> IF p.sent THEN "ConnectionLost" ELSE "ConnectFailed"

\* Mutant: one refused address is enough.
WasRefused_Any(p) == p.code # "OK" /\ p.refused > 0

\* The policy refused every address there was.
WasRefused(p) == p.code # "OK" /\ p.refused > 0 /\ p.admitted = 0

AbandonedAtHeaders(p) == ~WasRefused(p) /\ p.code = "write" /\ p.headersTooLarge

\* Cut off by OnBody, which is not an error here.
CutOff(p) == p.code = "write" /\ ~p.headersTooLarge /\ p.overflowed

ErrorOf(p) ==
  IF WasRefused(p) THEN "DestinationRefused"
  ELSE IF AbandonedAtHeaders(p) THEN "HeadersTooLarge"
  ELSE IF p.code = "OK" \/ CutOff(p) THEN None
  ELSE ClassifyCurlError(p)

\* The rest of Perform.  A connection that ended in order may be kept for the
\* handle's next request.
Conclude(t, p) ==
  /\ \E kept \in {{}} \cup (IF p.code = "OK" THEN {connection[p.handle]} ELSE {}) :
       Release(p.handle, kept)
  /\ Returns(t, [error      |-> ErrorOf(p),
                 connected  |-> p.sent,
                 headers    |-> IF AbandonedAtHeaders(p) THEN {} ELSE p.headers,
                 bodyBytes  |-> p.written,
                 overflowed |-> p.overflowed])
  /\ UNCHANGED proxy

------------------------------------------------------------------------------
(***************************************************************************)
(* The transfer: curl_easy_perform and the callbacks it makes.             *)
(***************************************************************************)

\* The addresses libcurl may connect to for a host.
Candidates(host) ==
  IF proxy # None THEN {proxy} ELSE IF host = Name THEN Addresses ELSE {host}

\* A connection the handle kept is used as it is.
Reuse(t) ==
  /\ At(t, "connect")
  /\ perform[t].refused + perform[t].admitted = 0
  /\ \E c \in connection[perform[t].handle] : proxy # None \/ c.host = perform[t].host
  /\ Goes(t, [perform[t] EXCEPT !.pc = "transfer", !.sent = TRUE])
  /\ UNCHANGED <<proxy, idle, live, connection>>

Admits(address) == address \in Permitted

\* libcurl has one more address to try.  Refused, it moves on; admitted, it has
\* a connection or it moves on.
OnOpenSocket(t, address) ==
  LET p == perform[t]
  IN  /\ At(t, "connect")
      /\ p.refused + p.admitted < MaxTries
      /\ IF Admits(address)
         THEN \/ /\ Goes(t, [p EXCEPT !.admitted = @ + 1, !.pc = "transfer", !.sent = TRUE])
                 /\ connection' = [connection EXCEPT
                                     ![p.handle] = {[host |-> p.host, at |-> address]}]
              \/ /\ Goes(t, [p EXCEPT !.admitted = @ + 1])
                 /\ UNCHANGED connection
         ELSE /\ Goes(t, [p EXCEPT !.refused = @ + 1])
              /\ UNCHANGED connection
      /\ UNCHANGED <<proxy, idle, live>>

\* Mutant: the bytes of an earlier response on the exchange are forgotten.
HeaderBytesAt_Reset(p, line) == IF line = "status" THEN 1 ELSE p.headerBytes + 1

HeaderBytesAt(p, line) == p.headerBytes + 1

\* Mutant: the headers of an interim response are kept.
HeadersAfter_Kept(p, line) ==
  CASE line = "field"  -> p.headers \cup {"last"}
    [] line = "status" -> IF p.headers = {} THEN {} ELSE {"earlier"}
    [] OTHER           -> p.headers

HeadersAfter(p, line) ==
  CASE line = "field"  -> p.headers \cup {"last"}
    [] line = "status" -> {}
    [] OTHER           -> p.headers

OnHeader(t, line) ==
  LET p == perform[t]
  IN  /\ At(t, "transfer")
      /\ p.written = 0
      /\ IF line = "status" THEN ~p.statusLine \/ p.headersComplete
                            ELSE p.statusLine /\ ~p.headersComplete
      /\ IF HeaderBytesAt(p, line) > MaxHeaderBytes
         THEN Conclude(t, [p EXCEPT !.headersTooLarge = TRUE, !.code = "write"])
         ELSE /\ Goes(t, [p EXCEPT !.headerBytes = HeaderBytesAt(p, line),
                                   !.headers = HeadersAfter(p, line),
                                   !.statusLine = TRUE,
                                   !.headersComplete = line = "blank"])
              /\ UNCHANGED <<proxy, idle, live, connection>>

OnBody(t, bytes) ==
  LET p    == perform[t]
      room == Capacity - p.written
  IN  /\ At(t, "transfer")
      /\ p.headersComplete
      /\ IF bytes > room
         THEN Conclude(t, [p EXCEPT !.written = Capacity, !.overflowed = TRUE, !.code = "write"])
         ELSE /\ Goes(t, [p EXCEPT !.written = @ + bytes])
              /\ UNCHANGED <<proxy, idle, live, connection>>

\* The transfer deadline may be over at any time: it is called the response
\* deadline while no header block is complete, with a connection or without.
\* The response deadline itself, over only once the request is out and while no
\* header block is complete, has the same outcome there.
OnProgressWithClock(t) ==
  LET p == perform[t]
  IN  /\ p.pc \in {"connect", "transfer"}
      /\ Conclude(t, [p EXCEPT !.code = "aborted",
                               !.deadline = IF p.headersComplete THEN "TransferTimeout"
                                                                 ELSE "ResponseTimeout"])

\* Every other way libcurl ends a transfer.
Codes(p) ==
  IF p.pc = "connect" THEN {"connect", "timeout", "malformed", "nomem", "other"}
  ELSE {"timeout", "lost", "tooLarge", "nomem", "other"}
         \cup (IF p.headersComplete THEN {"OK", "partial"} ELSE {"malformed"})

TransferEnds(t) ==
  LET p == perform[t]
  IN  /\ p.pc \in {"connect", "transfer"}
      /\ \E code \in Codes(p) : Conclude(t, [p EXCEPT !.code = code])

\* A step of a Perform that has been called.
Step(t) ==
  \/ Acquire(t) \/ BuildHeaders(t) \/ HeadersNotBuilt(t)
  \/ Reuse(t)
  \/ \E address \in Candidates(perform[t].host) : OnOpenSocket(t, address)
  \/ \E line \in {"status", "field", "blank"} : OnHeader(t, line)
  \/ \E bytes \in 1 .. 2 : OnBody(t, bytes)
  \/ OnProgressWithClock(t) \/ TransferEnds(t)

Next ==
  \E t \in Thread :
    \/ \E host \in Addresses \cup {Name} : Perform(t, host)
    \/ Step(t)

\* libcurl goes on with a transfer that can go on.
Spec == Init /\ [][Next]_transportVars /\ \A t \in Thread : WF_transportVars(Step(t))

------------------------------------------------------------------------------
InUse == {perform[t].handle : t \in Thread} \ {0}

\* A handle is used by one thread at a time and never while it is in the pool,
\* the pool holds no more than kMaxIdle, and no path out of Perform loses a
\* handle: each that exists is in the pool or in use.
PoolIsSound ==
  /\ \A t, u \in Thread : t # u /\ perform[t].handle # 0 => perform[t].handle # perform[u].handle
  /\ IsInjective(idle)
  /\ Range(idle) \cap InUse = {}
  /\ Range(idle) \cup InUse = live
  /\ Len(idle) <= MaxIdle

\* The destination policy holds however a connection came about: every one that
\* a handle has, reused ones included, is to an address the policy permits, and
\* behind a proxy, where that address is the proxy's, no host that is itself a
\* refused address was sent to it.
PolicyHolds ==
  \A h \in live : \A c \in connection[h] :
    /\ c.at \in Permitted
    /\ c.host = Name \/ c.host \in Permitted

\* The step in which a Perform that got as far as libcurl returns.
Returning(t) == perform[t].pc \in {"connect", "transfer"} /\ perform'[t].pc = "idle"

\* DestinationRefused is reported exactly when the policy refused every address
\* and nothing was attempted: nothing was sent, and the response is empty.
RefusalIsExact ==
  [][\A t \in Thread : Returning(t) =>
       LET p == perform[t]
           r == perform'[t].response
       IN  /\ r.error = "DestinationRefused" <=> p.refused > 0 /\ p.admitted = 0
           /\ r.error = "DestinationRefused" =>
                ~r.connected /\ r.headers = {} /\ r.bodyBytes = 0]_transportVars

\* What is handed up is one response: every header came under the last status
\* line, there is no more body than the caller made room for, and a body that
\* was cut off fills it and is no error.  Of the deadlines, the transfer's is
\* named only with a header block complete, the response's only without, and
\* the connect's only when nothing was sent; the response's may be named when
\* nothing was sent either, where the comment on TransportError has a connection.
ResponseIsOne ==
  [][\A t \in Thread : Returning(t) =>
       LET p == perform[t]
           r == perform'[t].response
       IN  /\ r.headers \subseteq {"last"}
           /\ r.bodyBytes <= Capacity
           /\ r.overflowed => r.error = None /\ r.bodyBytes = Capacity
           /\ r.error = "TransferTimeout" => r.connected /\ p.headersComplete
           /\ r.error = "ResponseTimeout" => ~p.headersComplete /\ r.bodyBytes = 0
           /\ r.error = "ConnectTimeout" => ~r.connected]_transportVars

\* Perform returns whatever the server sends: the header bound is summed over
\* interim responses, so an endless stream of them ends the exchange too.
PerformReturns ==
  \A t \in Thread : perform[t].pc = "acquire" ~> perform[t].pc = "idle"
==============================================================================
