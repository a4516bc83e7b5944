-------------------------- MODULE AssetReaderContract --------------------------
(***************************************************************************)
(* What every reader promises whoever calls Read                           *)
(* (libs/usd-asset-io/include/usdAssetIo/AssetReader.h): a call is bound   *)
(* to the revision its reader was opened on, and returns all the bytes it  *)
(* asked for, or some of them with a failure, or none because the asset    *)
(* changed; never a byte of another revision and never a hole.             *)
(*                                                                         *)
(* The backends and the cache that decorates them each implement this, and *)
(* the cache assumes no more of the reader inside it.                      *)
(***************************************************************************)
EXTENDS Integers

CONSTANTS
  Caller,
  Rev,       \* revisions, as the validator tells them apart
  NoRev,     \* the revision of a caller that is in no call
  Byte       \* positions a call may ask for

VARIABLE call

Idle == [pc |-> "idle", rev |-> NoRev, asked |-> <<0, 0>>, status |-> "none", given |-> {}]

Reading(rev, asked) ==
  [pc |-> "reading", rev |-> rev, asked |-> asked, status |-> "none", given |-> {}]

\* given: the bytes the result counts, each with the revision it is of.
Returned(rev, asked, status, given) ==
  [pc |-> "returned", rev |-> rev, asked |-> asked, status |-> status, given |-> given]

Init == call = [c \in Caller |-> Idle]

Whole(me) == {x \in Byte : me.asked[1] <= x /\ x < me.asked[1] + me.asked[2]} \X {me.rev}

(***************************************************************************)
(* The steps of one call, from me to next.                                 *)
(***************************************************************************)

\* asked is the offset and length requested, clipped to the size captured at
\* open.
Begin(me, next) ==
  /\ me.pc = "idle"
  /\ next.rev \in Rev /\ next.asked \in Nat \X Nat
  /\ next = Reading(next.rev, next.asked)

Succeed(me, next) ==
  me.pc = "reading" /\ next = Returned(me.rev, me.asked, "Ok", Whole(me))

\* bytesRead is meaningful on failure too.
Fail(me, next) ==
  /\ me.pc = "reading"
  /\ next.given \subseteq Whole(me)
  /\ next = Returned(me.rev, me.asked, "Failed", next.given)

AssetChanged(me, next) ==
  me.pc = "reading" /\ next = Returned(me.rev, me.asked, "AssetChanged", {})

Leave(me, next) == me.pc = "returned" /\ next = Idle

Step(me, next) ==
  \/ Begin(me, next)
  \/ Succeed(me, next) \/ Fail(me, next) \/ AssetChanged(me, next)
  \/ Leave(me, next)

\* Concurrent calls are independent of each other.
Next ==
  \E c \in Caller :
    /\ call[c].pc # call'[c].pc
    /\ Step(call[c], call'[c])
    /\ call' = [call EXCEPT ![c] = call'[c]]

Spec == Init /\ [][Next]_call
================================================================================
