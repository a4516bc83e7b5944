------------------------- MODULE HttpAssetReaderProofs -------------------------
(***************************************************************************)
(* The HTTP reader implements the contract of AssetReader, the work of one *)
(* operation is bounded, and an elapsed deadline ends it, for any          *)
(* revisions and sizes, any hosts, and any limits on attempts and          *)
(* redirects.                                                              *)
(*                                                                         *)
(* The contract is about what a call returns; it follows from what the     *)
(* buffer holds while the call goes on. Every byte in it is of the         *)
(* revision captured at open, because a partial answer that is accepted    *)
(* either states the captured tag or answers an If-Range with it.          *)
(***************************************************************************)
EXTENDS HttpAssetReader, TLAPS

Where   == Host \cup {NoHost}
Tags    == {NoTag} \cup {<<"tag", r>> : r \in Rev} \cup {<<"weak", WeakTag(r)>> : r \in Rev}
Buffers == {NoBuffer} \cup UNION {[1..n -> Rev] : n \in Nat}
Errors  == {"None", "ConnectFailed", "ConnectionLost", "ConnectTimeout", "ResponseTimeout",
            "TransferTimeout", "Malformed", "DestinationRefused", "HeadersTooLarge",
            "IncompleteBody"}
Failures == {"AccessDenied", "InvalidArgument", "InvalidResponse", "NetworkError", "Timeout",
             "NotFound", "Unsupported", "RangeNotSupported", "ShortRead"}

Response == [status : Nat, error : Errors, rev : Rev \cup {NoRev}, tag : Tags, complete : Nat,
             window : {"none", "exact", "other"}, body : Nat, overflow : BOOLEAN, location : Where]
ReaderType == [open : BOOLEAN, rev : Rev \cup {NoRev}, size : Nat, tag : Tags, uri : Where]
OpType == [pc : {"idle", "preflight", "attempt", "judge", "returned"}, method : {"HEAD", "GET"},
           length : Nat, done : Nat, buffer : Buffers, retries : Nat, redirects : Nat,
           current : Where, response : Response, sent : Nat,
           result : Failures \cup {"none", "Ok", "AssetChanged"}, returned : Nat]
TypeOK == scheme \in Strength /\ reader \in ReaderType /\ op \in OpType

\* What the open captured is of one revision.
ReaderOK ==
  reader.open => /\ reader.rev \in Rev /\ reader.size = SizeOf(reader.rev)
                 /\ reader.tag \in {TagOf(reader.rev), NoTag}

\* The bytes of a read that count are of the revision its reader is bound to.
Holds(buffer, n) ==
  \A i \in 1..n : buffer[i] \in Rev /\ (IsBound => buffer[i] = reader.rev)
Running(o) ==
  /\ o.done <= o.length /\ o.retries <= Budget /\ o.redirects <= MaxRedirects /\ o.returned = 0
  /\ o.method = "GET" => reader.open /\ o.length <= reader.size
  /\ o.method = "HEAD" => ~reader.open /\ o.length = 0
  /\ Holds(o.buffer, o.done)
Ended(o) ==
  /\ o.method = "GET" => reader.open /\ o.length <= reader.size
  /\ o.returned <= o.length
  /\ Holds(o.buffer, o.returned)
OpOK ==
  /\ op.pc \in {"preflight", "attempt", "judge"} => Running(op)
  /\ op.pc = "returned" => Ended(op)

\* What an answer says of its representation is true, a partial one is
\* identified and within what was asked for, and there is an answer or an error.
Judged(a) ==
  /\ a.complete # 0 \/ a.status = 206
       => a.rev \in Rev /\ a.complete \in {0, SizeOf(a.rev)} /\ a.tag \in {TagOf(a.rev), NoTag}
  /\ a.status = 206 => Identified(a) /\ a.body <= Remaining
  /\ a.status = 0 => a.error # "None"
JudgeOK == op.pc = "judge" => Judged(op.response)

IInv == TypeOK /\ ReaderOK /\ OpOK /\ JudgeOK

------------------------------------------------------------------------------
\* What a response says is a tag, and a strong one tells revisions apart.
LEMMA TagsOfRevisions ==
  ASSUME scheme \in Strength, NEW r \in Rev
  PROVE  /\ TagOf(r) \in Tags
         /\ scheme = "Strong" => TagOf(r) # NoTag
         /\ scheme = "Strong" => \A s \in Rev : TagOf(r) = TagOf(s) => r = s
<1>1. CASE scheme = "Strong"
  BY <1>1, Zenon DEF TagOf, Tags, NoTag
<1>2. CASE scheme \in {"Weak", "Date"}
  BY <1>2, Zenon DEF TagOf, Tags
<1>3. CASE scheme = "None"
  BY <1>3, Zenon DEF TagOf, Tags
<1> QED BY <1>1, <1>2, <1>3, HttpAssumption, Zenon

\* Nothing has been answered, or is in progress.
LEMMA NothingYet ==
  /\ NoResponse \in Response
  /\ NoOp \in OpType /\ NoOp.pc = "idle" /\ NoOp.method = "HEAD" /\ NoOp.length = 0 /\ NoOp.done = 0
  /\ NoOp.sent = 0 /\ NoOp.redirects = 0 /\ NoOp.returned = 0
  /\ Closed \in ReaderType /\ ~Closed.open
<1>1. NoResponse \in Response
  BY Zenon DEF NoResponse, Response, Errors, Tags, Where
<1>2. NoOp \in OpType
  <2> HIDE DEF NoResponse, Response
  <2> QED BY <1>1, Zenon DEF NoOp, OpType, Where, Buffers
<1>3. Closed \in ReaderType /\ ~Closed.open
  BY Zenon DEF Closed, ReaderType, Tags, Where
<1> QED BY <1>1, <1>2, <1>3, Zenon DEF NoOp

\* A budget is a number.
LEMMA BudgetIsNat == Budget \in Nat
BY HttpAssumption DEF Budget

\* The initial state is in order.
LEMMA InitIsGood == Init => IInv
BY NothingYet, Zenon DEF Init, IInv, TypeOK, ReaderOK, OpOK, JudgeOK
------------------------------------------------------------------------------
\* An operation that goes on.
LEMMA GoesOn ==
  ASSUME IInv, UNCHANGED <<scheme, reader>>, op' \in OpType,
         op'.pc \in {"preflight", "attempt"}, Running(op')
  PROVE  IInv'
<1>1. TypeOK' /\ ReaderOK'
  BY Zenon DEF IInv, TypeOK, ReaderOK, TagOf
<1>2. OpOK' /\ JudgeOK'
  BY Zenon DEF OpOK, JudgeOK, Running, Holds, IsBound
<1> QED BY <1>1, <1>2, Zenon DEF IInv

\* An operation that returns.
LEMMA ReturnsStep ==
  ASSUME IInv, op.pc \in {"preflight", "attempt", "judge"},
         NEW status \in Failures \cup {"Ok", "AssetChanged"}, NEW n \in 0..op.length,
         NEW buffer \in Buffers, Holds(buffer, n), Returns(status, n, buffer)
  PROVE  IInv'
<1>1. op' = [op EXCEPT !.pc = "returned", !.result = status, !.returned = n, !.buffer = buffer,
                       !.response = NoResponse] /\ UNCHANGED <<scheme, reader>>
  BY Zenon DEF Returns
<1>2. op' \in OpType /\ op'.pc = "returned" /\ op'.returned = n /\ op'.buffer = buffer
      /\ op'.method = op.method /\ op'.length = op.length
  <2>1. op \in OpType
    BY Zenon DEF IInv, TypeOK
  <2>2. n \in Nat /\ NoResponse \in Response
    BY <2>1, NothingYet DEF OpType
  <2>3. op' \in OpType
    BY <1>1, <2>1, <2>2, Zenon DEF OpType
  <2> QED BY <1>1, <2>1, <2>3 DEF OpType
<1>3. TypeOK' /\ ReaderOK'
  BY <1>1, <1>2, Zenon DEF IInv, TypeOK, ReaderOK, TagOf
<1>4. Running(op)
  BY Zenon DEF IInv, OpOK
<1>5. OpOK' /\ JudgeOK'
  BY <1>1, <1>2, <1>4 DEF OpOK, JudgeOK, Running, Ended, Holds, IsBound
<1> QED BY <1>3, <1>5, Zenon DEF IInv

\* An operation that fails keeps the bytes it has.
LEMMA FailsStep ==
  ASSUME IInv, op.pc \in {"preflight", "attempt", "judge"}, NEW status \in Failures, Fails(status)
  PROVE  IInv'
<1>1. Running(op) /\ op.done \in 0..op.length /\ op.buffer \in Buffers
  BY DEF IInv, TypeOK, OpType, OpOK, Running
<1> QED BY <1>1, ReturnsStep, Zenon DEF Fails, Running

\* Open and Read begin, and Return and Close.
LEMMA OutsideStep ==
  ASSUME IInv, Open \/ Read \/ Return \/ Close
  PROVE  IInv'
<1>1. CASE Open
  <2>1. /\ op' \in OpType /\ op'.pc = "preflight" /\ op'.method = "HEAD" /\ op'.length = 0
        /\ op'.done = 0 /\ op'.retries = Budget /\ op'.redirects = 0 /\ op'.returned = 0
        /\ UNCHANGED <<scheme, reader>> /\ ~reader.open
    BY <1>1, NothingYet, BudgetIsNat, HttpAssumption, Zenon DEF Open, OpType, Where
  <2> QED BY <2>1, GoesOn, BudgetIsNat, HttpAssumption DEF Running, Holds
<1>2. CASE Read
  <2>1. PICK length \in 1..reader.size :
          op' = [NoOp EXCEPT !.pc = "preflight", !.method = "GET", !.length = length,
                             !.retries = Budget, !.current = reader.uri]
    BY <1>2, Zenon DEF Read
  <2>2. length \in Nat /\ length <= reader.size /\ reader.uri \in Where
    BY DEF IInv, TypeOK, ReaderType
  <2>3. /\ op' \in OpType /\ op'.pc = "preflight" /\ op'.method = "GET" /\ op'.length = length
        /\ op'.done = 0 /\ op'.retries = Budget /\ op'.redirects = 0 /\ op'.returned = 0
        /\ UNCHANGED <<scheme, reader>> /\ reader.open
    BY <1>2, <2>1, <2>2, NothingYet, BudgetIsNat, Zenon DEF Read, OpType
  <2> QED BY <2>2, <2>3, GoesOn, BudgetIsNat, HttpAssumption DEF Running, Holds
<1>3. CASE Return \/ Close
  <2>1. op'.pc = "idle" /\ op' \in OpType /\ UNCHANGED scheme
    BY <1>3, NothingYet, Zenon DEF Return, Close, IInv, TypeOK
  <2>2. reader' = reader \/ reader' = Closed
    BY <1>3, Zenon DEF Return, Close
  <2>3. TypeOK' /\ ReaderOK'
    BY <2>1, <2>2, NothingYet, Zenon DEF IInv, TypeOK, ReaderOK, TagOf
  <2> QED BY <2>1, <2>3, Zenon DEF IInv, OpOK, JudgeOK
<1> QED BY <1>1, <1>2, <1>3, Zenon

\* The destination policy, and the interceptor.
LEMMA BeforeStep ==
  ASSUME IInv, Refuse \/ Preflight \/ Decline
  PROVE  IInv'
<1>1. CASE Refuse \/ Decline
  BY <1>1, FailsStep, Zenon DEF Refuse, Decline, Failures
<1>2. CASE Preflight
  <2>1. op.pc = "preflight" /\ op' = [op EXCEPT !.pc = "attempt"] /\ UNCHANGED <<scheme, reader>>
    BY <1>2, Zenon DEF Preflight
  <2>2. op' \in OpType /\ op'.pc = "attempt"
    BY <2>1, Zenon DEF IInv, TypeOK, OpType
  <2>3. Running(op')
    BY <2>1, Zenon DEF IInv, TypeOK, OpType, OpOK, Running
  <2> QED BY <2>1, <2>2, <2>3, GoesOn, Zenon
<1> QED BY <1>1, <1>2, Zenon
\* An answer that is what it says.
LEMMA ReceivesStep ==
  ASSUME IInv, NEW a \in Response, Judged(a), Receives(a)
  PROVE  IInv'
<1>1. /\ op.pc = "attempt" /\ UNCHANGED <<scheme, reader>>
      /\ op' = [op EXCEPT !.pc = "judge", !.response = a, !.sent = op.sent + 1]
  BY Zenon DEF Receives
<1>2. op' \in OpType
  <2>1. op \in OpType /\ op.sent + 1 \in Nat
    BY DEF IInv, TypeOK, OpType
  <2> QED BY <1>1, <2>1, Zenon DEF OpType
<1>3. /\ op'.pc = "judge" /\ op'.response = a
      /\ op'.method = op.method /\ op'.length = op.length /\ op'.done = op.done
      /\ op'.retries = op.retries /\ op'.redirects = op.redirects /\ op'.buffer = op.buffer
      /\ op'.returned = op.returned
  BY <1>1, Zenon DEF IInv, TypeOK, OpType
<1>4. TypeOK' /\ ReaderOK'
  BY <1>1, <1>2, Zenon DEF IInv, TypeOK, ReaderOK, TagOf
<1>5. OpOK'
  BY <1>1, <1>3 DEF IInv, OpOK, Running, Holds, IsBound
<1>6. JudgeOK'
  BY <1>1, <1>3, ZenonT(30) DEF JudgeOK, Judged, Identified, IfRange, Remaining, TagOf
<1> QED BY <1>4, <1>5, <1>6, Zenon DEF IInv

\* What an answer is made of.
LEMMA AnswerFields ==
  ASSUME NEW s \in Nat
  PROVE  /\ Answer(s) \in Response /\ Answer(s).status = s /\ Answer(s).complete = 0
         /\ Answer(s).body = 0
<1>1. NoResponse \in Response /\ NoResponse.complete = 0 /\ NoResponse.body = 0
  BY NothingYet, Zenon DEF NoResponse
<1> HIDE DEF NoResponse
<1>2. Answer(s) \in Response
  BY <1>1, Zenon DEF Answer, Response
<1> QED BY <1>1, <1>2, Zenon DEF Answer, Response

\* Answers without a representation.
LEMMA PlainAnswers ==
  ASSUME IInv, Unanswered \/ Refused \/ Moved
  PROVE  IInv'
<1> DEFINE Plain(a) == a \in Response /\ a.complete = 0 /\ a.status # 206
<1>0. Endings \subseteq Errors
  BY DEF Endings, Errors
<1>1. ASSUME NEW a, Plain(a), NEW e \in Errors
      PROVE  /\ Plain([a EXCEPT !.error = e]) /\ [a EXCEPT !.error = e].error = e
             /\ [a EXCEPT !.error = e].status = a.status
  <2>1. [a EXCEPT !.error = e] \in Response
    BY <1>1, Zenon DEF Response
  <2> QED BY <1>1, <2>1, Zenon DEF Response
<1>2. ASSUME NEW a, Plain(a), NEW h \in Where
      PROVE  Plain([a EXCEPT !.location = h]) /\ [a EXCEPT !.location = h].status = a.status
  <2>1. [a EXCEPT !.location = h] \in Response
    BY <1>2, Zenon DEF Response
  <2> QED BY <1>2, <2>1, Zenon DEF Response
<1>3. Plain(NoResponse)
  BY NothingYet DEF NoResponse
<1>4. \A n \in {302, 404, 503} : Plain(Answer(n)) /\ Answer(n).status = n
  BY AnswerFields
<1>5. \E a : Plain(a) /\ Receives(a) /\ (a.status = 0 => a.error # "None")
  <2> HIDE DEF Plain
  <2>1. CASE Unanswered
    <3>1. PICK a, e : /\ Plain(a) /\ e \in Errors \ {"None"}
                      /\ Receives([a EXCEPT !.error = e])
      <4>1. CASE \E e \in Errors \ {"None"} : Receives([NoResponse EXCEPT !.error = e])
        BY <1>3, <4>1, Zenon
      <4>2. CASE \E n \in {302, 503} : Receives([Answer(n) EXCEPT !.error = "HeadersTooLarge"])
        <5>1. PICK n \in {302, 503} : Receives([Answer(n) EXCEPT !.error = "HeadersTooLarge"])
          BY <4>2, Zenon
        <5>2. Plain(Answer(n)) /\ "HeadersTooLarge" \in Errors \ {"None"}
          BY <1>4 DEF Errors
        <5> QED BY <5>1, <5>2, Zenon
      <4> QED BY <2>1, <4>1, <4>2, ZenonT(30) DEF Unanswered, Errors
    <3>2. PICK b : b = [a EXCEPT !.error = e]
      BY Zenon
    <3> QED BY <1>1, <3>1, <3>2, Zenon
  <2>2. CASE Refused
    <3>1. PICK n \in {404, 503}, e \in Errors : Receives([Answer(n) EXCEPT !.error = e])
      BY <2>2, <1>0 DEF Refused
    <3>2. PICK a : a = Answer(n) /\ Plain(a) /\ a.status = n
      BY <1>4
    <3>3. PICK b : b = [a EXCEPT !.error = e]
      BY Zenon
    <3>4. Plain(b) /\ b.status = n
      BY <1>1, <3>2, <3>3
    <3>5. b.status # 0
      BY <3>4
    <3> QED BY <3>1, <3>2, <3>3, <3>4, <3>5, Zenon
  <2>3. CASE Moved
    <3>1. PICK h \in Where, e \in Errors :
            Receives([Answer(302) EXCEPT !.location = h, !.error = e])
      BY <2>3, <1>0, Zenon DEF Moved, Where
    <3>2. PICK a : a = Answer(302) /\ Plain(a) /\ a.status = 302
      BY <1>4
    <3>3. PICK b : b = [a EXCEPT !.location = h]
      BY Zenon
    <3>4. Plain(b) /\ b.status = 302
      BY <1>2, <3>2, <3>3
    <3>5. PICK c : c = [b EXCEPT !.error = e]
      BY Zenon
    <3>6. Plain(c) /\ c.status = 302
      BY <1>1, <3>4, <3>5
    <3>7. Receives(c)
      BY <3>1, <3>2, <3>3, <3>5, Zenon
    <3>8. c.status # 0
      BY <3>6
    <3> QED BY <3>6, <3>7, <3>8, Zenon
  <2> QED BY <2>1, <2>2, <2>3, Zenon
<1> QED BY <1>5, ReceivesStep, Zenon DEF Judged

\* An answer with a representation.
Says(s, r, tag, n) == [Answer(s) EXCEPT !.rev = r, !.tag = tag, !.complete = n]

\* It says what it was made to say.
LEMMA Represents ==
  ASSUME IInv, NEW s \in Nat, NEW r \in Rev, NEW tag \in {TagOf(r), NoTag},
         NEW n \in {0, SizeOf(r)}
  PROVE  /\ Says(s, r, tag, n) \in Response
         /\ Says(s, r, tag, n).rev = r /\ Says(s, r, tag, n).tag = tag
         /\ Says(s, r, tag, n).complete = n /\ Says(s, r, tag, n).status = s
         /\ Says(s, r, tag, n).body = 0
<1>1. tag \in Tags /\ n \in Nat /\ r \in Rev \cup {NoRev}
  BY TagsOfRevisions, HttpAssumption DEF IInv, TypeOK, Tags
<1>2. PICK a : a = Answer(s) /\ a \in Response /\ a.status = s /\ a.body = 0
  BY AnswerFields, Zenon
<1>3. [a EXCEPT !.rev = r] \in Response
  BY <1>1, <1>2, Zenon DEF Response
<1>4. [[a EXCEPT !.rev = r] EXCEPT !.tag = tag] \in Response
  BY <1>1, <1>3, Zenon DEF Response
<1>5. [a EXCEPT !.rev = r, !.tag = tag, !.complete = n] \in Response
  BY <1>1, <1>4, Zenon DEF Response
<1>6. Says(s, r, tag, n) = [a EXCEPT !.rev = r, !.tag = tag, !.complete = n]
  BY <1>2, Zenon DEF Says
<1> QED BY <1>2, <1>5, <1>6, Zenon DEF Response

\* A whole representation, or the refusal of a range.
LEMMA WholeAnswers ==
  ASSUME IInv, Whole
  PROVE  IInv'
<1>1. PICK s \in {200, 416}, r \in Rev, e \in {"None", "TransferTimeout"} :
        \E tag \in {TagOf(r), NoTag}, n \in {0, SizeOf(r)} :
          Receives([Says(s, r, tag, n) EXCEPT !.error = e])
  BY Zenon DEF Whole, Says
<1>2. PICK tag \in {TagOf(r), NoTag}, n \in {0, SizeOf(r)} :
        Receives([Says(s, r, tag, n) EXCEPT !.error = e])
  BY <1>1, Zenon
<1>3. PICK b : b = Says(s, r, tag, n)
  BY Zenon
<1>4. /\ b \in Response /\ b.rev = r /\ b.tag = tag /\ b.complete = n
      /\ b.status \notin {0, 206}
  BY <1>3, Represents
<1>5. PICK a : a = [b EXCEPT !.error = e]
  BY Zenon
<1>6. e \in Errors
  BY DEF Errors
<1>7. a \in Response
  BY <1>4, <1>5, <1>6, Zenon DEF Response
<1>8. /\ a.rev = r /\ a.tag = tag /\ a.complete = n
      /\ a.status \notin {0, 206}
  BY <1>4, <1>5, Zenon DEF Response
<1>9. Judged(a)
  BY <1>8, Zenon DEF Judged
<1> QED BY <1>2, <1>3, <1>5, <1>7, <1>9, ReceivesStep, Zenon

\* A partial representation.
LEMMA PartialAnswers ==
  ASSUME IInv, Partial
  PROVE  IInv'
<1> DEFINE A(r, tag, n) == [Says(206, r, tag, n) EXCEPT !.window = "exact"]
<1> DEFINE Received(a) ==
             \/ \E b \in 0..Remaining, e \in Endings :
                  /\ e = "ResponseTimeout" => b = 0
                  /\ Receives([a EXCEPT !.body = b, !.error = e])
             \/ \E w \in {"other", "none"} : Receives([a EXCEPT !.window = w])
             \/ Receives([a EXCEPT !.overflow = TRUE])
<1>1. PICK r \in Rev : \E tag \in {TagOf(r), NoTag}, n \in {0, SizeOf(r)} :
        Identified(A(r, tag, n)) /\ Received(A(r, tag, n))
  BY Zenon DEF Partial, Says
<1>2. PICK tag \in {TagOf(r), NoTag}, n \in {0, SizeOf(r)} :
        Identified(A(r, tag, n)) /\ Received(A(r, tag, n))
  BY <1>1, Zenon
<1>3. op.pc = "attempt"
  BY <1>2, Zenon DEF Receives
<1>4. Remaining \in Nat
  BY <1>3 DEF IInv, TypeOK, OpType, OpOK, Running, Remaining
<1> DEFINE Is(a) == /\ a \in Response /\ a.rev = r /\ a.tag = tag /\ a.complete = n
                    /\ a.status = 206 /\ a.body <= Remaining
<1>5. Is(A(r, tag, n))
  <2>1. PICK a : a = Says(206, r, tag, n)
    BY Zenon
  <2>2. Is(a)
    BY <1>4, <2>1, Represents
  <2>3. [a EXCEPT !.window = "exact"] \in Response
    BY <2>2, Zenon DEF Response
  <2>4. Is([a EXCEPT !.window = "exact"])
    BY <2>2, <2>3, Zenon DEF Response
  <2> QED BY <2>1, <2>4
<1>6. PICK a : a = A(r, tag, n)
  BY Zenon
<1> HIDE DEF A
<1>7. \E b : Is(b) /\ Receives(b)
  <2>1. Is(a) /\ Received(a)
    BY <1>2, <1>5, <1>6, Zenon
  <2>2. ASSUME NEW m \in 0..Remaining, NEW e \in Errors
        PROVE  Is([a EXCEPT !.body = m, !.error = e])
    <3>1. m \in Nat
      BY <1>4
    <3>2. [a EXCEPT !.body = m, !.error = e] \in Response
      BY <2>1, <3>1, Zenon DEF Response
    <3>3. /\ [a EXCEPT !.body = m, !.error = e].rev = a.rev
          /\ [a EXCEPT !.body = m, !.error = e].tag = a.tag
          /\ [a EXCEPT !.body = m, !.error = e].complete = a.complete
          /\ [a EXCEPT !.body = m, !.error = e].status = a.status
          /\ [a EXCEPT !.body = m, !.error = e].body = m
      BY <2>1, Zenon DEF Response
    <3>4. m <= Remaining
      BY <1>4
    <3> QED BY <2>1, <3>2, <3>3, <3>4, Zenon
  <2>3. ASSUME NEW w \in {"other", "none"}
        PROVE  Is([a EXCEPT !.window = w])
    <3>1. [a EXCEPT !.window = w] \in Response
      BY <2>1, Zenon DEF Response
    <3> QED BY <2>1, <3>1, Zenon DEF Response
  <2>4. ASSUME NEW v \in BOOLEAN
        PROVE  Is([a EXCEPT !.overflow = v])
    <3>1. [a EXCEPT !.overflow = v] \in Response
      BY <2>1, Zenon DEF Response
    <3> QED BY <2>1, <3>1, Zenon DEF Response
  <2>5. Is([a EXCEPT !.overflow = TRUE])
    BY <2>4, Zenon
  <2> HIDE DEF Is
  <2>6. Endings \subseteq Errors
    BY DEF Endings, Errors
  <2> QED BY <2>1, <2>2, <2>3, <2>5, <2>6, Zenon
<1>8. PICK b : Is(b) /\ Receives(b)
  BY <1>7, Zenon
<1>9. Judged(b)
  <2>1. Identified(b)
    BY <1>2, <1>5, <1>8, Zenon DEF Identified
  <2> QED BY <1>8, <2>1 DEF Judged
<1> QED BY <1>8, <1>9, ReceivesStep, Zenon

------------------------------------------------------------------------------
\* What a failure is reported as.
LEMMA Projections ==
  /\ \A e \in Errors \ {"None"} : ProjectTransportError(e) \in Failures
  /\ \A n \in Nat : ProjectHttpStatus(n) \in Failures
BY DEF Errors, Failures, ProjectTransportError, ProjectHttpStatus

\* A retry, and a hop.
LEMMA AgainSteps ==
  ASSUME IInv, Retry \/ Follow
  PROVE  IInv'
<1>1. op \in OpType /\ op.pc = "judge" /\ Running(op) /\ NoResponse \in Response
  BY NothingYet, Zenon DEF IInv, TypeOK, OpOK, Retry, Follow, Redirected, Judging
<1>2. CASE Retry
  <2>1. PICK n \in Nat : n = op.retries - 1 /\ n <= Budget
    BY <1>1, <1>2, BudgetIsNat DEF OpType, Running, Retry, Retried
  <2>2. op' = [op EXCEPT !.pc = "attempt", !.retries = n, !.response = NoResponse]
        /\ UNCHANGED <<scheme, reader>>
    BY <1>2, <2>1, Zenon DEF Retry
  <2>3. op' \in OpType
    BY <1>1, <2>1, <2>2, Zenon DEF OpType
  <2>4. op'.pc = "attempt" /\ Running(op')
    BY <1>1, <2>1, <2>2, Zenon DEF OpType, Running
  <2> QED BY <2>2, <2>3, <2>4, GoesOn, Zenon
<1>3. CASE Follow
  <2>1. PICK n \in Nat : n = op.redirects + 1 /\ n <= MaxRedirects
    BY <1>1, <1>3, HttpAssumption DEF OpType, Follow, MayFollow
  <2>2. PICK h \in Where : h = op.response.location
    BY <1>1, Zenon DEF OpType, Response
  <2>3. op' = [op EXCEPT !.pc = "preflight", !.redirects = n, !.current = h, !.response = NoResponse]
        /\ UNCHANGED <<scheme, reader>>
    BY <1>3, <2>1, <2>2, Zenon DEF Follow
  <2>4. op' \in OpType
    BY <1>1, <2>1, <2>2, <2>3, Zenon DEF OpType
  <2>5. op'.pc = "preflight" /\ Running(op')
    BY <1>1, <2>1, <2>3, Zenon DEF OpType, Running
  <2> QED BY <2>3, <2>4, <2>5, GoesOn, Zenon
<1> QED BY <1>2, <1>3, Zenon

\* Answers that end an operation with a failure.
LEMMA FailureSteps ==
  ASSUME IInv, TransportFails \/ RedirectFails \/ OpenFails \/ ReadChanged \/ ReadRefused
  PROVE  IInv'
<1>1. /\ op.pc = "judge" /\ op \in OpType /\ Running(op) /\ Judged(op.response)
      /\ op.response \in Response
  BY Zenon DEF IInv, TypeOK, OpType, OpOK, JudgeOK, Judging, TransportFails, RedirectFails, Redirected,
         OpenFails, ReadChanged, ReadRefused, Answered
<1>2. CASE ReadChanged
  <2>1. Holds(op.buffer, 0) /\ 0 \in 0..op.length /\ op.buffer \in Buffers
    BY <1>1 DEF Holds, OpType
  <2> QED BY <1>1, <1>2, <2>1, ReturnsStep DEF ReadChanged
<1>3. CASE TransportFails
  <2>1. op.response.error \in Errors \ {"None"}
    BY <1>1, <1>3, Zenon DEF TransportFails, NoUsableResponse, Judged, Response
  <2> QED BY <1>1, <1>3, <2>1, Projections, FailsStep, Zenon DEF TransportFails
<1>4. CASE RedirectFails
  BY <1>1, <1>4, FailsStep, Zenon DEF RedirectFails, Failures
<1>5. CASE OpenFails \/ ReadRefused
  <2>1. ProjectHttpStatus(op.response.status) \in Failures
    BY <1>1, Projections, Zenon DEF Response
  <2> QED BY <1>1, <1>5, <2>1, FailsStep DEF OpenFails, ReadRefused, Failures
<1> QED BY <1>2, <1>3, <1>4, <1>5, Zenon

\* The open binds the reader to the revision that was answered for.
LEMMA OpenBindsStep ==
  ASSUME IInv, OpenBinds
  PROVE  IInv'
<1>1. /\ op.pc = "judge" /\ op \in OpType /\ Running(op) /\ Judged(op.response)
      /\ op.response \in Response /\ op.method = "HEAD"
  BY Zenon DEF IInv, TypeOK, OpType, OpOK, JudgeOK, Judging, OpenBinds, Answered
<1>2. PICK r \in Rev, tag \in Tags, h \in Where, n \in Nat :
        /\ n = SizeOf(r) /\ tag \in {TagOf(r), NoTag}
        /\ reader' = [open |-> TRUE, rev |-> r, size |-> n, tag |-> tag, uri |-> h]
  BY <1>1, Zenon DEF OpenBinds, Judged, Response, OpType
<1>3. op' = [op EXCEPT !.pc = "returned", !.result = "Ok", !.response = NoResponse]
      /\ UNCHANGED scheme
  BY Zenon DEF OpenBinds
<1>4. op' \in OpType
  BY <1>1, <1>3, NothingYet, Zenon DEF OpType
<1>5. op'.pc = "returned" /\ op'.method = "HEAD" /\ op'.returned = 0 /\ op'.length = op.length
  BY <1>1, <1>3, Zenon DEF OpType, Running
<1>6. reader' \in ReaderType
  BY <1>2, Zenon DEF ReaderType
<1>7. TypeOK' /\ ReaderOK'
  BY <1>2, <1>3, <1>4, <1>6, Zenon DEF IInv, TypeOK, ReaderOK, TagOf
<1>8. OpOK' /\ JudgeOK'
  BY <1>1, <1>5 DEF OpOK, JudgeOK, Ended, Holds, OpType
<1> QED BY <1>7, <1>8, Zenon DEF IInv

\* A partial answer that is accepted is of the revision captured at open: it
\* states the captured tag, or it answers an If-Range with it.
LEMMA AcceptedIsOfRevision ==
  ASSUME IInv, Accepted
  PROVE  /\ op.pc = "judge" /\ op \in OpType /\ Running(op) /\ reader.open
         /\ op.response \in Response /\ op.response.rev \in Rev
         /\ Done \in Nat /\ Done <= op.length
         /\ IsBound => op.response.rev = reader.rev
<1>1. /\ op.pc = "judge" /\ op \in OpType /\ Running(op) /\ Judged(op.response)
      /\ op.response \in Response /\ op.method = "GET" /\ op.response.status = 206
      /\ ~ContradictsCapturedValidator(op.response)
  BY Zenon DEF IInv, TypeOK, OpType, OpOK, JudgeOK, Judging, Accepted, Answered, AssetChanged
<1>2. /\ reader.open /\ op.response.rev \in Rev /\ Identified(op.response)
      /\ op.response.body <= Remaining
  BY <1>1, Zenon DEF Running, Judged
<1>3. Done \in Nat /\ Done <= op.length
  BY <1>1, <1>2 DEF Done, Remaining, OpType, Response
<1>4. ASSUME IsBound
      PROVE  op.response.rev = reader.rev
  <2>1. /\ scheme \in Strength /\ scheme = "Strong" /\ reader.rev \in Rev
        /\ reader.tag = TagOf(reader.rev) /\ reader.tag # NoTag
    BY <1>2, <1>4, Zenon DEF IInv, TypeOK, ReaderOK, IsBound
  <2>2. TagOf(op.response.rev) = TagOf(reader.rev)
    <3>1. CASE op.response.tag = TagOf(op.response.rev)
      BY <1>1, <1>2, <2>1, <3>1, TagsOfRevisions DEF ContradictsCapturedValidator
    <3>2. CASE IfRange \in {NoTag, TagOf(op.response.rev)}
      BY <1>1, <2>1, <3>2, Zenon DEF IfRange
    <3> QED BY <1>2, <3>1, <3>2, Zenon DEF Identified
  <2> QED BY <1>2, <2>1, <2>2, TagsOfRevisions, Zenon
<1> QED BY <1>1, <1>2, <1>3, <1>4, Zenon

\* So the bytes it fills in are too.
LEMMA FilledHolds ==
  ASSUME IInv, Accepted
  PROVE  Filled \in Buffers /\ Holds(Filled, Done)
<1>1. /\ op \in OpType /\ Running(op) /\ op.response.rev \in Rev /\ Done \in Nat
      /\ IsBound => op.response.rev = reader.rev
  BY AcceptedIsOfRevision, Zenon
<1>2. ASSUME NEW i \in 1..Done
      PROVE  /\ Filled[i] \in Rev /\ (IsBound => Filled[i] = reader.rev)
  <2>1. Filled[i] = IF i <= op.done THEN op.buffer[i] ELSE op.response.rev
    BY Zenon DEF Filled
  <2>2. CASE i <= op.done
    BY <1>1, <2>1, <2>2 DEF Running, Holds, OpType
  <2>3. CASE ~(i <= op.done)
    BY <1>1, <2>1, <2>3, Zenon
  <2> QED BY <2>2, <2>3, Zenon
<1>3. Filled \in [1..Done -> Rev]
  BY <1>2, Zenon DEF Filled
<1> QED BY <1>1, <1>2, <1>3, Zenon DEF Buffers, Holds

\* A read ends with them, or goes on from them.
LEMMA AcceptedSteps ==
  ASSUME IInv, ReadEnds \/ Resume
  PROVE  IInv'
<1>1. /\ Accepted /\ op.pc = "judge" /\ op \in OpType /\ Running(op) /\ op.response \in Response
      /\ Done \in Nat /\ Done <= op.length /\ Filled \in Buffers /\ Holds(Filled, Done)
  BY AcceptedIsOfRevision, FilledHolds, Zenon DEF ReadEnds, Resume
<1>2. CASE ReadEnds
  <2>1. Done \in 0..op.length
    BY <1>1 DEF OpType
  <2>2. op.response.error # "None" => ProjectTransportError(op.response.error) \in Failures
    BY <1>1, Projections, Zenon DEF Response
  <2>3. PICK status \in Failures \cup {"Ok"} : Returns(status, Done, Filled)
    BY <1>2, <2>2, Zenon DEF ReadEnds, Unresumable, Failures
  <2> QED BY <1>1, <2>1, <2>3, ReturnsStep, Zenon
<1>3. CASE Resume
  <2>1. PICK n \in Nat : n = op.retries - 1 /\ n <= Budget
    BY <1>1, <1>3, BudgetIsNat DEF OpType, Running, Resume
  <2>2. reader.uri \in Where /\ NoResponse \in Response
    BY NothingYet, Zenon DEF IInv, TypeOK, ReaderType
  <2>3. PICK h, d, f : h = reader.uri /\ d = Done /\ f = Filled
    BY Zenon
  <2>4. /\ op' = [op EXCEPT !.pc = "preflight", !.retries = n, !.done = d, !.buffer = f,
                            !.redirects = 0, !.current = h, !.response = NoResponse]
        /\ UNCHANGED <<scheme, reader>>
    BY <1>3, <2>1, <2>3, Zenon DEF Resume
  <2>5. op' \in OpType
    <3>1. d \in Nat /\ f \in Buffers /\ h \in Where /\ 0 \in Nat
      BY <1>1, <2>2, <2>3, Zenon
    <3> QED BY <1>1, <2>1, <2>2, <2>4, <3>1, Zenon DEF OpType
  <2>6. /\ op'.pc = "preflight" /\ op'.retries = n /\ op'.done = d /\ op'.buffer = f
        /\ op'.redirects = 0 /\ op'.length = op.length /\ op'.method = op.method
        /\ op'.returned = op.returned
    BY <1>1, <2>4, Zenon DEF OpType
  <2>7. Running(op')
    BY <1>1, <2>1, <2>3, <2>6, HttpAssumption DEF Running
  <2> QED BY <2>4, <2>5, <2>6, <2>7, GoesOn, Zenon
<1> QED BY <1>2, <1>3, Zenon

\* Every step keeps the invariant.
LEMMA StepKeeps ==
  ASSUME IInv, [Next]_httpVars
  PROVE  IInv'
<1>1. CASE UNCHANGED httpVars
  <2>1. scheme' = scheme /\ reader' = reader /\ op' = op
    BY <1>1, Zenon DEF httpVars
  <2>2. TypeOK' /\ ReaderOK'
    BY <2>1, Zenon DEF IInv, TypeOK, ReaderOK, TagOf
  <2>3. OpOK'
    BY <2>1, Zenon DEF IInv, OpOK, Running, Ended, Holds, IsBound
  <2>4. JudgeOK'
    BY <2>1, Zenon DEF IInv, JudgeOK, Judged, Identified, IfRange, Remaining, TagOf
  <2> QED BY <2>2, <2>3, <2>4, Zenon DEF IInv
<1> QED BY <1>1, OutsideStep, BeforeStep, PlainAnswers, WholeAnswers, PartialAnswers, AgainSteps,
           FailureSteps, OpenBindsStep, AcceptedSteps, Zenon DEF Next, Step

\* It is an invariant.
LEMMA Invariance == Spec => []IInv
<1>1. IInv /\ [Next]_httpVars => IInv'
  BY StepKeeps, Zenon
<1> QED BY <1>1, InitIsGood, PTL DEF Spec

------------------------------------------------------------------------------
\* What the retries and resumes so far may have cost, and the work done by an
\* operation: that, the hops of this exchange, and the request being judged.
Spent(retries) == (Budget - retries) * (1 + MaxRedirects)
WorkOK ==
  /\ op.pc = "idle" => op.sent = 0
  /\ op.pc \in {"preflight", "attempt"} => op.sent <= Spent(op.retries) + op.redirects
  /\ op.pc = "judge" => op.sent <= Spent(op.retries) + op.redirects + 1
  /\ op.pc = "returned" => RequestsAreBounded

\* One more retry pays for one more chain, and the last one is in the bound.
LEMMA SpentFacts ==
  ASSUME NEW n \in Nat, n <= Budget
  PROVE  /\ Spent(n) \in Nat /\ Spent(Budget) = 0
         /\ n > 0 => Spent(n - 1) = Spent(n) + (1 + MaxRedirects)
         /\ Spent(n) + (1 + MaxRedirects) <= (1 + Budget) * (1 + MaxRedirects)
<1>1. Budget \in Nat /\ MaxRedirects \in Nat
  BY BudgetIsNat, HttpAssumption, Zenon
<1>2. \A b, k \in Nat : /\ (b - n) * k \in Int /\ (b - b) * k = 0
                        /\ (b - (n - 1)) * k = (b - n) * k + k
                        /\ (1 + b) * k = (b - n) * k + k + n * k
                        /\ n <= b => (b - n) * k >= 0
                        /\ n * k >= 0
  OBVIOUS
<1> QED BY <1>1, <1>2 DEF Spent

\* What an operation that is running has sent is within the bound.
LEMMA WorkIsBounded ==
  ASSUME IInv, WorkOK
  PROVE  RequestsAreBounded
<1>1. CASE op.pc \in {"idle", "returned"}
  <2>1. (1 + Budget) * (1 + MaxRedirects) \in Nat
    BY BudgetIsNat, HttpAssumption
  <2> QED BY <1>1, <2>1 DEF WorkOK, RequestsAreBounded
<1>2. CASE op.pc \in {"preflight", "attempt", "judge"}
  <2>1. /\ op.sent \in Nat /\ op.retries \in Nat /\ op.redirects \in Nat
        /\ op.retries <= Budget /\ op.redirects <= MaxRedirects
    BY <1>2, Zenon DEF IInv, TypeOK, OpType, OpOK, Running
  <2>2. op.sent <= Spent(op.retries) + op.redirects + 1
    BY <1>2, <2>1, SpentFacts DEF WorkOK
  <2> QED BY <2>1, <2>2, SpentFacts, BudgetIsNat, HttpAssumption DEF RequestsAreBounded
<1> QED BY <1>1, <1>2, Zenon DEF IInv, TypeOK, OpType

\* An operation that ends has sent no more.
LEMMA EndsWithinWork ==
  ASSUME IInv, WorkOK, op'.pc = "returned", op'.sent = op.sent
  PROVE  WorkOK'
BY WorkIsBounded, Zenon DEF WorkOK, RequestsAreBounded

\* A step that ends an operation: all that was asked for if it succeeds, none if
\* the asset changed.
Ends ==
  /\ op.pc \in {"preflight", "attempt", "judge"} /\ op'.pc = "returned"
  /\ op'.sent = op.sent /\ op'.method = op.method /\ op'.length = op.length
  /\ op'.result = "Ok" => op'.returned = op.length
  /\ op'.result = "AssetChanged" => op'.returned = 0
  /\ op'.result # "none"
  /\ UNCHANGED <<scheme, reader>>

\* The steps that do.
LEMMA EndingSteps ==
  ASSUME IInv, Refuse \/ Decline \/ TransportFails \/ RedirectFails \/ OpenFails \/ ReadChanged
               \/ ReadRefused \/ ReadEnds
  PROVE  Ends
<1>1. op \in OpType /\ op.pc \in {"preflight", "attempt", "judge"}
  BY Zenon DEF IInv, TypeOK, Refuse, Decline, TransportFails, RedirectFails, Redirected, OpenFails,
         ReadChanged, ReadRefused, ReadEnds, Accepted, Answered, Judging
<1>2. PICK status, n, buffer :
        /\ status \in Failures \cup {"Ok", "AssetChanged"}
        /\ Returns(status, n, buffer)
        /\ status = "Ok" => n = op.length
        /\ status = "AssetChanged" => n = 0
  <2>1. op.response \in Response
    BY <1>1, Zenon DEF OpType
  <2>2. CASE \E status \in Failures : Fails(status)
    BY <2>2, Zenon DEF Fails, Failures
  <2>3. CASE Refuse \/ Decline \/ RedirectFails
    BY <2>2, <2>3, Zenon DEF Refuse, Decline, RedirectFails, Failures
  <2>4. CASE TransportFails
    <3>1. op.response.error \in Errors \ {"None"}
      BY <2>1, <2>4, Zenon DEF IInv, JudgeOK, Judging, TransportFails, NoUsableResponse, Judged, Response
    <3> QED BY <2>2, <2>4, <3>1, Projections, Zenon DEF TransportFails
  <2>5. CASE OpenFails \/ ReadRefused
    <3>1. ProjectHttpStatus(op.response.status) \in Failures
      BY <2>1, Projections, Zenon DEF Response
    <3> QED BY <2>2, <2>5, <3>1 DEF OpenFails, ReadRefused, Failures
  <2>6. CASE ReadChanged
    BY <2>6 DEF ReadChanged
  <2>7. CASE ReadEnds
    <3>1. op.response.error # "None" => ProjectTransportError(op.response.error) \in Failures
      BY <2>1, Projections, Zenon DEF Response
    <3> QED BY <2>7, <3>1 DEF ReadEnds, Unresumable, Failures
  <2> QED BY <2>3, <2>4, <2>5, <2>6, <2>7, Zenon
<1>3. /\ op' = [op EXCEPT !.pc = "returned", !.result = status, !.returned = n, !.buffer = buffer,
                          !.response = NoResponse]
      /\ UNCHANGED <<scheme, reader>>
  BY <1>2, Zenon DEF Returns
<1>4. /\ op'.pc = "returned" /\ op'.sent = op.sent /\ op'.method = op.method
      /\ op'.length = op.length /\ op'.result = status /\ op'.returned = n
  BY <1>1, <1>3, Zenon DEF OpType
<1> QED BY <1>1, <1>2, <1>3, <1>4, Zenon DEF Ends, Failures

\* A step of an operation that goes on.
Goes ==
  /\ op.pc \in {"preflight", "attempt", "judge"} /\ op'.pc \in {"preflight", "attempt", "judge"}
  /\ op'.method = op.method /\ op'.length = op.length
  /\ UNCHANGED <<scheme, reader>>

\* The work of one more request, retry, hop or resume.
LEMMA GoingSteps ==
  ASSUME IInv, WorkOK,
         Preflight \/ Unanswered \/ Refused \/ Moved \/ Whole \/ Partial \/ Retry \/ Follow \/ Resume
  PROVE  Goes /\ WorkOK'
<1>1. op \in OpType
  BY Zenon DEF IInv, TypeOK
<1>2. CASE Preflight
  <2>1. /\ op.pc = "preflight" /\ op' = [op EXCEPT !.pc = "attempt"]
        /\ UNCHANGED <<scheme, reader>>
    BY <1>2, Zenon DEF Preflight
  <2>2. /\ op'.pc = "attempt" /\ op'.method = op.method /\ op'.length = op.length
        /\ op'.sent = op.sent /\ op'.retries = op.retries /\ op'.redirects = op.redirects
    BY <1>1, <2>1, Zenon DEF OpType
  <2> QED BY <2>1, <2>2, Zenon DEF Goes, WorkOK, Spent
<1>3. CASE Unanswered \/ Refused \/ Moved \/ Whole \/ Partial
  <2>1. PICK a : Receives(a)
    BY <1>3, ZenonT(30) DEF Unanswered, Refused, Moved, Whole, Partial
  <2>2. /\ op.pc = "attempt" /\ UNCHANGED <<scheme, reader>>
        /\ op' = [op EXCEPT !.pc = "judge", !.response = a, !.sent = op.sent + 1]
    BY <2>1, Zenon DEF Receives
  <2>3. /\ op'.pc = "judge" /\ op'.method = op.method /\ op'.length = op.length
        /\ op'.sent = op.sent + 1 /\ op'.retries = op.retries /\ op'.redirects = op.redirects
    BY <1>1, <2>2, Zenon DEF OpType
  <2>4. /\ op.sent \in Nat /\ op.redirects \in Nat /\ Spent(op.retries) \in Nat
    BY <1>1, <2>2, SpentFacts, Zenon DEF OpType, IInv, OpOK, Running
  <2> QED BY <2>2, <2>3, <2>4, SMTT(30) DEF Goes, WorkOK, Spent
<1>4. CASE Retry \/ Follow \/ Resume
  <2>1. /\ op.pc = "judge" /\ Running(op)
        /\ op.sent \in Nat /\ op.retries \in Nat /\ op.redirects \in Nat /\ Spent(op.retries) \in Nat
        /\ op.sent <= Spent(op.retries) + op.redirects + 1
        /\ op.redirects <= MaxRedirects
    BY <1>1, <1>4, SpentFacts, Zenon
       DEF IInv, OpOK, OpType, WorkOK, Running, Retry, Follow, Redirected, Resume, Accepted,
           Answered, Judging
  <2>2. CASE Follow
    <3>1. /\ op'.pc = "preflight" /\ op'.method = op.method /\ op'.length = op.length
          /\ op'.sent = op.sent /\ op'.retries = op.retries /\ op'.redirects = op.redirects + 1
          /\ UNCHANGED <<scheme, reader>>
      BY <1>1, <2>2, Zenon DEF OpType, Follow
    <3> QED BY <2>1, <3>1 DEF Goes, WorkOK, Spent
  <2>3. CASE Retry
    <3>1. /\ op'.pc = "attempt" /\ op'.method = op.method /\ op'.length = op.length
          /\ op'.sent = op.sent /\ op'.retries = op.retries - 1 /\ op'.redirects = op.redirects
          /\ UNCHANGED <<scheme, reader>> /\ op.retries > 0
      BY <1>1, <2>3, Zenon DEF OpType, Retry, Retried
    <3>2. Spent(op'.retries) = Spent(op.retries) + (1 + MaxRedirects)
      BY <2>1, <3>1, SpentFacts, Zenon DEF Running
    <3>3. op'.sent <= Spent(op'.retries) + op'.redirects
      BY <2>1, <3>1, <3>2, HttpAssumption
    <3> QED BY <2>1, <3>1, <3>3, Zenon DEF Goes, WorkOK, Spent
  <2>4. CASE Resume
    <3>1. /\ op'.pc = "preflight" /\ op'.method = op.method /\ op'.length = op.length
          /\ op'.sent = op.sent /\ op'.retries = op.retries - 1 /\ op'.redirects = 0
          /\ UNCHANGED <<scheme, reader>> /\ op.retries > 0
      BY <1>1, <2>4, Zenon DEF OpType, Resume
    <3>2. Spent(op'.retries) = Spent(op.retries) + (1 + MaxRedirects)
      BY <2>1, <3>1, SpentFacts, Zenon DEF Running
    <3>3. op'.sent <= Spent(op'.retries) + op'.redirects
      BY <2>1, <3>1, <3>2, HttpAssumption
    <3> QED BY <2>1, <3>1, <3>3, Zenon DEF Goes, WorkOK, Spent
  <2> QED BY <1>4, <2>2, <2>3, <2>4, Zenon
<1> QED BY <1>2, <1>3, <1>4, Zenon

\* Every step keeps to the budget.
LEMMA WorkStep ==
  ASSUME IInv, WorkOK, [Next]_httpVars
  PROVE  WorkOK'
<1>1. CASE UNCHANGED httpVars
  BY <1>1, Zenon DEF httpVars, WorkOK, Spent, RequestsAreBounded
<1>2. CASE Open \/ Read
  <2>1. op'.pc = "preflight" /\ op'.sent = 0 /\ op'.redirects = 0 /\ op'.retries = Budget
    BY <1>2, Zenon DEF Open, Read, NoOp
  <2>2. 0 <= Spent(Budget) + 0
    BY SpentFacts, BudgetIsNat
  <2> QED BY <2>1, <2>2, Zenon DEF WorkOK, Spent
<1>3. CASE Return \/ Close
  <2>1. op'.pc = "idle" /\ op'.sent = 0
    BY <1>3, NothingYet, Zenon DEF Return, Close, WorkOK
  <2> QED BY <2>1, Zenon DEF WorkOK
<1>4. CASE OpenBinds
  <2>1. op'.pc = "returned" /\ op'.sent = op.sent
    BY <1>4, Zenon DEF OpenBinds, IInv, TypeOK, OpType
  <2> QED BY <2>1, EndsWithinWork, Zenon
<1> QED BY <1>1, <1>2, <1>3, <1>4, EndingSteps, EndsWithinWork, GoingSteps, Zenon DEF Next, Step, Ends

\* However the origin answers, one open or one Read sends at most the requests
\* its budget of retries and its bounded chains of redirects allow
\* (retriesRemaining, maxRedirects of PerformExchange).
THEOREM RequestsBounded == Spec => []RequestsAreBounded
<1>1. Init => WorkOK
  BY NothingYet, Zenon DEF Init, WorkOK
<1>2. IInv /\ WorkOK /\ [Next]_httpVars => WorkOK'
  BY WorkStep, Zenon
<1>3. IInv /\ WorkOK => RequestsAreBounded
  BY WorkIsBounded, Zenon
<1> QED BY <1>1, <1>2, <1>3, Invariance, PTL DEF Spec

------------------------------------------------------------------------------
\* The call an operation is, in the terms of the contract.
NoCall == [pc |-> "idle", rev |-> NoRev, asked |-> <<0, 0>>, status |-> "none", given |-> {}]
Called == op.pc # "idle" /\ op.method = "GET" /\ IsBound

Shape ==
  /\ ~Called => CallOf = NoCall
  /\ Called /\ op.pc # "returned"
       => CallOf = [pc |-> "reading", rev |-> reader.rev, asked |-> <<1, op.length>>,
                    status |-> "none", given |-> {}]
  /\ Called /\ op.pc = "returned"
       => CallOf = [pc |-> "returned", rev |-> reader.rev, asked |-> <<1, op.length>>,
                    status |-> IF op.result \in {"Ok", "AssetChanged"} THEN op.result ELSE "Failed",
                    given |-> {<<i, op.buffer[i]>> : i \in 1..op.returned}]

\* A call is a read through a bound reader.
LEMMA CallShape == IInv => Shape
BY Zenon DEF IInv, TypeOK, OpType, Shape, Called, CallOf, NoCall

\* The step of the contract that a step of the operation is.
Steps == CallOf.pc # CallOf'.pc /\ Contract!Step(CallOf, CallOf')

\* A read begins.
LEMMA CallBegins ==
  ASSUME IInv, Shape, Shape', Open \/ Read
  PROVE  CallOf' = CallOf \/ Steps
<1>1. CallOf = NoCall
  BY Zenon DEF Shape, Called, Open, Read
<1>2. CASE Open
  BY <1>1, <1>2, Zenon DEF Open, NoOp, Shape, Called
<1>3. CASE Read
  <2>1. PICK length \in 1..reader.size :
          op' = [NoOp EXCEPT !.pc = "preflight", !.method = "GET", !.length = length,
                             !.retries = Budget, !.current = reader.uri]
    BY <1>3, Zenon DEF Read
  <2>2. /\ op'.pc = "preflight" /\ op'.length = length /\ length \in Nat /\ reader' = reader
        /\ reader.rev \in Rev
    <3>1. op'.pc = "preflight" /\ op'.length = length
      BY <2>1, Zenon DEF NoOp
    <3>2. reader.size \in Nat /\ reader' = reader /\ reader.rev \in Rev
      BY <1>3, Zenon DEF Read, IInv, TypeOK, ReaderOK, ReaderType
    <3> QED BY <3>1, <3>2
  <2>3. CASE ~Called'
    BY <1>1, <2>3, Zenon DEF Shape, NoCall
  <2>4. CASE Called'
    <3>1. CallOf' = [pc |-> "reading", rev |-> reader.rev, asked |-> <<1, length>>,
                     status |-> "none", given |-> {}]
      BY <2>2, <2>4, Zenon DEF Shape
    <3>2. Contract!Begin(NoCall, CallOf')
      <4>1. PICK next : /\ next = CallOf'
                        /\ next = [pc |-> "reading", rev |-> reader.rev, asked |-> <<1, length>>,
                                   status |-> "none", given |-> {}]
        BY <3>1, Zenon
      <4>2. NoCall.pc = "idle" /\ next.rev \in Rev /\ next.asked \in Nat \X Nat
        BY <2>2, <4>1 DEF NoCall
      <4>3. next = Contract!Reading(next.rev, next.asked)
        BY <4>1 DEF Contract!Reading
      <4> QED BY <4>1, <4>2, <4>3, Zenon DEF Contract!Begin
    <3> QED BY <1>1, <3>1, <3>2, Zenon DEF Steps, Contract!Step, NoCall
  <2> QED BY <2>3, <2>4, Zenon
<1> QED BY <1>2, <1>3, Zenon

\* A read goes on, or its caller has it.
LEMMA CallContinues ==
  ASSUME IInv, Shape, Shape', Goes \/ Return \/ Close \/ OpenBinds
  PROVE  CallOf' = CallOf \/ Steps
<1>1. CASE Goes
  BY <1>1, Zenon DEF Goes, Shape, Called, IsBound
<1>2. CASE Close
  BY <1>2, Zenon DEF Close, Shape, Called
<1>3. CASE OpenBinds
  <2>1. op.method = "HEAD" /\ op'.method = "HEAD"
    BY <1>3, Zenon DEF OpenBinds, Answered, IInv, TypeOK, OpType
  <2> QED BY <2>1, Zenon DEF Shape, Called
<1>4. CASE Return
  <2>1. op'.pc = "idle" /\ op.pc = "returned"
    BY <1>4, NothingYet, Zenon DEF Return
  <2>2. CallOf' = NoCall
    BY <2>1, Zenon DEF Shape, Called
  <2>3. CASE ~Called
    BY <2>2, <2>3, Zenon DEF Shape
  <2>4. CASE Called
    <3>1. CallOf.pc = "returned"
      BY <2>1, <2>4 DEF Shape
    <3> QED BY <2>2, <3>1, Zenon DEF Steps, Contract!Step, Contract!Leave, Contract!Idle, NoCall
  <2> QED BY <2>3, <2>4, Zenon
<1> QED BY <1>1, <1>2, <1>3, <1>4, Zenon

\* A read ends: with all of the range, some of it, or none.
LEMMA CallEnds ==
  ASSUME IInv, IInv', Shape, Shape', Ends
  PROVE  CallOf' = CallOf \/ Steps
<1>1. CASE ~Called
  <2>1. ~Called'
    BY <1>1, Zenon DEF Ends, Called, IsBound
  <2> QED BY <1>1, <2>1, Zenon DEF Shape
<1>2. CASE Called
  <2>1. /\ Called' /\ reader' = reader /\ op'.length = op.length /\ op'.pc = "returned"
        /\ op.pc # "returned" /\ IsBound' /\ op'.method = "GET"
    BY <1>2, Zenon DEF Ends, Called, IsBound
  <2>2. /\ op'.returned \in Nat /\ op'.returned <= op.length /\ op.length \in Nat
        /\ op.length <= SizeOf(reader.rev) /\ reader.rev \in Rev
        /\ \A i \in 1..op'.returned : op'.buffer[i] = reader.rev
    BY <2>1, Zenon DEF IInv, TypeOK, OpType, ReaderOK, OpOK, Ended, Holds
  <2>3. PICK me : /\ me = CallOf
                  /\ me = [pc |-> "reading", rev |-> reader.rev, asked |-> <<1, op.length>>,
                           status |-> "none", given |-> {}]
    BY <1>2, <2>1, Zenon DEF Shape
  <2>4. PICK given : given = {<<i, op'.buffer[i]>> : i \in 1..op'.returned}
    BY Zenon
  <2>5. CallOf' = [pc |-> "returned", rev |-> reader.rev, asked |-> <<1, op.length>>,
                   status |-> IF op'.result \in {"Ok", "AssetChanged"} THEN op'.result ELSE "Failed",
                   given |-> given]
    BY <2>1, <2>4, Zenon DEF Shape
  <2>6. Contract!Whole(me) = (1..op.length) \X {reader.rev}
    <3>1. /\ me.asked[1] = 1 /\ me.asked[2] = op.length /\ me.rev = reader.rev
      BY <2>3
    <3>2. SizeOf(reader.rev) \in Nat
      BY <2>2, HttpAssumption, Zenon
    <3>3. {x \in UNION {1..SizeOf(r) : r \in Rev} : 1 <= x /\ x < 1 + op.length} = 1..op.length
      BY <2>2, <3>2, HttpAssumption
    <3> QED BY <3>1, <3>3, Zenon DEF Contract!Whole
  <2>7. given = (1..op'.returned) \X {reader.rev}
    BY <2>2, <2>4
  <2>8. CASE op'.result = "Ok"
    <3>1. given = Contract!Whole(me)
      BY <2>6, <2>7, <2>8, Zenon DEF Ends
    <3>2. Contract!Succeed(me, CallOf')
      BY <2>3, <2>5, <2>8, <3>1 DEF Contract!Succeed, Contract!Returned
    <3> QED BY <2>3, <2>5, <3>2 DEF Steps, Contract!Step
  <2>9. CASE op'.result = "AssetChanged"
    <3>1. given = {}
      BY <2>7, <2>9 DEF Ends
    <3>2. Contract!AssetChanged(me, CallOf')
      BY <2>3, <2>5, <2>9, <3>1 DEF Contract!AssetChanged, Contract!Returned
    <3> QED BY <2>3, <2>5, <3>2 DEF Steps, Contract!Step
  <2>10. CASE op'.result \notin {"Ok", "AssetChanged"}
    <3>1. given \subseteq Contract!Whole(me)
      BY <2>2, <2>6, <2>7
    <3>2. Contract!Fail(me, CallOf')
      BY <2>3, <2>5, <2>10, <3>1 DEF Contract!Fail, Contract!Returned
    <3> QED BY <2>3, <2>5, <3>2 DEF Steps, Contract!Step
  <2> QED BY <2>8, <2>9, <2>10, Zenon
<1> QED BY <1>1, <1>2, Zenon

\* Every step is one of the contract's, or none.
LEMMA CallSteps ==
  ASSUME IInv, IInv', WorkOK, Shape, Shape', [Next]_httpVars
  PROVE  CallOf' = CallOf \/ Steps
<1>1. CASE UNCHANGED httpVars
  BY <1>1, Zenon DEF httpVars, CallOf, IsBound
<1> QED BY <1>1, CallBegins, CallContinues, CallEnds, EndingSteps, GoingSteps, Zenon DEF Next, Step

\* A read over HTTP keeps the contract of AssetReader for any revisions and
\* sizes, hosts and limits: a success is the whole range and a failure a part of
\* it, in bytes of the revision captured at open, and a change of the asset
\* discards what earlier requests delivered (Read, ContradictsCapturedValidator).
THEOREM ReadsKeepTheContract == Spec => ImplementsContract
<1>1. Init => Contract!Init
  <2>1. Init => CallOf = NoCall
    BY NothingYet, Zenon DEF Init, CallOf, NoCall
  <2> QED BY <2>1, Zenon DEF Contract!Init, Contract!Idle, NoCall
<1>2. IInv /\ IInv' /\ WorkOK /\ Shape /\ Shape' /\ [Next]_httpVars
        => [Contract!Next]_([c \in {Origin} |-> CallOf])
  <2> SUFFICES ASSUME IInv, IInv', WorkOK, Shape, Shape', [Next]_httpVars
               PROVE  [Contract!Next]_([c \in {Origin} |-> CallOf])
    BY Zenon
  <2>1. CASE CallOf' = CallOf
    BY <2>1, Zenon
  <2>2. CASE Steps
    BY <2>2, Zenon DEF Steps, Contract!Next
  <2> QED BY <2>1, <2>2, CallSteps, Zenon
<1>3. Init => WorkOK
  BY NothingYet, Zenon DEF Init, WorkOK
<1>4. IInv /\ WorkOK /\ [Next]_httpVars => WorkOK'
  BY WorkStep, Zenon
<1> QED BY <1>1, <1>2, <1>3, <1>4, CallShape, Invariance, PTL
        DEF Spec, ImplementsContract, Contract!Spec

------------------------------------------------------------------------------
\* An error is of the answer being judged.
Waiting == op.pc # "judge" => op.response.error = "None"

\* What a step does to an operation whose deadline elapsed.
EndsIt == op.response.error \in Deadlines /\ ~ActedOn(op.response)
            => op'.pc = "returned" /\ (op'.result = "Ok" => op.method = "HEAD")

\* An answer whose deadline elapsed is never a read's success.
LEMMA DeadlinesFail ==
  ASSUME IInv, op.response.error \in Deadlines,
         TransportFails \/ RedirectFails \/ OpenFails \/ ReadChanged \/ ReadRefused \/ ReadEnds
  PROVE  op'.result # "Ok"
<1>1. op \in OpType /\ op.response \in Response
  BY Zenon DEF IInv, TypeOK, OpType
<1>2. op.response.error # "None" /\ ~IsResumable(op.response.error)
  BY DEF Deadlines, IsResumable
<1>3. /\ ProjectTransportError(op.response.error) \in Failures
      /\ ProjectHttpStatus(op.response.status) \in Failures
  BY <1>1, <1>2, Projections, Zenon DEF Response
<1>4. PICK status, n, b : Returns(status, n, b) /\ status \in Failures \cup {"AssetChanged"}
  <2>1. CASE TransportFails \/ RedirectFails \/ OpenFails \/ ReadRefused
    <3>1. \E status \in Failures : Fails(status)
      BY <1>3, <2>1 DEF TransportFails, RedirectFails, OpenFails, ReadRefused, Failures
    <3> QED BY <3>1, Zenon DEF Fails
  <2>2. CASE ReadChanged
    BY <2>2 DEF ReadChanged
  <2>3. CASE ReadEnds
    <3>1. Unresumable /\ ~Stalled
      BY <1>2, Zenon DEF Unresumable, Stalled
    <3>2. Returns(ProjectTransportError(op.response.error), Done, Filled)
      BY <2>3, <3>1, Zenon DEF ReadEnds
    <3> QED BY <1>3, <3>2, Zenon
  <2> QED BY <2>1, <2>2, <2>3, Zenon
<1>5. op'.result = status
  BY <1>1, <1>4, Zenon DEF OpType, Returns
<1> QED BY <1>4, <1>5 DEF Failures

\* Only the judging of an answer lets an operation with a deadline elapsed take
\* a step, and that step ends it.
LEMMA TimeoutStep ==
  ASSUME IInv, Waiting, [Next]_httpVars
  PROVE  Waiting' /\ [EndsIt]_httpVars
<1>1. PICK none : none = NoResponse /\ none.error = "None"
  <2>1. NoResponse.error = "None"
    BY Zenon DEF NoResponse
  <2> QED BY <2>1, Zenon
<1>2. op \in OpType /\ op.response \in Response
  BY Zenon DEF IInv, TypeOK, OpType
<1>3. CASE UNCHANGED httpVars
  BY <1>3, Zenon DEF httpVars, Waiting
<1>4. CASE Open \/ Read \/ Return \/ Close \/ Refuse \/ Preflight \/ Decline
           \/ Unanswered \/ Refused \/ Moved \/ Whole \/ Partial
  <2>1. op.pc # "judge"
    BY <1>4, ZenonT(30) DEF Open, Read, Return, Close, Refuse, Preflight, Decline, Unanswered,
                Refused, Moved, Whole, Partial, Receives
  <2>2. op.response.error = "None"
    BY <2>1, Zenon DEF Waiting
  <2>3. Waiting'
    <3>1. CASE Open \/ Read \/ Return
      <4>1. NoOp \in OpType /\ NoOp.response = NoResponse
        BY NothingYet, Zenon DEF NoOp
      <4>2. CASE Open \/ Return
        BY <1>1, <4>1, <4>2, Zenon DEF OpType, Open, Return, Waiting
      <4>3. CASE Read
        <5>1. PICK length : op' = [NoOp EXCEPT !.pc = "preflight", !.method = "GET",
                                               !.length = length, !.retries = Budget,
                                               !.current = reader.uri]
          BY <4>3, Zenon DEF Read
        <5> QED BY <1>1, <4>1, <5>1, Zenon DEF OpType, Waiting
      <4> QED BY <3>1, <4>2, <4>3, Zenon
    <3>2. CASE Close
      BY <3>2, Zenon DEF Close, Waiting
    <3>3. CASE Preflight
      <4>1. op' = [op EXCEPT !.pc = "attempt"]
        BY <3>3, Zenon DEF Preflight
      <4>2. op'.response = op.response
        BY <1>2, <4>1, Zenon DEF OpType
      <4> QED BY <2>2, <4>2, Zenon DEF Waiting
    <3>4. CASE Refuse \/ Decline
      <4>1. PICK status : Fails(status)
        BY <3>4, Zenon DEF Refuse, Decline
      <4>2. op'.response = none
        BY <1>1, <1>2, <4>1, Zenon DEF OpType, Fails, Returns
      <4> QED BY <1>1, <4>2, Zenon DEF Waiting
    <3>5. CASE Unanswered \/ Refused \/ Moved \/ Whole \/ Partial
      <4>1. PICK a : Receives(a)
        BY <3>5, ZenonT(30) DEF Unanswered, Refused, Moved, Whole, Partial
      <4>2. op'.pc = "judge"
        BY <1>2, <4>1, Zenon DEF OpType, Receives
      <4> QED BY <4>2, Zenon DEF Waiting
    <3> QED BY <1>4, <3>1, <3>2, <3>3, <3>4, <3>5, Zenon
  <2>4. op.response.error \notin Deadlines
    BY <2>2, Zenon DEF Deadlines
  <2> QED BY <2>3, <2>4, Zenon DEF EndsIt
<1>5. CASE TransportFails \/ RedirectFails \/ OpenFails \/ ReadChanged \/ ReadRefused \/ ReadEnds
  <2>1. PICK status, n, b : Returns(status, n, b)
    BY <1>5 DEF TransportFails, RedirectFails, OpenFails, ReadChanged, ReadRefused, ReadEnds, Fails
  <2>2. op'.pc = "returned" /\ op'.result = status /\ op'.response = none
    BY <1>1, <1>2, <2>1, Zenon DEF OpType, Returns
  <2>3. op.response.error \in Deadlines => op'.result # "Ok"
    BY <1>5, DeadlinesFail, Zenon
  <2> QED BY <1>1, <2>2, <2>3, Zenon DEF Waiting, EndsIt
<1>6. CASE OpenBinds
  <2>1. op' = [op EXCEPT !.pc = "returned", !.result = "Ok", !.response = NoResponse]
    BY <1>6, Zenon DEF OpenBinds
  <2>2. op'.pc = "returned" /\ op'.response = none
    BY <1>1, <1>2, <2>1, Zenon DEF OpType
  <2>3. op.method = "HEAD"
    BY <1>6, Zenon DEF OpenBinds, Answered
  <2> QED BY <1>1, <2>2, <2>3, Zenon DEF Waiting, EndsIt
<1>7. CASE Retry \/ Follow \/ Resume
  <2>1. op.response.error \in Deadlines => ActedOn(op.response)
    BY <1>7 DEF Deadlines, ActedOn, Retry, Retried, Retryable, IsRetryableTransportError,
                Follow, Redirected, Resume, Accepted, Unresumable, IsResumable
  <2>2. op'.response = none
    BY <1>1, <1>2, <1>7, Zenon DEF OpType, Retry, Follow, Resume
  <2> QED BY <1>1, <2>1, <2>2, Zenon DEF Waiting, EndsIt
<1> QED BY <1>3, <1>4, <1>5, <1>6, <1>7, Zenon DEF Next, Step

\* An elapsed deadline ends the operation, whatever the budget still allows, and
\* no read that met one succeeds (IsRetryableTransportError, IsResumable); only
\* a status that is retried or followed whatever became of its transfer lets
\* the operation go on.
THEOREM DeadlinesEndOperations == Spec => TimeoutsEndTheOperation
<1>1. Init => Waiting
  BY DEF Init, Waiting, NoOp, NoResponse
<1>2. IInv /\ Waiting /\ [Next]_httpVars => Waiting' /\ [EndsIt]_httpVars
  BY TimeoutStep, Zenon
<1> QED BY <1>1, <1>2, Invariance, PTL DEF Spec, TimeoutsEndTheOperation, EndsIt
==============================================================================
