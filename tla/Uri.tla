---------------------------------- MODULE Uri ----------------------------------
(***************************************************************************)
(* The URIs of the HTTP backend: what ParseUri makes of an identifier and  *)
(* ResolveReference of a Location (libs/usd-asset-http/src/Uri.cpp).       *)
(***************************************************************************)
EXTENDS UriText

\* The segment stack, and whether the last segment was a dot segment.
PushSegment(acc, segment) ==
  CASE segment = Dot    -> [acc EXCEPT !.dot = TRUE]
    [] segment = DotDot -> [stack |-> IF acc.stack = <<>> THEN <<>> ELSE Front(acc.stack),
                            dot |-> TRUE]
    [] OTHER            -> [stack |-> Append(acc.stack, segment), dot |-> FALSE]

\* Mutant: a trailing dot segment leaves no slash behind.
RemoveDotSegments_NoSlash(path) ==
  LET walked == FoldLeft(PushSegment, [stack |-> <<>>, dot |-> FALSE], Tail(path))
  IN  IF walked.stack = <<>> THEN RootPath ELSE << <<>> >> \o walked.stack

\* Uri.cpp only asks it of paths that begin with a slash.
RemoveDotSegments(path) ==
  LET walked   == FoldLeft(PushSegment, [stack |-> <<>>, dot |-> FALSE], Tail(path))
      segments == IF walked.dot THEN Append(walked.stack, <<>>) ELSE walked.stack
  IN  IF segments = <<>> THEN RootPath ELSE << <<>> >> \o segments

\* A port of zero stands for the default, so one that is written is refused.
\* The test for a host is made on host and port together.
ParseAuthority(authority) ==
  IF \/ authority.host = <<>> /\ authority.port = NoPort
     \/ authority.port \in {0, BadPort}
     \/ authority.port > 65535
  THEN Absent
  ELSE << [user |-> authority.user,
           host |-> LowerText(authority.host),
           port |-> IF authority.port \in {NoPort, EmptyPort} THEN 0 ELSE authority.port] >>

ParseUri(text) ==
  LET scheme    == LowerScheme(text.scheme)
      authority == IF text.authority = Absent THEN Absent ELSE ParseAuthority(text.authority[1])
  IN  IF scheme \notin Claimed \/ authority = Absent
      THEN Absent
      ELSE << [scheme |-> scheme,
               authority |-> authority[1],
               path |-> RemoveDotSegments(IF text.path = EmptyPath THEN RootPath ELSE text.path),
               query |-> text.query] >>

\* The text of Compose without the userinfo, in the form of a reference.
ToIdentity(uri) ==
  [scheme    |-> uri.scheme,
   authority |-> << [user |-> "",
                     host |-> uri.authority.host,
                     port |-> IF uri.authority.port \in {0, DefaultPort(uri.scheme)}
                              THEN NoPort ELSE uri.authority.port] >>,
   path      |-> uri.path,
   query     |-> uri.query]

\* Nothing but a fragment: it is stripped first.
IsEmptyReference(r) ==
  /\ r.scheme = ""
  /\ r.authority = Absent
  /\ r.path = EmptyPath
  /\ r.query = Absent

\* What stands before a colon ahead of the first slash is taken for a scheme,
\* whether it can be one or not: ParseUri refuses one that cannot.
HasColonAhead(r) == r.authority = Absent /\ ":" \in Range(r.path[1])

ResolveReference(base, r) ==
  IF IsEmptyReference(r) THEN Absent
  ELSE IF r.scheme # "" THEN ParseUri(r)
  ELSE IF HasColonAhead(r) THEN Absent
  ELSE IF r.authority # Absent THEN ParseUri([r EXCEPT !.scheme = base.scheme])
  ELSE << [base EXCEPT
             !.path = IF r.path = EmptyPath THEN @
                      ELSE RemoveDotSegments(IF IsRooted(r.path) THEN r.path
                                                                 ELSE MergedWith(@, r.path)),
             !.query = r.query] >>

IsSchemeDowngrade(base, target) == base.scheme = "https" /\ target.scheme # "https"
==============================================================================
