------------------------------ MODULE Identifier ------------------------------
(***************************************************************************)
(* How the resolver names an asset: CreateIdentifier normalises a URI, or  *)
(* anchors a reference (plugins/http-resolver/src/Identifier.cpp).  The    *)
(* path of a reference with an authority is empty or begins with a slash,  *)
(* and a reference with nothing in it is one that has only a fragment.     *)
(***************************************************************************)
EXTENDS UriText

\* Escapes of unreserved characters are decoded, other escapes upper-cased,
\* what cannot stand in a path is encoded.
NormalizeSymbol(symbol) ==
  CASE symbol = "%2E" -> "."
    [] symbol = "%2f" -> "%2F"
    [] symbol = " "   -> "%20"
    [] OTHER          -> symbol

NormalizePercentEncoding(text) == [i \in DOMAIN text |-> NormalizeSymbol(text[i])]

\* out.erase(out.find_last_of('/'))
WithoutLastSegment(out) == IF Len(out) = 1 THEN EmptyPath ELSE Front(out)

RECURSIVE Rewrite(_, _)

\* RFC 3986 5.2.4 as the code has it: one of these rewrites until in is "".
Rewrite(in, out) ==
  LET slash   == << <<>> >>                        \* what a leading "/" splits into
      rest(n) == SubSeq(in, n, Len(in))
      rooted  == IsRooted(in)
  IN  CASE in = EmptyPath                        -> out
        [] in[1] \in {DotDot, Dot} /\ Len(in) > 1 -> Rewrite(Tail(in), out)
        [] rooted /\ in[2] = Dot                  ->
             Rewrite(slash \o (IF Len(in) = 2 THEN slash ELSE rest(3)), out)
        [] rooted /\ in[2] = DotDot               ->
             Rewrite(slash \o (IF Len(in) = 2 THEN slash ELSE rest(3)), WithoutLastSegment(out))
        [] in \in {<<Dot>>, <<DotDot>>}           -> out
        [] OTHER                                  ->
             LET moved == IF rooted THEN 2 ELSE 1
             IN  Rewrite(slash \o rest(moved + 1),
                         IF rooted THEN Append(out, in[2]) ELSE <<in[1]>>)

RemoveDotSegments(path) == Rewrite(path, EmptyPath)

\* Every spelling of the scheme's default port is dropped.
NormalizeAuthority(authority, scheme) ==
  IF authority.host = <<>> \/ authority.port = BadPort \/ authority.port > 65535
  THEN Absent
  ELSE << [user |-> "",
           host |-> LowerText(NormalizePercentEncoding(authority.host)),
           port |-> IF authority.port \in {EmptyPort, DefaultPort(scheme)} THEN NoPort
                                                                           ELSE authority.port] >>

\* Mutant: the dot segments are removed before the escapes are decoded.
NormalizedPath_DotsFirst(path) ==
  LET dotless == RemoveDotSegments(path)
  IN  [i \in DOMAIN dotless |-> NormalizePercentEncoding(dotless[i])]

NormalizedPath(path) ==
  RemoveDotSegments([i \in DOMAIN path |-> NormalizePercentEncoding(path[i])])

NormalizeAbsolute(parts) ==
  LET authority == IF parts.authority = Absent THEN Absent
                   ELSE NormalizeAuthority(parts.authority[1], parts.scheme)
      path      == NormalizedPath(parts.path)
  IN  IF parts.scheme \notin Claimed \/ authority = Absent THEN Absent
      ELSE << [scheme |-> parts.scheme, authority |-> authority,
               path |-> IF path = EmptyPath THEN RootPath ELSE path, query |-> parts.query] >>

MergePath(base, reference) ==
  IF IsRooted(base) THEN MergedWith(base, reference) ELSE << <<>> >> \o reference

Target(r, base) ==
  CASE r.authority # Absent -> [r EXCEPT !.scheme = base.scheme]
    [] r.path = EmptyPath   -> [base EXCEPT !.query = IF r.query # Absent THEN r.query ELSE @]
    [] OTHER                -> [base EXCEPT
                                  !.path = IF IsRooted(r.path) THEN r.path
                                                               ELSE MergePath(@, r.path),
                                  !.query = r.query]

\* An anchor is empty, Absent, or a reference.
CreateIdentifier(r, anchor) ==
  LET reference == [r EXCEPT !.scheme = LowerScheme(@)]
      base      == [anchor[1] EXCEPT !.scheme = LowerScheme(@)]
  IN  IF reference.scheme # "" THEN NormalizeAbsolute(reference)
      ELSE IF anchor = Absent THEN Absent
      ELSE IF base.scheme \notin Claimed \/ base.authority = Absent THEN Absent
      ELSE NormalizeAbsolute(Target(reference, base))

IsClaimedScheme(r) == LowerScheme(r.scheme) \in Claimed

\* What follows the last dot of the last segment, unless the dot begins it.
ExtensionOf(r) ==
  LET segment == Last(r.path)
      dots    == {i \in DOMAIN segment : segment[i] = "."}
      last    == CHOOSE i \in dots : \A j \in dots : j <= i
  IN  IF dots \subseteq {1} THEN <<>> ELSE SubSeq(segment, last + 1, Len(segment))
==============================================================================
