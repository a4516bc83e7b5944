------------------------------ MODULE AssetNames ------------------------------
(***************************************************************************)
(* The two things that name an asset, side by side: the resolver's         *)
(* CreateIdentifier, and the backend's ParseUri and ResolveReference that  *)
(* are later applied to what CreateIdentifier made; and the addresses a    *)
(* host may spell.                                                         *)
(***************************************************************************)
EXTENDS Calls, UriText

CONSTANTS
  NameInput,       \* [reference, anchor], the anchor being possibly Absent
  RedirectInput,   \* [reference, anchor], the anchor being a URI
  HostInput        \* [address, host]: a host and the bytes it spells, if any

N == INSTANCE Identifier
U == INSTANCE Uri
D == INSTANCE Destination

NameCalls ==
  \/ call = "name" /\ input \in NameInput
  \/ call = "redirect" /\ input \in RedirectInput
  \/ call = "host" /\ input \in HostInput

Name ==
  Returns("name", <<N!CreateIdentifier(input.reference, input.anchor)>>)

\* A reader opened under an identifier is sent elsewhere.
OpenedUri == U!ParseUri(N!CreateIdentifier(input.anchor, Absent)[1])[1]

Redirect ==
  Returns("redirect", <<U!ResolveReference(OpenedUri, input.reference)>>)

Classify ==
  Returns("host", <<D!ClassifyHostLiteral(input.bracketed, input.host)>>)

------------------------------------------------------------------------------
HasEscapedDot(r) == \E i \in DOMAIN r.path : "%2E" \in Range(r.path[i])

HasOnlyAPort(r) ==
  r.authority # Absent /\ r.authority[1].host = <<>> /\ r.authority[1].port # NoPort

\* One asset has one name, and the transport asks for the asset that is named:
\* an identifier of CreateIdentifier is its own identifier, ParseUri reads it
\* without finding a dot segment or a default port left to remove and refuses
\* it only for a port of zero, and its extension is that of the reference.
NamesAreStable ==
  (Called("name") /\ output[1] # Absent) =>
    LET id  == output[1][1]
        uri == U!ParseUri(id)
        r   == input.reference
    IN  /\ N!IsClaimedScheme(id)
        /\ N!CreateIdentifier(id, Absent) = output[1]
        /\ IF id.authority[1].port = 0 THEN uri = Absent
           ELSE uri # Absent /\ U!ToIdentity(uri[1]) = id
        /\ (r.path # EmptyPath /\ ~HasEscapedDot(r)) =>
             N!ExtensionOf(id) = N!NormalizePercentEncoding(N!ExtensionOf(r))

\* A Location means to the backend what the same reference means to the
\* resolver.  Uri.cpp says of the RFC's rewriting and its segment stack that
\* "the two agree", Identifier.cpp that a segment vector differs on a trailing
\* ".." and at the root: this one does not.  The parsers around them differ, on
\* a fragment alone, which is no Location; on a port of zero, and on a colon in
\* the first segment that ends no scheme ("tile_1:2.usda"), which the backend
\* refuses; on a port with no host, which only the backend accepts; on escaped
\* dots, which only the resolver decodes; and on a host with a colon of its own,
\* which UriText leaves out.
RedirectsAgree ==
  (Called("redirect") /\ ~HasEscapedDot(input.reference) /\ ~HasOnlyAPort(input.reference)
     /\ ~U!IsEmptyReference(input.reference)) =>
    LET base == U!ToIdentity(OpenedUri)
        r    == input.reference
        id   == N!CreateIdentifier(r, <<base>>)
    IN  IF \/ id = Absent
           \/ id[1].authority[1].port = 0
           \/ r.scheme = "" /\ r.authority = Absent /\ ":" \in Range(r.path[1])
        THEN output[1] = Absent
        ELSE /\ output[1] # Absent
             /\ N!CreateIdentifier(U!ToIdentity(output[1][1]), Absent) = id
             /\ U!IsSchemeDowngrade(OpenedUri, output[1][1])
                  <=> id[1].scheme = "http" /\ base.scheme = "https"

\* The IPv4 address a connection to an IPv6 one may really be made to.
Carried(address) ==
  {SubSeq(address, 13, 16) : prefix \in
     {p \in {<<0, 0, 0, 0, 0, 0, 0, 0, 0, 0, 0, 0>>, <<0, 0, 0, 0, 0, 0, 0, 0, 0, 0, 255, 255>>,
             <<0, 100, 255, 155, 0, 0, 0, 0, 0, 0, 0, 0>>} : p = SubSeq(address, 1, 12)}}

\* However an address is written in a host, ClassifyHostLiteral finds it and
\* gives it one class, the same for every spelling; "an address that carries an
\* IPv4 one is the class of the address it carries" (::1 excepted, which carries
\* none), and what spells no address has no class.
SpellingsAgree ==
  Called("host") =>
    LET a == input.address
    IN  CASE Len(a) = 0  -> output[1] = <<>>
          [] Len(a) = 4  -> output[1] = <<D!ClassifyIPv4(a)>>
          [] Len(a) = 16 ->
               /\ output[1] = <<D!ClassifyIPv6(a)>>
               /\ \A v4 \in Carried(a) :
                    SubSeq(a, 1, 15) # [i \in 1 .. 15 |-> 0] => output[1] = <<D!ClassifyIPv4(v4)>>
==============================================================================
