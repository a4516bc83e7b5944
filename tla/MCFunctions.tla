------------------------------ MODULE MCFunctions ------------------------------
(***************************************************************************)
(* Inputs for the pure functions.                                          *)
(*                                                                         *)
(* Cache: every set of blocks of assets of up to five blocks of two bytes, *)
(* the last one short or full; every range around the end of a small asset *)
(* and of the offset type; options on both sides of every clamp.           *)
(*                                                                         *)
(* Names: every path of up to four segments, dots and empty segments and   *)
(* escapes among them; every spelling of the authority; every reference of *)
(* up to three segments, a colon in one of them at times, against every    *)
(* anchor of up to three.                                                  *)
(*                                                                         *)
(* Contexts: every text of two entries, and of three with a repeated name, *)
(* over environments that set, or fail to set, the same variables.         *)
(*                                                                         *)
(* Latencies: up to fifteen samples on both sides of every bucket's bound, *)
(* and as many as five more that are folded in.                            *)
(***************************************************************************)
EXTENDS CacheArithmetic, AssetNames, Contexts, LatencyHistogram

MCPlanInput ==
  UNION {[blocks : SUBSET CoveringBlocks(0, size, 2), blockSize : {2}, assetSize : {size},
          gap : 0 .. 2, maxRequest : {2, 4, 5, 6, 7, 10}] : size \in {1, 4, 7, 9, 10}}

MCRangeInput ==
  [offset : 0 .. 7, size : 0 .. 7, assetSize : 0 .. 7, blockSize : {1, 2, 3}]

MCOptionInput ==
  [blockSize : {0, 1, 2, 3, 4, 7, 8, 9}, budgetBytes : {0, 5, 16, 31, 32, 64, 127, 130},
   coalesceGapBlocks : 0 .. 4, maxRequestBytes : {0, 3, 4, 9, 16, 23},
   bypassThresholdBytes : {0, 8, 20}]

------------------------------------------------------------------------------
DotSegments == {<<>>, Dot, DotDot, <<"a">>}
Segments    == DotSegments \cup {<<"%2E", ".">>, <<" ">>, <<"%2f">>, <<"a", ".", "b">>}

PathsOf(segments, longest) ==
  {EmptyPath} \cup UNION {{<< <<>> >> \o p : p \in [1 .. n -> segments]} : n \in 1 .. longest}

RelativePaths(segments, longest) ==
  UNION {{p \in [1 .. n -> segments] : p[1] # <<>>} : n \in 1 .. longest}

At(scheme, port, path, query) ==
  [scheme |-> scheme, authority |-> << [user |-> "", host |-> <<"h">>, port |-> port] >>,
   path |-> path, query |-> query]

Authorities ==
  {<<a>> : a \in [user : {"", "u"}, host : {<<>>, <<"H">>, <<"%2f">>, <<"%2E", "h">>},
                  port : {NoPort, EmptyPort, BadPort, 0, 80, 443, 8080, 65535, 65536}]}

Queries == {Absent, <<"">>, <<"q">>}

\* Absolute: every path, and every authority with the schemes.
AbsoluteNames ==
  {At("http", NoPort, p, Absent) : p \in PathsOf(Segments, 4)}
    \cup [scheme : {"http", "https", "HTTP", "s3"}, authority : Authorities \cup {Absent},
          path : {EmptyPath, RootPath}, query : Queries]

\* Relative: no scheme, any form of path, sometimes an authority.
Relatives ==
  [scheme : {""}, authority : {Absent}, query : Queries,
   path : {p \in PathsOf(Segments, 2) : Len(p) > 2 => p[2] # <<>>}
            \cup RelativePaths(Segments, 3)
            \cup RelativePaths({Dot, <<"_", ":", ".", "b">>}, 2)]
    \cup [scheme : {""}, authority : Authorities, path : PathsOf(DotSegments, 2), query : {Absent}]

Anchors ==
  {At(s, 443, p, q) : s \in {"http", "https"}, p \in PathsOf(DotSegments, 2), q \in {Absent, <<"b">>}}
    \cup {At("https", 8080, p, Absent) : p \in PathsOf(DotSegments, 3)}

MCNameInput ==
  [reference : AbsoluteNames, anchor : {Absent}]
    \cup [reference : Relatives,
          anchor : {Absent, <<At("s3", NoPort, RootPath, Absent)>>,
                    <<At("HTTP", 80, << <<>>, <<"a">>, <<"%2E", ".">>, <<"a">> >>, <<"b">>)>>}]

MCRedirectInput ==
  [reference : {r \in AbsoluteNames : Len(r.path) < 4}, anchor : {At("https", 8080, RootPath, Absent)}]
    \cup [reference : Relatives, anchor : Anchors]

------------------------------------------------------------------------------
(***************************************************************************)
(* Hosts: IPv4 addresses on both sides of every range, in every IPv6 form, *)
(* and IPv6 ones; each with every place and length of "::", a dotted quad  *)
(* or not; and texts that spell nothing.                                   *)
(***************************************************************************)
V4 == {<<169, 254, 169, 254>>, <<169, 254, 169, 253>>, <<100, 100, 100, 200>>, <<168, 63, 129, 16>>,
       <<127, 0, 0, 1>>, <<0, 0, 0, 0>>, <<0, 0, 0, 1>>, <<0, 0, 1, 0>>, <<10, 0, 0, 1>>,
       <<172, 15, 0, 1>>, <<172, 16, 0, 0>>, <<172, 31, 255, 255>>, <<172, 32, 0, 0>>,
       <<192, 168, 1, 1>>, <<192, 169, 0, 1>>, <<100, 63, 0, 1>>, <<100, 64, 0, 0>>,
       <<100, 127, 0, 1>>, <<100, 128, 0, 0>>, <<8, 8, 8, 8>>}

Groups4(a) == <<a[1] * 256 + a[2], a[3] * 256 + a[4]>>

V6Groups ==
  {prefix \o Groups4(a) : a \in V4,
     prefix \in {<<0, 0, 0, 0, 0, 0>>, <<0, 0, 0, 0, 0, 65535>>, <<100, 65435, 0, 0, 0, 0>>,
                 <<0, 0, 0, 0, 1, 0>>, <<64768, 3778, 0, 0, 0, 0>>, <<65152, 0, 0, 0, 0, 0>>}}
    \cup {<<64768, 3778, 0, 0, 0, 0, 0, 596>>, <<64768, 3778, 0, 0, 0, 0, 0, 35>>,
          <<65215, 1, 2, 3, 4, 5, 6, 7>>, <<65216, 0, 0, 0, 0, 0, 0, 1>>, <<65279, 0, 3, 0, 0, 4, 0, 0>>,
          <<64512, 0, 0, 0, 0, 0, 0, 0>>, <<65024, 0, 0, 0, 0, 0, 0, 1>>}

BytesOf(g) == [i \in 1 .. 16 |-> IF i % 2 = 1 THEN g[(i + 1) \div 2] \div 256 ELSE g[i \div 2] % 256]

Quad(a) == [i \in 1 .. Len(a) |-> [value |-> a[i], padded |-> FALSE]]

\* The groups of one side, the last two as a quad if asked for.
Side(g, quad) ==
  IF quad /\ Len(g) > 1
  THEN [groups |-> SubSeq(g, 1, Len(g) - 2),
        quad |-> <<Quad(SubSeq(BytesOf([i \in 1 .. 8 |-> g[IF i > Len(g) THEN 1 ELSE i]]),
                               2 * Len(g) - 3, 2 * Len(g)))>>]
  ELSE [groups |-> g, quad |-> <<>>]

\* A "::" in place of the zero groups from .. to - 1; none of them is too few.
Gapped(g, from, to, quad) ==
  [address |-> IF from = to THEN <<>> ELSE BytesOf(g), bracketed |-> TRUE,
   host |-> [closed |-> TRUE,
             text |-> [head |-> Side(SubSeq(g, 1, from - 1), FALSE), gaps |-> 1,
                       tail |-> Side(SubSeq(g, to, 8), quad)]]]

Whole(g, quad, closed) ==
  [address |-> IF closed THEN BytesOf(g) ELSE <<>>, bracketed |-> TRUE,
   host |-> [closed |-> closed,
             text |-> [head |-> Side(g, quad), gaps |-> 0, tail |-> Side(<<>>, FALSE)]]]

Dotted(a, dots) ==
  [address |-> IF dots < 2 THEN a ELSE <<>>, bracketed |-> FALSE,
   host |-> [parts |-> Quad(a), dots |-> dots]]

\* No address: a byte missing, too many, too large or padded; a stray colon; a
\* second "::"; seven groups; a quad before the end.
NoAddresses ==
  {[address |-> <<>>, bracketed |-> FALSE, host |-> [parts |-> p, dots |-> 0]] :
     p \in {Quad(<<10, 0, 1>>), Quad(<<10, 0, 0, 1, 1>>), Quad(<<10, 0, 256, 1>>),
            [Quad(<<10, 0, 0, 1>>) EXCEPT ![2].padded = TRUE], Quad(<<10, D!NotANumber, 0, 1>>)}}
    \cup {[address |-> <<>>, bracketed |-> TRUE,
           host |-> [closed |-> TRUE, text |-> [head |-> h, gaps |-> n, tail |-> Side(<<1>>, FALSE)]]] :
          h \in {Side(<<0, D!NotANumber>>, FALSE), Side(<<0, 0, 1, 1>>, TRUE)}, n \in {1, 2}}
    \cup {[address |-> <<>>, bracketed |-> TRUE,
           host |-> [closed |-> TRUE, text |-> [head |-> Side(g, FALSE), gaps |-> n,
                                                tail |-> Side(<<>>, FALSE)]]] :
          g \in {<<1, 2, 3, 4, 5, 6, 7>>, <<1, 2, 3, 4, 5, 6, 7, 8, 9>>}, n \in {0, 2}}

MCHostInput ==
  UNION {{Gapped(g, at[1], at[2], quad) : quad \in BOOLEAN, at \in
            {<<i, j>> \in (1 .. 9) \X (1 .. 9) : i <= j /\ \A k \in i .. j - 1 : g[k] = 0}} :
         g \in V6Groups}
    \cup {Whole(g, quad, closed) : g \in V6Groups, quad \in BOOLEAN, closed \in BOOLEAN}
    \cup {Dotted(a, dots) : a \in V4, dots \in 0 .. 2} \cup NoAddresses

------------------------------------------------------------------------------
Numbers == ConfiguredVariables \ {"DESTINATIONS", "CACHE_DIR"}

MCLeast == [name \in Numbers |->
  CASE name \in {"COALESCE_GAP", "MAX_RETRIES", "MAX_REDIRECTS"} -> 0
    [] name \in {"BLOCK_SIZE", "CACHE_BUDGET", "MAX_REQUEST_BYTES"} -> MinBlockSize
    [] OTHER -> 1]

MCMost == [name \in Numbers |-> IF name = "BLOCK_SIZE" THEN MaxBlockSize ELSE 60]

MCDefault == [name \in ConfiguredVariables |->
  CASE name = "DESTINATIONS" -> {1, 2, 3}
    [] name = "CACHE_DIR" -> <<>>
    [] name = "COALESCE_GAP" -> 1
    [] name = "MAX_REQUEST_BYTES" -> 12
    [] OTHER -> 4]

Entry(name, texts) == {[name |-> name, value |-> text] : text \in texts}

ContextEntries ==
  Entry("COALESCE_GAP", {<<0>>, <<0, 2>>, <<5>>, <<>>, <<6, 1>>})
    \cup Entry("MAX_REQUEST_BYTES", {<<8>>, <<2, 4>>, <<1>>, <<2, NotADigit>>})
    \cup Entry("TOTAL_TIMEOUT", {<<0>>, <<0, 7>>, <<7>>})
    \cup Entry("DESTINATIONS", {<<1>>, <<2, 1>>, <<2, 1, 2>>, <<>>, <<1, 0>>, <<1, 9>>, <<5, 4>>})
    \cup Entry("BLOCK_SIZE", {<<8>>}) \cup Entry("none", {<<>>})

Environments ==
  {a @@ b : a \in {<<>>, [x \in {"MAX_REQUEST_BYTES"} |-> <<2, 4>>],
                   [x \in {"MAX_REQUEST_BYTES", "BLOCK_SIZE"} |-> <<8>>],
                   [x \in {"COALESCE_GAP"} |-> <<3>>], [x \in {"TOTAL_TIMEOUT", "CACHE_DIR"} |-> <<>>]},
            b \in {<<>>, [x \in {"DESTINATIONS"} |-> <<1>>], [x \in {"DESTINATIONS"} |-> <<9>>]}}

MCContextInput ==
  [environment : Environments,
   text : UNION {[1 .. n -> ContextEntries] : n \in 0 .. 2}
            \cup {t \in [1 .. 3 -> ContextEntries] : t[1].name = t[3].name}]

------------------------------------------------------------------------------
Samples == {0, 1, 2, 3, 7}

MCHistogramInput == [samples : [Samples -> 0 .. 3], folded : [Samples -> 0 .. 1]]

------------------------------------------------------------------------------
Init ==
  /\ output = <<>>
  /\ ArithmeticCalls \/ NameCalls \/ ContextCalls \/ HistogramCalls

Next ==
  \/ Plan \/ Resolve \/ Normalize \/ Name \/ Redirect \/ Classify \/ CreateContext
  \/ Summarize

Spec == Init /\ [][Next]_callVars
==============================================================================
