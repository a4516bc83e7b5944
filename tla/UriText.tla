-------------------------------- MODULE UriText --------------------------------
(***************************************************************************)
(* A URI reference as its two parsers see it, after the cuts at #, ?, //   *)
(* and :, made as SplitUriReference makes them.  The backend's are the     *)
(* same but for two colons: one in the first segment after what cannot be  *)
(* a scheme, which it cuts at (see Uri), and one in a host without         *)
(* brackets, which is not modelled.                                        *)
(*                                                                         *)
(* A segment, or a host, is a sequence of symbols: a character or a whole  *)
(* escape.  A path is the sequence of what stands between its slashes, so  *)
(* "" is << <<>> >>, "/" is << <<>>, <<>> >>, and "/a/b" has three         *)
(* members.  The parts that may be absent are sequences of at most one.    *)
(***************************************************************************)
EXTENDS Integers, Sequences, SequencesExt

Absent == <<>>

\* How a port is written.
NoPort    == -1
EmptyPort == -2
BadPort   == -3

EmptyPath == << <<>> >>
RootPath  == << <<>>, <<>> >>

Dot    == <<".">>
DotDot == <<".", ".">>

\* path.front() == '/'
IsRooted(path) == Len(path) > 1 /\ path[1] = <<>>

LowerAscii(symbol) ==
  CASE symbol = "H"   -> "h"
    [] symbol = "%2F" -> "%2f"
    [] OTHER          -> symbol

LowerText(text) == [i \in DOMAIN text |-> LowerAscii(text[i])]

LowerScheme(scheme) == IF scheme = "HTTP" THEN "http" ELSE scheme

Claimed == {"http", "https"}

DefaultPort(scheme) == IF scheme = "https" THEN 443 ELSE 80

\* A base path up to and including its last slash, followed by a reference.
MergedWith(path, reference) == Front(path) \o reference
==============================================================================
