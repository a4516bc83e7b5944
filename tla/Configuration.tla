----------------------------- MODULE Configuration -----------------------------
(***************************************************************************)
(* What the environment and a resolver context say, and the configuration  *)
(* that comes of it (plugins/http-resolver/src/Configuration.cpp).         *)
(*                                                                         *)
(* A lookup is a function from the variables that are set to their texts.  *)
(* The text of a number is the sequence of its digits; that of a set of    *)
(* destinations the sequence of the ranks, in kAddressClasses, of the      *)
(* names between its commas.  Blanks around a part are already trimmed.    *)
(* The ranges of the numbers, and the defaults, are constants.             *)
(***************************************************************************)
EXTENDS Integers, Sequences, SequencesExt, TLC, CacheOptions

CONSTANTS Least, Most, Default

Refused == <<>>

AddressClasses == 1 .. 5
NotADigit      == -1

ContextVariables ==
  {"COALESCE_GAP", "MAX_REQUEST_BYTES", "CONNECT_TIMEOUT", "READ_TIMEOUT", "TOTAL_TIMEOUT",
   "MAX_RETRIES", "MAX_REDIRECTS", "DESTINATIONS"}

ConfiguredVariables ==
  ContextVariables \cup {"BLOCK_SIZE", "CACHE_BUDGET", "CACHE_DIR", "PERSISTENT_BUDGET"}

ParseCount(text, min, max) ==
  LET value == FoldLeft(LAMBDA v, digit : v * 10 + digit, 0, text)
  IN  IF text = <<>> \/ NotADigit \in Range(text) \/ value \notin min .. max
      THEN Refused ELSE <<value>>

\* An unknown name, or an empty one, refuses the whole value.
ParseDestinations(text) ==
  IF text = <<>> \/ ~(Range(text) \subseteq AddressClasses) THEN Refused ELSE <<Range(text)>>

Parsed(name, text) ==
  CASE name = "DESTINATIONS" -> ParseDestinations(text)
    [] name = "CACHE_DIR"    -> IF text = <<>> THEN Refused ELSE <<text>>
    [] OTHER                 -> ParseCount(text, Least[name], Most[name])

Refusals(lookup) == {name \in DOMAIN lookup : Parsed(name, lookup[name]) = Refused}

\* A variable that is not set, or whose text is refused, has its default.
ConfigurationFrom(lookup) ==
  [name \in ConfiguredVariables |->
     IF name \in DOMAIN lookup \ Refusals(lookup) THEN Parsed(name, lookup[name])[1]
                                                  ELSE Default[name]]

CacheOptionsFrom(configuration) ==
  [blockSize            |-> configuration["BLOCK_SIZE"],
   budgetBytes          |-> configuration["CACHE_BUDGET"],
   coalesceGapBlocks    |-> configuration["COALESCE_GAP"],
   maxRequestBytes      |-> configuration["MAX_REQUEST_BYTES"],
   bypassThresholdBytes |-> DefaultBlockSize]

\* The variables reported as adjusted: the ones normalisation would change.
Adjustments(lookup) ==
  LET options    == CacheOptionsFrom(ConfigurationFrom(lookup))
      normalized == Normalized(options)
  IN  {name \in {"BLOCK_SIZE"} : normalized.blockSize # options.blockSize}
        \cup {name \in {"CACHE_BUDGET"} : normalized.budgetBytes # options.budgetBytes}
        \cup {name \in {"COALESCE_GAP"} :
                normalized.coalesceGapBlocks # options.coalesceGapBlocks}
        \cup {name \in {"MAX_REQUEST_BYTES"} :
                normalized.maxRequestBytes # options.maxRequestBytes}

Layered(overrides, base) == overrides @@ base

------------------------------------------------------------------------------
(***************************************************************************)
(* A context's text is a sequence of entries [name, value]; an entry with  *)
(* no = in it has a name no variable has.                                  *)
(***************************************************************************)

Setting(text, name) == {i \in DOMAIN text : text[i].name = name}

\* The last entry of each variable a context may set.
Entries(text) ==
  LET names == {name \in ContextVariables : Setting(text, name) # {}}
  IN  [name \in names |-> text[Max(Setting(text, name))].value]

\* The variables whose earlier value was replaced.
Repeated(text) == {name \in ContextVariables : Cardinality(Setting(text, name)) > 1}

RECURSIVE Digits(_)
Digits(n) == IF n < 10 THEN <<n>> ELSE Append(Digits(n \div 10), n % 10)

\* DestinationsString and std::to_string: one text for one value.
CanonicalText(name, value) ==
  IF name = "DESTINATIONS" THEN SetToSortSeq(value, LAMBDA a, b : a < b) ELSE Digits(value)

\* Mutant: a refused value stays in the context, as the default it fell back to.
KeptEntries_All(entries, lookup) == DOMAIN entries

KeptEntries(entries, lookup) == DOMAIN entries \ Refusals(lookup)

\* Two things are reported as adjustments, each with its reason: a value that
\* is clamped, and a name that is set again, whatever becomes of its value.
OverridesFrom(text, base) ==
  LET entries == Entries(text)
      lookup  == Layered(entries, base)
      applied == ConfigurationFrom(lookup)
      kept    == KeptEntries(entries, lookup)
  IN  [overrides |-> [name \in kept |-> CanonicalText(name, applied[name])],
       adjusted  |-> ({"clamped"} \X (Adjustments(lookup) \cap kept))
                       \cup ({"repeated"} \X Repeated(text)),
       refused   |-> (DOMAIN entries \ kept)
                       \cup ({text[i].name : i \in DOMAIN text} \ ContextVariables)]

CanonicalContextString(overrides) ==
  LET names == SetToSeq(DOMAIN overrides)
  IN  [i \in DOMAIN names |-> [name |-> names[i], value |-> overrides[names[i]]]]

\* HttpResolver::_EffectiveConfiguration
EffectiveConfiguration(overrides, base) ==
  IF DOMAIN overrides = {} THEN ConfigurationFrom(base)
                           ELSE ConfigurationFrom(Layered(overrides, base))
==============================================================================
