-------------------------------- MODULE Contexts --------------------------------
(***************************************************************************)
(* A stage's resolver context over an environment: what the context keeps, *)
(* what it reports, and what is in force under it.                         *)
(***************************************************************************)
EXTENDS Calls, Configuration

CONSTANT ContextInput    \* [text, environment]

ContextCalls == call = "context" /\ input \in ContextInput

CreateContext == Returns("context", <<OverridesFrom(input.text, input.environment)>>)

------------------------------------------------------------------------------
\* What was last written for a variable, if it was written and can be read.
Written(name) ==
  LET at == {i \in DOMAIN input.text : input.text[i].name = name}
  IN  IF at = {} THEN Refused ELSE Parsed(name, input.text[Max(at)].value)

\* Under a context each variable has the value last written in it if a context
\* may set the variable and the value can be read, and the environment's value
\* otherwise, never the built-in default of a refused one; the context is known
\* by what is in force, so its own canonical text, read again, keeps the same
\* overrides and is refused nothing; and, unless the request ceiling was itself
\* refused, the values OverridesFrom reports as clamped are the ones clamped when
\* the context is applied.  A name that is set again is reported as adjusted too,
\* in the text it was written in and never in the canonical one.
ContextIsInForce ==
  Called("context") =>
    LET kept  == output[1].overrides
        again == OverridesFrom(CanonicalContextString(kept), input.environment)
        told  == {report[2] : report \in {a \in output[1].adjusted : a[1] = "clamped"}}
        force == EffectiveConfiguration(kept, input.environment)
    IN  /\ \A name \in ConfiguredVariables :
             force[name] = IF name \in ContextVariables /\ Written(name) # Refused
                           THEN Written(name)[1]
                           ELSE ConfigurationFrom(input.environment)[name]
        /\ again.overrides = kept
        /\ again.refused = {}
        /\ again.adjusted = {"clamped"} \X (Adjustments(Layered(kept, input.environment))
                                                \cap DOMAIN kept)
        /\ "MAX_REQUEST_BYTES" \notin output[1].refused =>
             {"clamped"} \X told = again.adjusted
==============================================================================
