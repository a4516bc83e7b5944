--------------------------------- MODULE Calls ---------------------------------
(***************************************************************************)
(* One call of a pure function: a behaviour picks the function and its     *)
(* input, then takes the one step that computes the output.                *)
(***************************************************************************)
VARIABLES call, input, output

callVars == <<call, input, output>>

Returns(which, value) ==
  /\ call = which
  /\ output = <<>>
  /\ output' = value
  /\ UNCHANGED <<call, input>>

Called(which) == call = which /\ output # <<>>
==============================================================================
