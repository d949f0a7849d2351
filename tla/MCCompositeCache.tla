--------------------------- MODULE MCCompositeCache ---------------------------
(***************************************************************************)
(* Transitions between a few images, for one or two instances.             *)
(***************************************************************************)
EXTENDS CompositeCache, TLC

\* Instances are interchangeable; only for runs without liveness properties.
InstanceSymmetry == Permutations(Instances)

Directory(parent) == [parent |-> parent, base |-> <<"set">>]

Image(stem, extension) == [stem |-> stem, extension |-> extension]

Fade(parent, start, end, steps, inPlace) ==
  [start |-> start, end |-> end, steps |-> steps, inPlace |-> inPlace,
   dir |-> Directory(parent)]

A == Image(<<"a">>, "png")
B == Image(<<"b">>, "")

\* There and back again, the way back in place.
ThereAndBack ==
  {Fade("home", A, B, 2, FALSE), Fade("home", B, A, 1, TRUE)}

\* The same, with a way back in two steps that share the temporary file.
ThereAndBackInSteps ==
  {Fade("home", A, B, 2, FALSE), Fade("home", B, A, 2, TRUE)}

Forth == {Fade("home", A, B, 2, FALSE)}

\* One instance that is not killed is undisturbed: its steps have names of their own.
ASSUME UndisturbedAssumption ==
  Cardinality(Instances) = 1 /\ MaxCrashes = 0 => Undisturbed

===============================================================================
