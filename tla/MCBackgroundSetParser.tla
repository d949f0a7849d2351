----------------------- MODULE MCBackgroundSetParser -----------------------
(***************************************************************************)
(* A real day, ints of twelve bits, and three families of files: static    *)
(* sets, dynamic sets with all kinds of lists, and dynamic sets with all   *)
(* kinds of transitions.                                                   *)
(***************************************************************************)
EXTENDS BackgroundSetParser

Sun(sun) == [sign |-> "", clock |-> NoClock, sun |-> sun]

Clock(hours, minutes, seconds) ==
  [hours |-> hours, minutes |-> minutes, seconds |-> seconds]

At(clock) == [sign |-> "", clock |-> clock, sun |-> ""]

Around(sign, clock, sun) == [sign |-> sign, clock |-> clock, sun |-> sun]

HalfPast == Clock(<<1>>, <<3, 0>>, <<>>)

ReadableStrings ==
  {Sun("sunrise"), Sun("sunset"), At(HalfPast),
   At(Clock(<<2, 5>>, <<5, 9>>, <<5, 9>>)),
   At(Clock(<<4, 0, 9, 7>>, <<0, 0>>, <<>>)),
   Around("-", Clock(<<0, 8>>, <<0, 1>>, <<0, 1>>), "sunrise"),
   Around("+", Clock(<<2>>, <<0, 0>>, <<0, 0>>), "sunset"),
   Around("-", HalfPast, "sunset")}

UnreadableStrings ==
  {Sun(""), Sun("noon"), At(Clock(<<>>, <<3, 0>>, <<>>)), At(Clock(<<1>>, <<6, 0>>, <<>>)),
   At(Clock(<<1>>, <<3>>, <<>>)), At(Clock(<<1>>, <<3, 0>>, <<6, 0>>)),
   At(Clock(<<1>>, <<3, 0>>, <<5>>)), Around("+", HalfPast, ""),
   Around("", HalfPast, "sunset"), Around("-", NoClock, "sunset")}

TimeLists ==
  {Sequence(<<>>), Scalar("10:00"), DeepSequence, Map}
  \cup {Sequence(<<string>>) : string \in ReadableStrings \cup UnreadableStrings}
  \cup {Sequence(<<Sun("sunrise"), string, At(HalfPast)>>) :
          string \in ReadableStrings \cup UnreadableStrings}

TwoImages == Sequence(<<"a", "b">>)

\* The files with some of the keys of choices, and a node of its choices under each.
FilesOf(choices) ==
  FoldSet(LAMBDA key, files :
            files \cup {partial @@ (key :> node) : partial \in files, node \in choices[key]},
          {<<>>}, DOMAIN choices)

StaticFiles ==
  FilesOf([type |-> {Scalar("static")},
           image_directory |-> {Scalar("pictures"), Map},
           images |-> {TwoImages, Sequence(<<>>), Scalar("a"), DeepSequence},
           image |-> {Scalar("c"), TwoImages},
           mode |-> {Scalar("fill"), Scalar(Garbage)}])

DynamicFiles ==
  {[type |-> type, images |-> images, times |-> times, image_directory |-> Scalar("pictures")] :
     type \in {Scalar("dynamic"), Scalar(Garbage), Map},
     images \in {TwoImages, Sequence(<<>>), Map}, times \in TimeLists}
  \cup FilesOf([type |-> {Scalar("dynamic")}, images |-> {TwoImages},
                times |-> {Sequence(<<Sun("sunset")>>)},
                image_directory |-> {Scalar("pictures"), Map}])

CompleteFile ==
  [type |-> Scalar("dynamic"), images |-> TwoImages, times |-> Sequence(<<Sun("sunset")>>),
   image_directory |-> Scalar("pictures")]

TransitionFiles ==
  {CompleteFile @@ transition : transition \in
     FilesOf([transition_length |-> {Scalar(n) : n \in {0, 30, 70000, -1, Garbage}},
              number_transition_steps |-> {Scalar(0), Scalar(3), Scalar(Garbage), Map},
              in_place |-> {Scalar(TRUE), Scalar(Garbage)},
              order |-> {Scalar("random"), Scalar(Garbage)}])}

TestFiles == StaticFiles \cup DynamicFiles \cup TransitionFiles

TestSolarDay == [sunrise |-> 6 * 3600 + 90, sunset |-> 22 * 3600 + 30]

NoBackgrounds == {}

===============================================================================
