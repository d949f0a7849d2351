------------------------------ MODULE MCCommands ------------------------------
(***************************************************************************)
(* Every command, two background sets of every kind, and a third one that  *)
(* is refused; configurations with and without a location and scripts.     *)
(***************************************************************************)
EXTENDS Commands

CommandLine(kind, name) == [kind |-> kind, name |-> name]

TestCommandLines ==
  {CommandLine(kind, Absent) :
     kind \in {"error", "exception", "none", "help", "list", "validate", "cache", "random",
               "random image"}}
  \cup {CommandLine(kind, name) : kind \in {"show", "info"}, name \in {"a", "nothing", "a.jpg"}}

TestDefaultDay == [sunrise |-> 1, sunset |-> 4]

TestHome == <<"home">>

TestLower == [n \in {"wallutils", "WallUtils", "setter", "Setter", "hook", "home", "~"} |->
                CASE n = "WallUtils" -> "wallutils" [] n = "Setter" -> "setter" [] OTHER -> n]

TestExistingPaths == {<<"setter">>, <<"hook">>, <<"home", "setter">>}

ConfigOf(latitude, method, hookScript) ==
  [latitude |-> latitude, longitude |-> latitude, useConfigured |-> Absent,
   sunrise |-> Absent, sunset |-> Absent, method |-> method, hookScript |-> hookScript]

TestDefaultConfig == ConfigOf(Absent, Wallutils, Absent)

TestConfigs ==
  {TestDefaultConfig,
   ConfigOf("1", <<"setter">>, <<"~", "hook">>), ConfigOf("1", <<"WallUtils">>, <<"hook">>),
   ConfigOf("1", Absent, Absent),
   ConfigOf(Absent, <<"Setter">>, <<"hook">>), ConfigOf(Absent, <<"~", "setter">>, <<"hook">>)}

Set(parse, images, offered) == [parse |-> parse, images |-> images, offered |-> offered]

SetsWith(image) ==
  {Set("static", {image}, {image}), Set("static", {image}, {}), Set("static", {}, {}),
   Set("dynamic", {image}, {image}), Set("dynamic", {image}, Throwing),
   Set("refused", {}, {image}), Set("refused", {}, {}), Set("throws", {}, Throwing),
   Set("throws", {}, {})}

TestSetFiles ==
  {[name \in {"a", "b", "c"} |->
      CASE name = "a" -> a [] name = "b" -> b [] OTHER -> Set("refused", {}, {})] :
     a \in SetsWith("one"), b \in SetsWith("two")}

===============================================================================
