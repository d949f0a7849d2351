---------------------------- MODULE GeneralConfig ----------------------------
(***************************************************************************)
(* The general configuration: what loadConfigFromYAML (src/src/config.cpp) *)
(* makes of the fields of the file.                                        *)
(*                                                                         *)
(* A configuration file is a record of its fields.  A field is Absent, or  *)
(* Garbage when yamlStringTo cannot convert its text, or the value of the  *)
(* text.  Absent is also the empty std::optional.                          *)
(***************************************************************************)
EXTENDS TimeFromMidnight, Sequences

CONSTANTS Absent,          \* the key is not in the file
          Garbage,         \* a text yamlStringTo answers nullopt for
          DefaultDay,      \* ConfigDefaults::solarDay
          Home,            \* getHomeDirectory(), a sequence of directories
          Lower,           \* normalize, on the names in a path
          ExistingPaths    \* what std::filesystem::exists answers true for

SolarDays == [sunrise : TimeOfDay, sunset : TimeOfDay]

ASSUME ConfigAssumption ==
  /\ DefaultDay \in SolarDays
  /\ Absent # Garbage
  /\ Absent \notin TimeOfDay /\ Garbage \notin TimeOfDay
  /\ Absent \notin BOOLEAN /\ Garbage \notin BOOLEAN

-------------------------------------------------------------------------------
(* generalConfigParseOrUseDefault, for an optional and for any other type. *)

ParseOptional(field) == IF field = Garbage THEN Absent ELSE field

ParseOrUseDefault(field, default) ==
  IF field \in {Absent, Garbage} THEN default ELSE field

-------------------------------------------------------------------------------
(* Paths are sequences of names. *)

\* expandPath.
ExpandPath(path) ==
  IF path # <<>> /\ Head(path) = "~" THEN Home \o Tail(path) ELSE path

HookScript(config) ==
  IF ParseOptional(config.hookScript) = Absent THEN Absent
  ELSE ExpandPath(config.hookScript)

Wallutils == <<"wallutils">>

\* Mutant: any path will do.
ParseMethodUnchecked(text) == [i \in DOMAIN text |-> Lower[text[i]]]

\* yamlStringTo<BackgroundSetMethod>: the text is put into lower case before it
\* is looked for, the path that was found is the one in lower case, and ~ is
\* not expanded.
ParseMethod(text) ==
  LET configString == [i \in DOMAIN text |-> Lower[text[i]]]
  IN  IF configString = Wallutils \/ configString \in ExistingPaths
      THEN configString ELSE Garbage

Method(config) ==
  IF config.method = Absent THEN Wallutils
  ELSE ParseOrUseDefault(ParseMethod(config.method), Wallutils)

-------------------------------------------------------------------------------
(* Where sunrise and sunset come from. *)

DayProvider(day) == [kind |-> "day", day |-> day]

LocationProvider(place, useConfigured) ==
  [kind |-> "location", place |-> place, useConfigured |-> useConfigured]

\* Mutant: the caller's wish not to search is ignored.
ProviderAlwaysOverHttp(config, findLocationOverHttp) ==
  LET latitude == ParseOptional(config.latitude)
      longitude == ParseOptional(config.longitude)
      sunrise == ParseOptional(config.sunrise)
      sunset == ParseOptional(config.sunset)
  IN  IF sunrise # Absent /\ sunset # Absent
      THEN DayProvider([sunrise |-> sunrise, sunset |-> sunset])
      ELSE IF latitude # Absent /\ longitude # Absent
           THEN LocationProvider(<<latitude, longitude>>,
                                 ParseOptional(config.useConfigured) = TRUE)
           ELSE DayProvider(DefaultDay)

\* createSolarDayProviderFromParsedFields, with the argument loadConfigFromYAML
\* gives it when the location is not to be found over HTTP.  A complete solar
\* day is preferred to a complete location; half of one counts as none.
Provider(config, findLocationOverHttp) ==
  LET latitude == ParseOptional(config.latitude)
      longitude == ParseOptional(config.longitude)
      sunrise == ParseOptional(config.sunrise)
      sunset == ParseOptional(config.sunset)
      useConfigured == IF findLocationOverHttp
                       THEN ParseOptional(config.useConfigured) ELSE TRUE
  IN  IF sunrise # Absent /\ sunset # Absent
      THEN DayProvider([sunrise |-> sunrise, sunset |-> sunset])
      ELSE IF latitude # Absent /\ longitude # Absent
           THEN LocationProvider(<<latitude, longitude>>, useConfigured = TRUE)
           ELSE DayProvider(DefaultDay)

\* getSolarDay has to ask the location service.
SearchesLocation(provider) == provider.kind = "location" /\ ~ provider.useConfigured

===============================================================================
