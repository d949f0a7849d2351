------------------------------- MODULE SolarDay -------------------------------
(***************************************************************************)
(* One call of SolarDayProvider::getSolarDay, from the configuration to    *)
(* the times of sunrise and sunset: src/src/solar_day_provider.cpp,        *)
(* time_util.cpp, location.cpp and networking.cpp.                         *)
(*                                                                         *)
(* The answer of the location service is a sequence of tokens, each one    *)
(* byte long: a number, a comma, or anything else.  libcurl hands it over  *)
(* in chunks it chooses.                                                   *)
(***************************************************************************)
EXTENDS GeneralConfig

CONSTANTS
  Configs,        \* the configuration files considered
  Tokens,         \* what an answer is made of
  Numbers,        \* the tokens std::stod accepts
  Pages,          \* what the location service may answer
  BufferSize,     \* CURL_BUFFER_SIZE
  NumberRetries,  \* template argument of getUrlWithRetry
  Hour,           \* HOUR
  ZoneOffsets,    \* tm_gmtoff: local time minus UTC
  SunriseUTC,     \* the times the sunset library computes for a place, in UTC;
  SunsetUTC,      \* it adds the offset of the zone it is given
  Polar           \* places where the sun does not rise or set on the day

Places == Numbers \X Numbers

IsConfig(config) ==
  /\ config.latitude \in Numbers \cup {Absent, Garbage}
  /\ config.longitude \in Numbers \cup {Absent, Garbage}
  /\ config.useConfigured \in BOOLEAN \cup {Absent, Garbage}
  /\ config.sunrise \in TimeOfDay \cup {Absent, Garbage}
  /\ config.sunset \in TimeOfDay \cup {Absent, Garbage}

ASSUME SolarDayAssumption ==
  /\ Absent \notin Numbers /\ Garbage \notin Numbers
  /\ \A config \in Configs : IsConfig(config)
  /\ "," \notin Numbers
  /\ Pages \subseteq Seq(Tokens) /\ Numbers \subseteq Tokens
  /\ BufferSize \in Nat /\ NumberRetries \in Nat \ {0}
  /\ Hour \in Nat \ {0} /\ ZoneOffsets \subseteq Int
  /\ SunriseUTC \in [Places -> Int] /\ SunsetUTC \in [Places -> Int]
  /\ Polar \subseteq Places

VARIABLES
  config,               \* the configuration file
  findLocationOverHttp, \* the command's wish
  zoneOffset,           \* tm_gmtoff of the machine
  pc,
  provider,             \* config.solarDayProvider
  currentTry,           \* finished tries of getUrlWithRetry
  responsePayload,      \* what writeChunk appended in this try
  unsent,               \* what the service has yet to send in this try
  served,               \* history: the pages of the requests made
  place,                \* latitudeAndLongitude
  solarDay              \* the result

vars == <<config, findLocationOverHttp, zoneOffset, pc, provider, currentTry,
          responsePayload, unsent, served, place, solarDay>>

Init ==
  /\ config \in Configs
  /\ findLocationOverHttp \in BOOLEAN
  /\ zoneOffset \in ZoneOffsets
  /\ pc = "config"
  /\ provider = Absent
  /\ currentTry = 0
  /\ responsePayload = <<>> /\ unsent = <<>> /\ served = <<>>
  /\ place = Absent
  /\ solarDay = Absent

-------------------------------------------------------------------------------
(* The configuration. *)

LoadConfig ==
  /\ pc = "config"
  /\ provider' = Provider(config, findLocationOverHttp)
  /\ pc' = "provider"
  /\ UNCHANGED <<config, findLocationOverHttp, zoneOffset, currentTry,
                 responsePayload, unsent, served, place, solarDay>>

\* getSolarDay, for a provider that has the day.
GiveDay ==
  /\ pc = "provider" /\ provider.kind = "day"
  /\ solarDay' = provider.day
  /\ pc' = "done"
  /\ UNCHANGED <<config, findLocationOverHttp, zoneOffset, provider, currentTry,
                 responsePayload, unsent, served, place>>

\* getLatitudeAndLongitude without a search.
UseConfiguredLocation ==
  /\ pc = "provider" /\ provider.kind = "location" /\ provider.useConfigured
  /\ place' = provider.place
  /\ pc' = "compute"
  /\ UNCHANGED <<config, findLocationOverHttp, zoneOffset, provider, currentTry,
                 responsePayload, unsent, served, solarDay>>

SearchLocation ==
  /\ pc = "provider" /\ SearchesLocation(provider)
  /\ pc' = "retry"
  /\ UNCHANGED <<config, findLocationOverHttp, zoneOffset, provider, currentTry,
                 responsePayload, unsent, served, place, solarDay>>

-------------------------------------------------------------------------------
(* The request, getUrlWithRetry and getFromURL. *)

\* curl_easy_init answers null: the response code is still CURLE_OK and the
\* payload empty, which counts as an answer.
FailToInitialize ==
  /\ pc = "retry" /\ currentTry < NumberRetries
  /\ responsePayload' = <<>> /\ unsent' = <<>>
  /\ pc' = "answered"
  /\ UNCHANGED <<config, findLocationOverHttp, zoneOffset, provider, currentTry,
                 served, place, solarDay>>

\* Mutant: the payload of the last try is kept.
SendRequestKeepingPayload ==
  /\ pc = "retry" /\ currentTry < NumberRetries
  /\ \E page \in Pages : unsent' = page /\ served' = Append(served, page)
  /\ pc' = "receive"
  /\ UNCHANGED <<config, findLocationOverHttp, zoneOffset, provider, currentTry,
                 responsePayload, place, solarDay>>

\* An empty payload, and curl_easy_perform.  The service has chosen its answer.
SendRequest ==
  /\ pc = "retry" /\ currentTry < NumberRetries
  /\ responsePayload' = <<>>
  /\ \E page \in Pages : unsent' = page /\ served' = Append(served, page)
  /\ pc' = "receive"
  /\ UNCHANGED <<config, findLocationOverHttp, zoneOffset, provider, currentTry,
                 place, solarDay>>

\* writeChunk has room for a chunk and its terminating zero.
ReceiveChunk ==
  /\ pc = "receive"
  /\ \E size \in 1 .. Len(unsent) :
       /\ size + 1 <= BufferSize
       /\ responsePayload' = responsePayload \o SubSeq(unsent, 1, size)
       /\ unsent' = SubSeq(unsent, size + 1, Len(unsent))
  /\ UNCHANGED <<config, findLocationOverHttp, zoneOffset, pc, provider,
                 currentTry, served, place, solarDay>>

\* Mutant: the failed try is not counted.
FailTryUncounted ==
  /\ pc = "receive"
  /\ pc' = "retry"
  /\ UNCHANGED <<config, findLocationOverHttp, zoneOffset, provider, currentTry,
                 responsePayload, unsent, served, place, solarDay>>

\* A chunk that is too large (BufferTooSmall), or any other error of the
\* transfer: handleResponseCode answers an error for each but CURLE_OK.
FailTry ==
  /\ pc = "receive"
  /\ currentTry' = currentTry + 1
  /\ pc' = "retry"
  /\ UNCHANGED <<config, findLocationOverHttp, zoneOffset, provider,
                 responsePayload, unsent, served, place, solarDay>>

\* CURLE_OK.  Nothing looks at the status of the HTTP response, so that the page
\* of an error is an answer too.
FinishTry ==
  /\ pc = "receive" /\ unsent = <<>>
  /\ pc' = "answered"
  /\ UNCHANGED <<config, findLocationOverHttp, zoneOffset, provider, currentTry,
                 responsePayload, unsent, served, place, solarDay>>

\* Mutant: one failure more than there are tries is waited for.
GiveUpLate ==
  /\ pc = "retry" /\ currentTry > NumberRetries
  /\ place' = provider.place
  /\ pc' = "compute"
  /\ UNCHANGED <<config, findLocationOverHttp, zoneOffset, provider, currentTry,
                 responsePayload, unsent, served, solarDay>>

\* getLatitudeAndLongitude falls back to the configured location.
GiveUp ==
  /\ pc = "retry" /\ currentTry = NumberRetries
  /\ place' = provider.place
  /\ pc' = "compute"
  /\ UNCHANGED <<config, findLocationOverHttp, zoneOffset, provider, currentTry,
                 responsePayload, unsent, served, solarDay>>

-------------------------------------------------------------------------------
(* parseLatitudeAndLongitude. *)

FirstComma(text) ==
  CHOOSE i \in DOMAIN text : text[i] = "," /\ \A j \in 1 .. (i - 1) : text[j] # ","

\* std::stod converts the longest prefix that is a number, and throws when there
\* is none: before the comma, and behind it.
IsLocation(text) ==
  /\ \E i \in DOMAIN text : text[i] = ","
  /\ FirstComma(text) > 1 /\ text[1] \in Numbers
  /\ FirstComma(text) < Len(text) /\ text[FirstComma(text) + 1] \in Numbers

ParsedLocation(text) == <<text[1], text[FirstComma(text) + 1]>>

\* An answer that is not a location is not asked for again: the configured
\* location is used.
ParseAnswer ==
  /\ pc = "answered"
  /\ place' = IF IsLocation(responsePayload) THEN ParsedLocation(responsePayload)
              ELSE provider.place
  /\ pc' = "compute"
  /\ UNCHANGED <<config, findLocationOverHttp, zoneOffset, provider, currentTry,
                 responsePayload, unsent, served, solarDay>>

-------------------------------------------------------------------------------
(* getSolarDayUsingLocation. *)

\* Mutant: the offset is rounded up.
ZoneHoursRoundedUp(offset) == (offset + Hour) \div Hour

\* timeZoneOffset: whole hours, a C++ division that drops what is left.
ZoneHours(offset) == IF offset < 0 THEN - ((- offset) \div Hour) ELSE offset \div Hour

LocalTime(utc, offset) == FromSeconds(utc + ZoneHours(offset) * Hour)

\* In the far north and south the library computes NaN, and the conversion of
\* NaN to an integer is undefined: any time of day may come out.
SunTimes(somewhere, offset) ==
  IF somewhere \in Polar THEN SolarDays
  ELSE {[sunrise |-> LocalTime(SunriseUTC[somewhere], offset),
         sunset |-> LocalTime(SunsetUTC[somewhere], offset)]}

ComputeSolarDay ==
  /\ pc = "compute"
  /\ solarDay' \in SunTimes(place, zoneOffset)
  /\ pc' = "done"
  /\ UNCHANGED <<config, findLocationOverHttp, zoneOffset, provider, currentTry,
                 responsePayload, unsent, served, place>>

-------------------------------------------------------------------------------

Program ==
  \/ LoadConfig \/ GiveDay \/ UseConfiguredLocation \/ SearchLocation
  \/ FailToInitialize \/ SendRequest \/ FinishTry \/ GiveUp
  \/ ParseAnswer \/ ComputeSolarDay

\* The service sends, or the transfer fails.
Network == ReceiveChunk \/ FailTry

Next == Program \/ Network

\* The program goes on when it can.  Nothing makes the service send: the transfer
\* has no time limit.
Spec == Init /\ [][Next]_vars /\ WF_vars(Program)

-------------------------------------------------------------------------------
(* Properties. *)

\* Every variable has its type; no search makes more than three requests, and
\* every time that leaves getSolarDay is a time of day, also when the library
\* has no answer.
TypeOK ==
  /\ config \in Configs /\ findLocationOverHttp \in BOOLEAN
  /\ zoneOffset \in ZoneOffsets
  /\ pc \in {"config", "provider", "retry", "receive", "answered", "compute", "done"}
  /\ currentTry \in 0 .. NumberRetries
  /\ responsePayload \in Seq(Tokens) /\ unsent \in Seq(Tokens)
  /\ served \in Seq(Pages) /\ Len(served) <= NumberRetries
  /\ place \in Places \cup {Absent}
  /\ pc = "compute" => place \in Places
  /\ solarDay \in SolarDays \cup {Absent}
  /\ pc = "done" => solarDay \in SolarDays

Given(field) == field \notin {Absent, Garbage}

DayIsGiven == Given(config.sunrise) /\ Given(config.sunset)

LocationIsGiven == Given(config.latitude) /\ Given(config.longitude)

\* "If set, will NOT check the user's location": nobody is asked where the user
\* is by a command that does not need it, or against a complete solar day, an
\* incomplete location or use_config_file_location in the file.
AsksOnlyWhenAllowed ==
  served # <<>> =>
    /\ findLocationOverHttp
    /\ LocationIsGiven /\ ~ DayIsGiven
    /\ config.useConfigured # TRUE

\* The order of preference among the fields: a complete solar day, then a complete
\* location, then the default day, whatever the other fields hold.
FieldsDecide ==
  pc = "done" =>
    /\ DayIsGiven => solarDay = [sunrise |-> config.sunrise, sunset |-> config.sunset]
    /\ (~ DayIsGiven /\ ~ LocationIsGiven) => solarDay = DefaultDay
    /\ (~ DayIsGiven /\ LocationIsGiven) => place \in Places

\* The last request was answered in full, whatever chunks the answer came in.
Answered ==
  /\ currentTry < NumberRetries /\ served # <<>> /\ unsent = <<>>
  /\ responsePayload = served[Len(served)]

\* The location used is the one of the last answer, if that is a location, and the
\* configured one otherwise; what earlier tries left behind plays no part.
LocationIsTheLastAnswer ==
  (pc \in {"compute", "done"} /\ provider.kind = "location") =>
    place = IF Answered /\ IsLocation(served[Len(served)])
            THEN ParsedLocation(served[Len(served)]) ELSE provider.place

\* What getSolarDay may answer, for the commands that call it.
PossibleDays(source, offset) ==
  IF source.kind = "day" THEN {source.day}
  ELSE UNION {SunTimes(somewhere, offset) :
                somewhere \in {source.place} \cup
                  (IF source.useConfigured THEN {}
                   ELSE {ParsedLocation(page) : page \in {p \in Pages : IsLocation(p)}})}

\* getSolarDay answers the day of the fields, or of the configured location, or of a
\* location the service names when it may be asked.
DayIsPossible == pc = "done" => solarDay \in PossibleDays(provider, zoneOffset)

Near(time, exact, limit) ==
  FromSeconds(time - exact) < limit \/ FromSeconds(exact - time) < limit

\* Sunrise and sunset are local times, exact where the zone is whole hours from UTC, and
\* less than an hour off elsewhere.
SunTimesAreLocal ==
  (pc = "done" /\ provider.kind = "location" /\ place \notin Polar) =>
    LET limit == IF zoneOffset % Hour = 0 THEN 1 ELSE Hour
    IN  /\ Near(solarDay.sunrise, SunriseUTC[place] + zoneOffset, limit)
        /\ Near(solarDay.sunset, SunsetUTC[place] + zoneOffset, limit)

\* The search ends: only a service that neither sends nor fails holds it up.
EndsUnlessTheServiceHangs == <>(pc = "done") \/ <>[](pc = "receive")

===============================================================================
