---------------------------- MODULE SolarDay_proofs ----------------------------
(***************************************************************************)
(* Proofs about one call of getSolarDay, for every configuration, every    *)
(* answer of the location service and every division of it into chunks.    *)
(***************************************************************************)
EXTENDS SolarDay, SequenceTheorems, TLAPS

-------------------------------------------------------------------------------
(* The operators the search is made of. *)

\* Reducing any number of seconds gives a time of day.
LEMMA FromSecondsType ==
  ASSUME NEW s \in Int
  PROVE  FromSeconds(s) \in TimeOfDay
BY DayAssumption DEF FromSeconds, TimeOfDay

\* A provider has a solar day, or a place and whether to use it.
LEMMA ProviderType ==
  ASSUME NEW c \in Configs, NEW f \in BOOLEAN
  PROVE  LET p == Provider(c, f)
         IN  \/ p.kind = "day" /\ p.day \in SolarDays
             \/ /\ p.kind = "location"
                /\ p.place \in Places /\ p.useConfigured \in BOOLEAN
<1> DEFINE sunrise == ParseOptional(c.sunrise)
           sunset == ParseOptional(c.sunset)
           latitude == ParseOptional(c.latitude)
           longitude == ParseOptional(c.longitude)
           use == (IF f THEN ParseOptional(c.useConfigured) ELSE TRUE) = TRUE
<1>1. /\ sunrise \in TimeOfDay \cup {Absent} /\ sunset \in TimeOfDay \cup {Absent}
      /\ latitude \in Numbers \cup {Absent} /\ longitude \in Numbers \cup {Absent}
  BY SolarDayAssumption DEF IsConfig, ParseOptional
<1>2. Provider(c, f) =
        IF sunrise # Absent /\ sunset # Absent
        THEN [kind |-> "day", day |-> [sunrise |-> sunrise, sunset |-> sunset]]
        ELSE IF latitude # Absent /\ longitude # Absent
             THEN [kind |-> "location", place |-> <<latitude, longitude>>,
                   useConfigured |-> use]
             ELSE [kind |-> "day", day |-> DefaultDay]
  BY DEF Provider, DayProvider, LocationProvider
<1>3. use \in BOOLEAN
  OBVIOUS
<1> HIDE DEF sunrise, sunset, latitude, longitude, use
<1>4. CASE sunrise # Absent /\ sunset # Absent
  BY <1>1, <1>2, <1>4 DEF SolarDays
<1>5. CASE ~ (sunrise # Absent /\ sunset # Absent) /\ latitude # Absent /\ longitude # Absent
  <2>1. <<latitude, longitude>> \in Places
    BY <1>1, <1>5 DEF Places
  <2>2. QED
    BY <2>1, <1>2, <1>3, <1>5
<1>6. CASE /\ ~ (sunrise # Absent /\ sunset # Absent)
           /\ ~ (latitude # Absent /\ longitude # Absent)
  BY <1>2, <1>6, ConfigAssumption
<1>7. QED
  BY <1>4, <1>5, <1>6

\* A text that is a location names a place.
LEMMA ParsedLocationType ==
  ASSUME NEW text, IsLocation(text)
  PROVE  ParsedLocation(text) \in Places
BY DEF IsLocation, ParsedLocation, Places

\* The empty text is no location.
LEMMA EmptyIsNoLocation == ~ IsLocation(<<>>)
BY DEF IsLocation

\* Whatever the library computes, or does not, comes out as a time of day.
LEMMA SunTimesType ==
  ASSUME NEW p \in Places, NEW offset \in ZoneOffsets
  PROVE  SunTimes(p, offset) \subseteq SolarDays
<1>1. SunriseUTC[p] \in Int /\ SunsetUTC[p] \in Int /\ offset \in Int /\ Hour \in Nat \ {0}
  BY SolarDayAssumption
<1>2. ZoneHours(offset) \in Int
  BY <1>1 DEF ZoneHours
<1>3. ZoneHours(offset) * Hour \in Int
  BY <1>1, <1>2
<1>4. /\ SunriseUTC[p] + ZoneHours(offset) * Hour \in Int
      /\ SunsetUTC[p] + ZoneHours(offset) * Hour \in Int
  BY <1>1, <1>3
<1>5. LocalTime(SunriseUTC[p], offset) \in TimeOfDay /\ LocalTime(SunsetUTC[p], offset) \in TimeOfDay
  BY <1>4, FromSecondsType DEF LocalTime
<1>6. QED
  BY <1>5 DEF SunTimes, SolarDays

\* Appending two pieces one after the other is appending both at once.
LEMMA PiecesJoin ==
  \A a, b, c \in Seq(Tokens) : (a \o b) \o c = a \o (b \o c)
<1>1. SUFFICES ASSUME NEW a \in Seq(Tokens), NEW b \in Seq(Tokens), NEW c \in Seq(Tokens)
               PROVE  (a \o b) \o c = a \o (b \o c)
  OBVIOUS
<1>2. QED
  BY ConcatAssociative

\* A chunk moves from what is unsent to what was received.
LEMMA ChunkMoves ==
  ASSUME NEW received \in Seq(Tokens), NEW rest \in Seq(Tokens), NEW size \in 1 .. Len(rest)
  PROVE  /\ SubSeq(rest, 1, size) \in Seq(Tokens)
         /\ SubSeq(rest, size + 1, Len(rest)) \in Seq(Tokens)
         /\ received \o SubSeq(rest, 1, size) \in Seq(Tokens)
         /\ (received \o SubSeq(rest, 1, size)) \o SubSeq(rest, size + 1, Len(rest))
              = received \o rest
<1> DEFINE chunk == SubSeq(rest, 1, size)
           left == SubSeq(rest, size + 1, Len(rest))
<1>1. Len(rest) \in Nat /\ \A i \in 1 .. Len(rest) : rest[i] \in Tokens
  BY LenProperties, ElementOfSeq
<1>2. chunk \in Seq(Tokens)
  BY <1>1, SubSeqProperties
<1>3. left \in Seq(Tokens)
  BY <1>1, SubSeqProperties
<1>4. chunk \o left = rest
  <2>1. SubSeq(rest, 1, size) \o SubSeq(rest, size + 1, Len(rest)) = SubSeq(rest, 1, Len(rest))
    BY <1>1, ConcatAdjacentSubSeq
  <2>2. QED
    BY <2>1, SubSeqFull
<1> HIDE DEF chunk, left
<1>5. (received \o chunk) \o left = received \o rest
  <2>1. \A a, b, c \in Seq(Tokens) : (a \o b) \o c = a \o (b \o c)
    BY PiecesJoin
  <2>2. (received \o chunk) \o left = received \o (chunk \o left)
    BY <2>1, <1>2, <1>3, Zenon
  <2>3. QED
    BY <2>2, <1>4
<1>6. received \o chunk \in Seq(Tokens)
  BY <1>2, ConcatProperties
<1>7. QED
  BY <1>2, <1>3, <1>5, <1>6 DEF chunk, left

-------------------------------------------------------------------------------
(* The inductive invariant: what is counted, who is asked, what is received. *)

\* The provider is made once, and the service asked only if it says so.
Asking ==
  /\ provider = IF pc = "config" THEN Absent ELSE Provider(config, findLocationOverHttp)
  /\ pc \in {"retry", "receive", "answered"} => SearchesLocation(provider)
  /\ pc = "compute" => provider.kind = "location"
  /\ served # <<>> => pc # "config" /\ SearchesLocation(provider)

\* Each request so far has failed, but for the one that is going on.
Counting ==
  /\ pc \in {"config", "provider"} => served = <<>> /\ currentTry = 0
  /\ pc = "retry" => Len(served) = currentTry
  /\ pc = "receive" => Len(served) = currentTry + 1 /\ currentTry < NumberRetries
  /\ pc = "answered" => currentTry < NumberRetries

\* What was received and what is unsent are together the last page.
Transfer ==
  /\ pc = "receive" => served # <<>> /\ responsePayload \o unsent = served[Len(served)]
  /\ pc = "answered" =>
       /\ unsent = <<>>
       /\ \/ responsePayload = <<>>
          \/ served # <<>> /\ responsePayload = served[Len(served)]

\* Where the day at the end comes from.
DayFollows ==
  pc = "done" =>
    \/ provider.kind = "day" /\ solarDay = provider.day
    \/ provider.kind = "location" /\ place \in Places /\ solarDay \in SunTimes(place, zoneOffset)

IInv == TypeOK /\ Asking /\ Counting /\ Transfer

\* The invariant holds before the configuration is read.
LEMMA InvInit == Init => IInv
<1> SUFFICES ASSUME Init PROVE IInv
  OBVIOUS
<1>1. Len(served) = 0 /\ served \in Seq(Pages)
  BY EmptySeq DEF Init
<1>2. TypeOK
  <2> NumberRetries \in Nat \ {0}
    BY SolarDayAssumption
  <2>1. <<>> \in Seq(Tokens) /\ 0 \in 0 .. NumberRetries /\ 0 <= NumberRetries
    BY EmptySeq
  <2>2. /\ responsePayload \in Seq(Tokens) /\ unsent \in Seq(Tokens)
        /\ currentTry \in 0 .. NumberRetries /\ Len(served) <= NumberRetries
    BY <1>1, <2>1 DEF Init
  <2>3. QED
    BY <1>1, <2>2 DEF Init, TypeOK
<1>3. Asking /\ Counting /\ Transfer
  BY DEF Init, Asking, Counting, Transfer
<1>4. QED
  BY <1>2, <1>3 DEF IInv

\* The provider of a state behind the configuration.
LEMMA ProviderOfState ==
  ASSUME TypeOK, Asking, pc # "config"
  PROVE  \/ provider.kind = "day" /\ provider.day \in SolarDays
         \/ /\ provider.kind = "location"
            /\ provider.place \in Places /\ provider.useConfigured \in BOOLEAN
<1>1. config \in Configs /\ findLocationOverHttp \in BOOLEAN
  BY DEF TypeOK
<1>2. provider = Provider(config, findLocationOverHttp)
  BY DEF Asking
<1>3. QED
  BY <1>1, <1>2, ProviderType

\* No step makes another provider, or asks where the provider does not say so.
LEMMA AskingNext == TypeOK /\ Asking /\ Counting /\ [Next]_vars => Asking'
<1> SUFFICES ASSUME TypeOK, Asking, Counting, [Next]_vars PROVE Asking'
  OBVIOUS
<1>1. CASE LoadConfig
  BY <1>1 DEF LoadConfig, Asking, Counting
<1>2. CASE GiveDay
  BY <1>2 DEF GiveDay, Asking
<1>3. CASE UseConfiguredLocation
  BY <1>3 DEF UseConfiguredLocation, Asking
<1>4. CASE SearchLocation
  BY <1>4 DEF SearchLocation, Asking
<1>5. CASE FailToInitialize
  BY <1>5 DEF FailToInitialize, Asking
<1>6. CASE SendRequest
  BY <1>6 DEF SendRequest, Asking
<1>7. CASE FinishTry
  BY <1>7 DEF FinishTry, Asking
<1>8. CASE GiveUp
  BY <1>8 DEF GiveUp, Asking, SearchesLocation
<1>9. CASE ParseAnswer
  BY <1>9 DEF ParseAnswer, Asking, SearchesLocation
<1>10. CASE ComputeSolarDay
  BY <1>10 DEF ComputeSolarDay, Asking
<1>11. CASE ReceiveChunk
  BY <1>11 DEF ReceiveChunk, Asking
<1>12. CASE FailTry
  BY <1>12 DEF FailTry, Asking
<1>13. CASE UNCHANGED vars
  BY <1>13 DEF vars, Asking
<1>14. QED
  BY <1>1, <1>2, <1>3, <1>4, <1>5, <1>6, <1>7, <1>8, <1>9, <1>10, <1>11, <1>12, <1>13
     DEF Next, Program, Network

\* Every request is either the one going on or a counted failure.
LEMMA CountingNext == TypeOK /\ Counting /\ [Next]_vars => Counting'
<1> SUFFICES ASSUME TypeOK, Counting, [Next]_vars PROVE Counting'
  OBVIOUS
<1>1. CASE LoadConfig
  BY <1>1 DEF LoadConfig, Counting
<1>2. CASE GiveDay
  BY <1>2 DEF GiveDay, Counting
<1>3. CASE UseConfiguredLocation
  BY <1>3 DEF UseConfiguredLocation, Counting
<1>4. CASE SearchLocation
  BY <1>4 DEF SearchLocation, Counting
<1>5. CASE FailToInitialize
  BY <1>5 DEF FailToInitialize, Counting
<1>6. CASE SendRequest
  BY <1>6 DEF SendRequest, Counting, TypeOK
<1>7. CASE FinishTry
  BY <1>7 DEF FinishTry, Counting
<1>8. CASE GiveUp
  BY <1>8 DEF GiveUp, Counting
<1>9. CASE ParseAnswer
  BY <1>9 DEF ParseAnswer, Counting
<1>10. CASE ComputeSolarDay
  BY <1>10 DEF ComputeSolarDay, Counting
<1>11. CASE ReceiveChunk
  BY <1>11 DEF ReceiveChunk, Counting
<1>12. CASE FailTry
  BY <1>12 DEF FailTry, Counting
<1>13. CASE UNCHANGED vars
  BY <1>13 DEF vars, Counting
<1>14. QED
  BY <1>1, <1>2, <1>3, <1>4, <1>5, <1>6, <1>7, <1>8, <1>9, <1>10, <1>11, <1>12, <1>13
     DEF Next, Program, Network

\* Appending one more page to what was served.
LEMMA ServedGrows ==
  ASSUME NEW pages \in Seq(Pages), NEW page \in Pages
  PROVE  /\ Append(pages, page) \in Seq(Pages)
         /\ Len(Append(pages, page)) = Len(pages) + 1
         /\ Append(pages, page)[Len(Append(pages, page))] = page
         /\ Append(pages, page) # <<>>
         /\ page \in Seq(Tokens)
<1>1. /\ Append(pages, page) \in Seq(Pages)
      /\ Len(Append(pages, page)) = Len(pages) + 1
      /\ Append(pages, page)[Len(pages) + 1] = page
  BY AppendProperties
<1>2. Append(pages, page) # <<>>
  BY <1>1, EmptySeq, LenProperties
<1>3. page \in Seq(Tokens)
  BY SolarDayAssumption
<1>4. QED
  BY <1>1, <1>2, <1>3

\* Nothing received and the whole page unsent, or everything received.
LEMMA NothingMoves ==
  ASSUME NEW text \in Seq(Tokens)
  PROVE  <<>> \o text = text /\ text \o <<>> = text
BY ConcatSimplifications

\* No step loses or repeats a piece of an answer.
LEMMA TransferNext == TypeOK /\ Transfer /\ [Next]_vars => Transfer'
<1> SUFFICES ASSUME TypeOK, Transfer, [Next]_vars PROVE Transfer'
  OBVIOUS
<1>0. /\ responsePayload \in Seq(Tokens) /\ unsent \in Seq(Tokens)
      /\ served \in Seq(Pages)
  BY DEF TypeOK
<1>1. CASE LoadConfig
  BY <1>1 DEF LoadConfig, Transfer
<1>2. CASE GiveDay
  BY <1>2 DEF GiveDay, Transfer
<1>3. CASE UseConfiguredLocation
  BY <1>3 DEF UseConfiguredLocation, Transfer
<1>4. CASE SearchLocation
  BY <1>4 DEF SearchLocation, Transfer
<1>5. CASE FailToInitialize
  BY <1>5 DEF FailToInitialize, Transfer
<1>6. CASE SendRequest
  <2>1. PICK page \in Pages : unsent' = page /\ served' = Append(served, page)
    BY <1>6 DEF SendRequest
  <2>2. responsePayload' = <<>> /\ pc' = "receive"
    BY <1>6 DEF SendRequest
  <2>3. /\ served' # <<>> /\ served'[Len(served')] = page /\ page \in Seq(Tokens)
    BY <2>1, <1>0, ServedGrows
  <2>4. responsePayload' \o unsent' = page
    BY <2>1, <2>2, <2>3, NothingMoves
  <2>5. QED
    BY <2>2, <2>3, <2>4 DEF Transfer
<1>7. CASE FinishTry
  <2>1. /\ pc = "receive" /\ unsent = <<>> /\ pc' = "answered"
        /\ unsent' = unsent /\ responsePayload' = responsePayload /\ served' = served
    BY <1>7 DEF FinishTry
  <2>2. responsePayload = served[Len(served)] /\ served # <<>>
    BY <2>1, <1>0, NothingMoves DEF Transfer
  <2>3. QED
    BY <2>1, <2>2 DEF Transfer
<1>8. CASE GiveUp
  BY <1>8 DEF GiveUp, Transfer
<1>9. CASE ParseAnswer
  BY <1>9 DEF ParseAnswer, Transfer
<1>10. CASE ComputeSolarDay
  BY <1>10 DEF ComputeSolarDay, Transfer
<1>11. CASE ReceiveChunk
  <2>1. PICK size \in 1 .. Len(unsent) :
          /\ responsePayload' = responsePayload \o SubSeq(unsent, 1, size)
          /\ unsent' = SubSeq(unsent, size + 1, Len(unsent))
    BY <1>11 DEF ReceiveChunk
  <2>2. pc = "receive" /\ pc' = pc /\ served' = served
    BY <1>11 DEF ReceiveChunk
  <2>3. responsePayload' \o unsent' = responsePayload \o unsent
    BY <2>1, <1>0, ChunkMoves
  <2>4. QED
    BY <2>2, <2>3 DEF Transfer
<1>12. CASE FailTry
  BY <1>12 DEF FailTry, Transfer
<1>13. CASE UNCHANGED vars
  BY <1>13 DEF vars, Transfer
<1>14. QED
  BY <1>1, <1>2, <1>3, <1>4, <1>5, <1>6, <1>7, <1>8, <1>9, <1>10, <1>11, <1>12, <1>13
     DEF Next, Program, Network

\* Every step preserves the types.
LEMMA TypeNext == TypeOK /\ Asking /\ Counting /\ [Next]_vars => TypeOK'
<1> SUFFICES ASSUME TypeOK, Asking, Counting, [Next]_vars PROVE TypeOK'
  OBVIOUS
<1>0. /\ responsePayload \in Seq(Tokens) /\ unsent \in Seq(Tokens)
      /\ served \in Seq(Pages) /\ Len(served) \in Nat
      /\ currentTry \in 0 .. NumberRetries /\ NumberRetries \in Nat \ {0}
  <2>1. NumberRetries \in Nat \ {0}
    BY SolarDayAssumption
  <2>2. QED
    BY <2>1, LenProperties DEF TypeOK
<1>00. <<>> \in Seq(Tokens)
  BY EmptySeq
<1>1. CASE LoadConfig
  BY <1>1 DEF LoadConfig, TypeOK
<1>2. CASE GiveDay
  <2>1. provider.day \in SolarDays
    BY <1>2, ProviderOfState DEF GiveDay
  <2>2. QED
    BY <1>2, <2>1 DEF GiveDay, TypeOK
<1>3. CASE UseConfiguredLocation
  <2>1. provider.place \in Places
    BY <1>3, ProviderOfState DEF UseConfiguredLocation
  <2>2. QED
    BY <1>3, <2>1 DEF UseConfiguredLocation, TypeOK
<1>4. CASE SearchLocation
  BY <1>4 DEF SearchLocation, TypeOK
<1>5. CASE FailToInitialize
  BY <1>5, <1>00 DEF FailToInitialize, TypeOK
<1>6. CASE SendRequest
  <2>1. PICK page \in Pages : unsent' = page /\ served' = Append(served, page)
    BY <1>6 DEF SendRequest
  <2>2. /\ unsent' \in Seq(Tokens) /\ served' \in Seq(Pages)
        /\ Len(served') = Len(served) + 1
    BY <2>1, <1>0, ServedGrows
  <2>3. Len(served') <= NumberRetries
    BY <2>2, <1>6, <1>0 DEF SendRequest, Counting
  <2>4. QED
    BY <1>6, <2>2, <2>3, <1>00 DEF SendRequest, TypeOK
<1>7. CASE FinishTry
  BY <1>7 DEF FinishTry, TypeOK
<1>8. CASE GiveUp
  <2>1. provider.place \in Places
    BY <1>8, ProviderOfState DEF GiveUp, Asking, SearchesLocation
  <2>2. QED
    BY <1>8, <2>1 DEF GiveUp, TypeOK
<1>9. CASE ParseAnswer
  <2>1. provider.place \in Places
    BY <1>9, ProviderOfState DEF ParseAnswer, Asking, SearchesLocation
  <2>2. place' \in Places
    BY <1>9, <2>1, ParsedLocationType DEF ParseAnswer
  <2>3. QED
    BY <1>9, <2>2 DEF ParseAnswer, TypeOK
<1>10. CASE ComputeSolarDay
  <2>1. place \in Places /\ zoneOffset \in ZoneOffsets
    BY <1>10 DEF ComputeSolarDay, TypeOK
  <2>2. solarDay' \in SolarDays
    BY <1>10, <2>1, SunTimesType DEF ComputeSolarDay
  <2>3. QED
    BY <1>10, <2>2 DEF ComputeSolarDay, TypeOK
<1>11. CASE ReceiveChunk
  <2>1. PICK size \in 1 .. Len(unsent) :
          /\ responsePayload' = responsePayload \o SubSeq(unsent, 1, size)
          /\ unsent' = SubSeq(unsent, size + 1, Len(unsent))
    BY <1>11 DEF ReceiveChunk
  <2>2. responsePayload' \in Seq(Tokens) /\ unsent' \in Seq(Tokens)
    BY <2>1, <1>0, ChunkMoves
  <2>3. QED
    BY <1>11, <2>2 DEF ReceiveChunk, TypeOK
<1>12. CASE FailTry
  <2>1. currentTry' \in 0 .. NumberRetries
    BY <1>12, <1>0 DEF FailTry, Counting
  <2>2. QED
    BY <1>12, <2>1 DEF FailTry, TypeOK
<1>13. CASE UNCHANGED vars
  BY <1>13 DEF vars, TypeOK
<1>14. QED
  BY <1>1, <1>2, <1>3, <1>4, <1>5, <1>6, <1>7, <1>8, <1>9, <1>10, <1>11, <1>12, <1>13
     DEF Next, Program, Network

\* Where the location and the day of a state come from.
Origins == LocationIsTheLastAnswer /\ DayFollows

\* The location and the day are settled once, from the last answer or the file.
LEMMA OriginsNext == TypeOK /\ Asking /\ Counting /\ Transfer /\ Origins /\ [Next]_vars => Origins'
<1> SUFFICES ASSUME TypeOK, Asking, Counting, Transfer, Origins, [Next]_vars PROVE Origins'
  OBVIOUS
<1>0. currentTry \in 0 .. NumberRetries /\ NumberRetries \in Nat \ {0}
  BY SolarDayAssumption DEF TypeOK
<1> USE DEF Origins
<1>1. CASE LoadConfig
  BY <1>1 DEF LoadConfig, LocationIsTheLastAnswer, DayFollows
<1>2. CASE GiveDay
  BY <1>2 DEF GiveDay, LocationIsTheLastAnswer, DayFollows
<1>3. CASE UseConfiguredLocation
  <2>1. served' = <<>> /\ pc' = "compute" /\ place' = (provider.place)'
    BY <1>3 DEF UseConfiguredLocation, Counting
  <2>2. QED
    BY <2>1 DEF LocationIsTheLastAnswer, DayFollows, Answered
<1>4. CASE SearchLocation
  BY <1>4 DEF SearchLocation, LocationIsTheLastAnswer, DayFollows
<1>5. CASE FailToInitialize
  BY <1>5 DEF FailToInitialize, LocationIsTheLastAnswer, DayFollows
<1>6. CASE SendRequest
  BY <1>6 DEF SendRequest, LocationIsTheLastAnswer, DayFollows
<1>7. CASE FinishTry
  BY <1>7 DEF FinishTry, LocationIsTheLastAnswer, DayFollows
<1>8. CASE GiveUp
  <2>1. currentTry' = NumberRetries /\ pc' = "compute" /\ place' = (provider.place)'
    BY <1>8 DEF GiveUp
  <2>2. QED
    BY <2>1, <1>0 DEF LocationIsTheLastAnswer, DayFollows, Answered
<1>9. CASE ParseAnswer
  <2>1. /\ pc = "answered" /\ pc' = "compute"
        /\ place' = IF IsLocation(responsePayload) THEN ParsedLocation(responsePayload)
                    ELSE provider.place
        /\ UNCHANGED <<provider, currentTry, responsePayload, unsent, served>>
    BY <1>9 DEF ParseAnswer
  <2>2. unsent = <<>> /\ currentTry < NumberRetries
    BY <2>1 DEF Transfer, Counting
  <2>3. CASE responsePayload = <<>>
    <3>1. place' = provider.place
      BY <2>1, <2>3, EmptyIsNoLocation
    <3>2. ~ (Answered' /\ IsLocation(served[Len(served)])')
      BY <2>1, <2>3, EmptyIsNoLocation DEF Answered
    <3>3. QED
      BY <2>1, <3>1, <3>2 DEF LocationIsTheLastAnswer, DayFollows
  <2>4. CASE served # <<>> /\ responsePayload = served[Len(served)]
    <3>1. Answered'
      BY <2>1, <2>2, <2>4 DEF Answered
    <3>2. QED
      BY <2>1, <2>4, <3>1 DEF LocationIsTheLastAnswer, DayFollows
  <2>5. QED
    BY <2>1, <2>3, <2>4 DEF Transfer
<1>10. CASE ComputeSolarDay
  <2>1. /\ pc = "compute" /\ solarDay' \in SunTimes(place, zoneOffset)
        /\ UNCHANGED <<provider, currentTry, responsePayload, unsent, served, place, zoneOffset>>
    BY <1>10 DEF ComputeSolarDay
  <2>2. provider.kind = "location" /\ place \in Places
    BY <2>1 DEF Asking, TypeOK
  <2>3. DayFollows'
    BY <2>1, <2>2 DEF DayFollows
  <2>4. LocationIsTheLastAnswer'
    BY <2>1, <2>2 DEF LocationIsTheLastAnswer, Answered
  <2>5. QED
    BY <2>3, <2>4
<1>11. CASE ReceiveChunk
  BY <1>11 DEF ReceiveChunk, LocationIsTheLastAnswer, DayFollows
<1>12. CASE FailTry
  BY <1>12 DEF FailTry, LocationIsTheLastAnswer, DayFollows
<1>13. CASE UNCHANGED vars
  BY <1>13 DEF vars, LocationIsTheLastAnswer, DayFollows, Answered
<1>14. QED
  BY <1>1, <1>2, <1>3, <1>4, <1>5, <1>6, <1>7, <1>8, <1>9, <1>10, <1>11, <1>12, <1>13
     DEF Next, Program, Network

\* The whole is inductive.
LEMMA InvNext == IInv /\ Origins /\ [Next]_vars => (IInv /\ Origins)'
BY TypeNext, AskingNext, CountingNext, TransferNext, OriginsNext DEF IInv

\* Nothing is settled at first.
LEMMA OriginsInit == Init => Origins
BY DEF Init, Origins, LocationIsTheLastAnswer, DayFollows

-------------------------------------------------------------------------------
(* What the provider owes to each field. *)

\* The service may be asked only with the caller's leave, for a complete location
\* and no complete solar day, and not against use_config_file_location.
LEMMA ProviderAsks ==
  ASSUME NEW c \in Configs, NEW f \in BOOLEAN, SearchesLocation(Provider(c, f))
  PROVE  /\ f
         /\ Given(c.latitude) /\ Given(c.longitude)
         /\ ~ (Given(c.sunrise) /\ Given(c.sunset))
         /\ c.useConfigured # TRUE
<1> DEFINE sunrise == ParseOptional(c.sunrise)
           sunset == ParseOptional(c.sunset)
           latitude == ParseOptional(c.latitude)
           longitude == ParseOptional(c.longitude)
           use == (IF f THEN ParseOptional(c.useConfigured) ELSE TRUE) = TRUE
<1>1. Provider(c, f) =
        IF sunrise # Absent /\ sunset # Absent
        THEN [kind |-> "day", day |-> [sunrise |-> sunrise, sunset |-> sunset]]
        ELSE IF latitude # Absent /\ longitude # Absent
             THEN [kind |-> "location", place |-> <<latitude, longitude>>,
                   useConfigured |-> use]
             ELSE [kind |-> "day", day |-> DefaultDay]
  BY DEF Provider, DayProvider, LocationProvider
<1>2. /\ sunrise # Absent <=> Given(c.sunrise)
      /\ sunset # Absent <=> Given(c.sunset)
      /\ latitude # Absent <=> Given(c.latitude)
      /\ longitude # Absent <=> Given(c.longitude)
  BY DEF ParseOptional, Given
<1>3. ~ use => f /\ c.useConfigured # TRUE
  BY ConfigAssumption DEF ParseOptional
<1> HIDE DEF sunrise, sunset, latitude, longitude, use
<1>4. ~ (sunrise # Absent /\ sunset # Absent) /\ latitude # Absent /\ longitude # Absent
  BY <1>1 DEF SearchesLocation
<1>5. ~ use
  BY <1>1, <1>4 DEF SearchesLocation
<1>6. QED
  BY <1>2, <1>3, <1>4, <1>5

\* A complete solar day decides, then a complete location, then the default.
LEMMA ProviderDecides ==
  ASSUME NEW c \in Configs, NEW f \in BOOLEAN
  PROVE  LET p == Provider(c, f)
             day == Given(c.sunrise) /\ Given(c.sunset)
             location == Given(c.latitude) /\ Given(c.longitude)
         IN  /\ day => /\ p.kind = "day"
                       /\ p.day = [sunrise |-> c.sunrise, sunset |-> c.sunset]
             /\ ~ day /\ ~ location => p.kind = "day" /\ p.day = DefaultDay
             /\ ~ day /\ location => p.kind = "location"
<1> DEFINE sunrise == ParseOptional(c.sunrise)
           sunset == ParseOptional(c.sunset)
           latitude == ParseOptional(c.latitude)
           longitude == ParseOptional(c.longitude)
           use == (IF f THEN ParseOptional(c.useConfigured) ELSE TRUE) = TRUE
<1>1. Provider(c, f) =
        IF sunrise # Absent /\ sunset # Absent
        THEN [kind |-> "day", day |-> [sunrise |-> sunrise, sunset |-> sunset]]
        ELSE IF latitude # Absent /\ longitude # Absent
             THEN [kind |-> "location", place |-> <<latitude, longitude>>,
                   useConfigured |-> use]
             ELSE [kind |-> "day", day |-> DefaultDay]
  BY DEF Provider, DayProvider, LocationProvider
<1>2. /\ sunrise # Absent <=> Given(c.sunrise)
      /\ sunset # Absent <=> Given(c.sunset)
      /\ latitude # Absent <=> Given(c.latitude)
      /\ longitude # Absent <=> Given(c.longitude)
  BY DEF ParseOptional, Given
<1>3. Given(c.sunrise) /\ Given(c.sunset) => sunrise = c.sunrise /\ sunset = c.sunset
  BY DEF ParseOptional, Given
<1> HIDE DEF sunrise, sunset, latitude, longitude, use, Given
<1>4. CASE Given(c.sunrise) /\ Given(c.sunset)
  BY <1>1, <1>2, <1>3, <1>4
<1>5. CASE /\ ~ (Given(c.sunrise) /\ Given(c.sunset))
           /\ Given(c.latitude) /\ Given(c.longitude)
  BY <1>1, <1>2, <1>5
<1>6. CASE /\ ~ (Given(c.sunrise) /\ Given(c.sunset))
           /\ ~ (Given(c.latitude) /\ Given(c.longitude))
  BY <1>1, <1>2, <1>6
<1>7. QED
  BY <1>4, <1>5, <1>6

-------------------------------------------------------------------------------
(* The theorems. *)

\* The inductive invariant of the search.
LEMMA Invariant == Spec => [](IInv /\ Origins)
<1>1. Init => IInv /\ Origins
  BY InvInit, OriginsInit
<1>2. QED
  BY <1>1, InvNext, PTL DEF Spec

\* Type correctness of the search, which makes no more requests than it may and
\* leaves getSolarDay with times of day: solar_day_provider.cpp, networking.cpp.
THEOREM TypeCorrect == Spec => []TypeOK
<1>1. IInv => TypeOK
  BY DEF IInv
<1>2. QED
  BY <1>1, Invariant, PTL

\* Nobody is asked where the user is by a command or a configuration that does not
\* allow it: config.cpp, location.cpp.
THEOREM AskingIsAllowed == Spec => []AsksOnlyWhenAllowed
<1>1. IInv => AsksOnlyWhenAllowed
  <2> SUFFICES ASSUME IInv, served # <<>>
               PROVE  /\ findLocationOverHttp
                      /\ LocationIsGiven /\ ~ DayIsGiven
                      /\ config.useConfigured # TRUE
    BY DEF AsksOnlyWhenAllowed
  <2>1. config \in Configs /\ findLocationOverHttp \in BOOLEAN
    BY DEF IInv, TypeOK
  <2>2. SearchesLocation(Provider(config, findLocationOverHttp))
    BY DEF IInv, Asking
  <2>3. QED
    BY <2>1, <2>2, ProviderAsks DEF LocationIsGiven, DayIsGiven
<1>2. QED
  BY <1>1, Invariant, PTL

\* The complete solar day of the file, the complete location, and the default day
\* have precedence in this order: createSolarDayProviderFromParsedFields.
THEOREM FieldsHaveTheirOrder == Spec => []FieldsDecide
<1>1. IInv /\ Origins => FieldsDecide
  <2> SUFFICES ASSUME IInv, Origins, pc = "done"
               PROVE  /\ DayIsGiven => solarDay = [sunrise |-> config.sunrise, sunset |-> config.sunset]
                      /\ (~ DayIsGiven /\ ~ LocationIsGiven) => solarDay = DefaultDay
                      /\ (~ DayIsGiven /\ LocationIsGiven) => place \in Places
    BY DEF FieldsDecide
  <2>1. config \in Configs /\ findLocationOverHttp \in BOOLEAN
    BY DEF IInv, TypeOK
  <2>2. provider = Provider(config, findLocationOverHttp)
    BY DEF IInv, Asking
  <2>3. /\ DayIsGiven => /\ provider.kind = "day"
                         /\ provider.day = [sunrise |-> config.sunrise, sunset |-> config.sunset]
        /\ ~ DayIsGiven /\ ~ LocationIsGiven => provider.kind = "day" /\ provider.day = DefaultDay
        /\ ~ DayIsGiven /\ LocationIsGiven => provider.kind = "location"
    BY <2>1, <2>2, ProviderDecides DEF LocationIsGiven, DayIsGiven
  <2>4. \/ provider.kind = "day" /\ solarDay = provider.day
        \/ provider.kind = "location" /\ place \in Places
    BY DEF Origins, DayFollows
  <2>5. QED
    BY <2>3, <2>4
<1>2. QED
  BY <1>1, Invariant, PTL

\* The location is that of the last answer, however it was cut into chunks and
\* whatever the tries before it left: getUrlWithRetry, writeChunk and
\* getLatitudeAndLongitude.
THEOREM LocationIsAnswered == Spec => []LocationIsTheLastAnswer
<1>1. Origins => LocationIsTheLastAnswer
  BY DEF Origins
<1>2. QED
  BY <1>1, Invariant, PTL

\* getSolarDay gives one of the days its callers are told of.
THEOREM DayIsOneOfThePossible == Spec => []DayIsPossible
<1>1. IInv /\ Origins => DayIsPossible
  <2> SUFFICES ASSUME IInv, Origins, pc = "done"
               PROVE  solarDay \in PossibleDays(provider, zoneOffset)
    BY DEF DayIsPossible
  <2>1. CASE provider.kind = "day"
    <3>1. solarDay = provider.day
      BY <2>1 DEF Origins, DayFollows
    <3>2. QED
      BY <2>1, <3>1 DEF PossibleDays
  <2>2. CASE provider.kind = "location"
    <3> DEFINE Answers == {ParsedLocation(page) : page \in {p \in Pages : IsLocation(p)}}
    <3>1. solarDay \in SunTimes(place, zoneOffset)
      BY <2>2 DEF Origins, DayFollows
    <3>2. place = provider.place \/ (~ provider.useConfigured /\ place \in Answers)
      <4>1. CASE Answered /\ IsLocation(served[Len(served)])
        <5>1. served # <<>> /\ served \in Seq(Pages)
          BY <4>1 DEF Answered, IInv, TypeOK
        <5>2. served[Len(served)] \in Pages
          BY <5>1, LenProperties, EmptySeq, ElementOfSeq
        <5>3. ~ provider.useConfigured
          BY <5>1 DEF IInv, Asking, SearchesLocation
        <5>4. place = ParsedLocation(served[Len(served)])
          BY <2>2, <4>1 DEF Origins, LocationIsTheLastAnswer
        <5>5. QED
          BY <4>1, <5>2, <5>3, <5>4
      <4>2. CASE ~ (Answered /\ IsLocation(served[Len(served)]))
        BY <2>2, <4>2 DEF Origins, LocationIsTheLastAnswer
      <4>3. QED
        BY <4>1, <4>2
    <3>3. PossibleDays(provider, zoneOffset) =
            UNION {SunTimes(somewhere, zoneOffset) :
                     somewhere \in {provider.place} \cup
                       (IF provider.useConfigured THEN {} ELSE Answers)}
      BY <2>2 DEF PossibleDays
    <3> HIDE DEF Answers
    <3>4. QED
      BY <3>1, <3>2, <3>3
  <2>3. QED
    BY <2>1, <2>2 DEF Origins, DayFollows
<1>2. QED
  BY <1>1, Invariant, PTL

-------------------------------------------------------------------------------
(* Local time. *)

\* A time of day is what remains of any number of seconds that many whole days away.
LEMMA RemainderIsUnique ==
  ASSUME NEW k \in Int, NEW r \in TimeOfDay
  PROVE  FromSeconds(Day * k + r) = r
<1> DEFINE a == Day * k + r
           j == a \div Day
           s == a % Day
<1>1. Day \in Nat /\ Day > 0 /\ r \in Nat /\ r < Day
  BY DayAssumption DEF TimeOfDay
<1>2. a \in Int
  BY <1>1
<1>3. a = Day * k + r
  OBVIOUS
<1> HIDE DEF a
<1>4. j \in Int /\ s \in Nat /\ s < Day /\ a = Day * j + s
  BY <1>1, <1>2
<1> HIDE DEF j, s
<1> DEFINE d == k - j
<1>5. d \in Int /\ k = j + d
  BY <1>4
<1> HIDE DEF d
<1>6. Day * d = s - r
  <2>1. Day * (j + d) = Day * j + Day * d
    BY <1>1, <1>4, <1>5
  <2>2. Day * j \in Int /\ Day * d \in Int
    BY <1>1, <1>4, <1>5
  <2> QED  BY <1>1, <1>3, <1>4, <1>5, <2>1, <2>2
<1>7. d = 0
  <2>1. d >= 1 => Day * d >= Day
    BY <1>1, <1>5
  <2>2. d <= -1 => Day * d <= -Day
    BY <1>1, <1>5
  <2> QED  BY <1>1, <1>4, <1>5, <1>6, <2>1, <2>2
<1>8. s = r
  BY <1>1, <1>4, <1>6, <1>7
<1> QED  BY <1>8 DEF FromSeconds, a, s

\* Whole days play no part.
LEMMA WholeDaysPass ==
  ASSUME NEW y \in Int, NEW k \in Int
  PROVE  FromSeconds(y + Day * k) = FromSeconds(y)
<1> DEFINE j == y \div Day
           s == y % Day
<1>1. Day \in Nat /\ Day > 0
  BY DayAssumption
<1>2. j \in Int /\ s \in TimeOfDay /\ y = Day * j + s /\ s = FromSeconds(y)
  BY <1>1 DEF TimeOfDay, FromSeconds
<1> HIDE DEF j, s
<1>3. s \in Int /\ Day * j \in Int /\ Day * k \in Int
  BY <1>1, <1>2 DEF TimeOfDay
<1>4. y + Day * k = Day * (j + k) + s
  <2>1. Day * (j + k) = Day * j + Day * k
    BY <1>1, <1>2
  <2>2. QED
    BY <1>2, <1>3, <2>1
<1>5. FromSeconds(Day * (j + k) + s) = s
  <2>1. j + k \in Int
    BY <1>2
  <2>2. QED
    BY <1>2, <2>1, RemainderIsUnique
<1>6. QED
  BY <1>2, <1>4, <1>5

\* A number of seconds reduced to a day is not larger.
LEMMA ReducingShrinks ==
  ASSUME NEW d \in Nat
  PROVE  FromSeconds(d) <= d
<1> DEFINE q == d \div Day
           r == d % Day
<1>1. Day \in Nat /\ Day > 0
  BY DayAssumption
<1>2. q \in Int /\ r \in Nat /\ d = Day * q + r /\ r < Day
  BY <1>1
<1> HIDE DEF q, r
<1>3. q >= 0
  <2>1. q <= -1 => Day * q <= -Day
    BY <1>1, <1>2
  <2>2. Day * q \in Int
    BY <1>1, <1>2
  <2>3. QED
    BY <1>1, <1>2, <2>1, <2>2
<1>4. Day * q >= 0 /\ Day * q \in Int
  BY <1>1, <1>2, <1>3
<1>5. r <= d
  BY <1>2, <1>4
<1>6. QED
  BY <1>5 DEF FromSeconds, r

\* What the offsets and the library give.
LEMMA SunNumbers ==
  /\ Hour \in Nat /\ Hour > 0 /\ ZoneOffsets \subseteq Int
  /\ \A p \in Places : SunriseUTC[p] \in Int /\ SunsetUTC[p] \in Int
<1>1. Hour \in Nat \ {0} /\ ZoneOffsets \subseteq Int
  BY SolarDayAssumption, Zenon
<1>2. SunriseUTC \in [Places -> Int] /\ SunsetUTC \in [Places -> Int]
  BY SolarDayAssumption, Zenon
<1>3. QED
  BY <1>1, <1>2

\* What timeZoneOffset drops: less than an hour, in the direction of the offset, and
\* nothing of whole hours.
LEMMA DroppedByZoneHours ==
  ASSUME NEW offset \in ZoneOffsets
  PROVE  /\ offset \in Int /\ ZoneHours(offset) * Hour \in Int
         /\ LET rest == offset - ZoneHours(offset) * Hour
            IN  /\ IF offset < 0 THEN - rest \in Nat ELSE rest \in Nat
                /\ rest < Hour /\ - rest < Hour
                /\ offset % Hour = 0 => rest = 0
<1>1. offset \in Int /\ Hour \in Nat /\ Hour > 0
  BY SunNumbers
<1>2. CASE offset >= 0
  <2> DEFINE q == offset \div Hour
             r == offset % Hour
  <2>1. q \in Int /\ r \in Nat /\ r < Hour /\ offset = Hour * q + r
    BY <1>1
  <2>2. ZoneHours(offset) = q
    BY <1>1, <1>2 DEF ZoneHours
  <2>3. r = offset % Hour
    OBVIOUS
  <2> HIDE DEF q, r
  <2>4. q * Hour = Hour * q /\ q * Hour \in Int
    BY <1>1, <2>1
  <2>5. offset - q * Hour = r
    BY <1>1, <2>1, <2>4
  <2>6. QED
    BY <1>1, <1>2, <2>1, <2>2, <2>3, <2>4, <2>5
<1>3. CASE offset < 0
  <2> DEFINE q == (- offset) \div Hour
             r == (- offset) % Hour
  <2>1. q \in Int /\ r \in Nat /\ r < Hour /\ - offset = Hour * q + r
    BY <1>1
  <2>2. ZoneHours(offset) = - q
    BY <1>3 DEF ZoneHours
  <2> HIDE DEF q, r
  <2>3. (- q) * Hour = - (Hour * q) /\ Hour * q \in Int
    BY <1>1, <2>1
  <2>4. offset - (- q) * Hour = - r
    BY <1>1, <2>1, <2>3
  <2>5. offset % Hour = 0 => r = 0
    <3> SUFFICES ASSUME offset % Hour = 0 PROVE r = 0
      OBVIOUS
    <3> DEFINE p == offset \div Hour
    <3>1. p \in Int /\ offset = Hour * p
      BY <1>1
    <3> HIDE DEF p
    <3>2. Hour * (q + p) = - r
      <4>1. Hour * (q + p) = Hour * q + Hour * p
        BY <1>1, <2>1, <3>1
      <4>2. QED
        BY <1>1, <2>1, <2>3, <3>1, <4>1
    <3> DEFINE m == q + p
    <3>3. m \in Int /\ Hour * m = - r
      BY <2>1, <3>1, <3>2
    <3> HIDE DEF m
    <3>4. m <= -1 => Hour * m <= - Hour
      BY <1>1, <3>3
    <3>5. m >= 1 => Hour * m >= Hour
      BY <1>1, <3>3
    <3>6. m = 0 => Hour * m = 0
      BY <1>1
    <3>7. QED
      BY <1>1, <2>1, <3>3, <3>4, <3>5, <3>6
  <2>6. QED
    BY <1>1, <1>3, <2>1, <2>2, <2>3, <2>4, <2>5
<1>4. QED
  BY <1>1, <1>2, <1>3

\* A time the library gives is local: exact for a zone of whole hours, and less than an
\* hour off for any other.
LEMMA LocalTimeIsNear ==
  ASSUME NEW utc \in Int, NEW offset \in ZoneOffsets
  PROVE  Near(LocalTime(utc, offset), utc + offset, IF offset % Hour = 0 THEN 1 ELSE Hour)
<1> DEFINE zone == ZoneHours(offset) * Hour
           rest == offset - zone
           limit == IF offset % Hour = 0 THEN 1 ELSE Hour
           k == (utc + zone) \div Day
           time == LocalTime(utc, offset)
<1>1. /\ offset \in Int /\ zone \in Int /\ rest \in Int
      /\ IF offset < 0 THEN - rest \in Nat ELSE rest \in Nat
      /\ rest < limit /\ - rest < limit
  <2>1. Hour \in Nat /\ Hour > 0
    BY SunNumbers
  <2>2. /\ offset \in Int /\ zone \in Int
        /\ IF offset < 0 THEN - rest \in Nat ELSE rest \in Nat
        /\ rest < Hour /\ - rest < Hour
        /\ offset % Hour = 0 => rest = 0
    BY DroppedByZoneHours
  <2> HIDE DEF zone, rest
  <2>3. rest \in Int
    BY <2>2 DEF rest
  <2>4. QED
    BY <2>1, <2>2, <2>3
<1>2. k \in Int /\ time \in Int /\ utc + zone = Day * k + time
  <2>1. Day \in Nat /\ Day > 0
    BY DayAssumption
  <2>2. time = (utc + zone) % Day
    BY DEF LocalTime, FromSeconds
  <2>3. utc + zone \in Int
    BY <1>1
  <2> HIDE DEF time, zone
  <2>4. QED
    BY <2>1, <2>2, <2>3
<1>3. /\ FromSeconds(time - (utc + offset)) = FromSeconds(- rest)
      /\ FromSeconds((utc + offset) - time) = FromSeconds(rest)
  <2>1. offset = zone + rest
    BY <1>1
  <2>2. Day * k \in Int /\ Day * (- k) = - (Day * k) /\ - k \in Int
    BY <1>2, DayAssumption
  <2> HIDE DEF zone, rest, k, time
  <2>3. time - (utc + offset) = (- rest) + Day * (- k)
    BY <1>1, <1>2, <2>1, <2>2
  <2>4. (utc + offset) - time = rest + Day * k
    BY <1>1, <1>2, <2>1, <2>2
  <2>5. - rest \in Int
    BY <1>1
  <2>6. QED
    BY <1>1, <1>2, <2>2, <2>3, <2>4, <2>5, WholeDaysPass
<1> HIDE DEF zone, rest, limit, time
<1>4. FromSeconds(rest) \in Int /\ FromSeconds(- rest) \in Int /\ limit \in Int
  <2>1. - rest \in Int
    BY <1>1
  <2>2. QED
    BY <1>1, <2>1, FromSecondsType, DayAssumption, SunNumbers DEF TimeOfDay, limit
<1>5. CASE offset >= 0
  <2>1. FromSeconds(rest) <= rest
    BY <1>1, <1>5, ReducingShrinks
  <2>2. FromSeconds((utc + offset) - time) < limit
    BY <1>1, <1>3, <1>4, <2>1
  <2>3. QED
    BY <2>2 DEF Near, time, limit
<1>6. CASE offset < 0
  <2>1. FromSeconds(- rest) <= - rest
    BY <1>1, <1>6, ReducingShrinks
  <2>2. - rest \in Int
    BY <1>1
  <2>3. FromSeconds(time - (utc + offset)) < limit
    BY <1>1, <1>3, <1>4, <2>1, <2>2
  <2>4. QED
    BY <2>3 DEF Near, time, limit
<1>7. QED
  BY <1>1, <1>5, <1>6

\* Sunrise and sunset are local times, whatever the zone and the place, but where the sun
\* does neither: getSolarDayUsingLocation.
THEOREM SunTimesAreAlwaysLocal == Spec => []SunTimesAreLocal
<1>1. IInv /\ Origins => SunTimesAreLocal
  <2> SUFFICES ASSUME IInv, Origins, pc = "done", provider.kind = "location", place \notin Polar
               PROVE  LET limit == IF zoneOffset % Hour = 0 THEN 1 ELSE Hour
                      IN  /\ Near(solarDay.sunrise, SunriseUTC[place] + zoneOffset, limit)
                          /\ Near(solarDay.sunset, SunsetUTC[place] + zoneOffset, limit)
    BY DEF SunTimesAreLocal
  <2>1. place \in Places /\ solarDay \in SunTimes(place, zoneOffset)
    BY DEF Origins, DayFollows
  <2>2. /\ solarDay.sunrise = LocalTime(SunriseUTC[place], zoneOffset)
        /\ solarDay.sunset = LocalTime(SunsetUTC[place], zoneOffset)
    BY <2>1 DEF SunTimes
  <2>3. /\ SunriseUTC[place] \in Int /\ SunsetUTC[place] \in Int
        /\ zoneOffset \in ZoneOffsets
    BY <2>1, SunNumbers DEF IInv, TypeOK
  <2>4. QED
    BY <2>2, <2>3, LocalTimeIsNear
<1>2. QED
  BY <1>1, Invariant, PTL

===============================================================================
