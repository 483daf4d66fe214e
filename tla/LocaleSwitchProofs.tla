------------------------- MODULE LocaleSwitchProofs -------------------------
(***************************************************************************)
(* Switching the language, for every set of languages, messages and        *)
(* catalogues and every order of choices, answers, failures and reloads.   *)
(***************************************************************************)
EXTENDS LocaleSwitch, TLAPS

Sources == SUPPORTED_LOCALES \cup {"markup", "built-in", "key", "empty"}
Catalogs == [SUPPORTED_LOCALES -> (SUBSET Keys) \cup {NoCatalog}]

ChoiceRecord == [code : SUPPORTED_LOCALES \cup {OtherCode},
                 alone : BOOLEAN, failed : BOOLEAN]

\* While the last choice is the only one, nothing else is waited for.
AloneWaitsForItself == choice.alone /\ waiting # {} => waiting = {choice.code}

Inv ==
    /\ LocaleTypeOK
    /\ ActiveLocaleSurvives
    /\ OneRequestPerCatalog
    /\ ShownInActiveLocale
    /\ AloneWaitsForItself
    /\ UndisturbedChoiceWins

\* Promises and open requests agree with each other and with what is loaded.
Agree(counts, promised, loaded) ==
    \A c \in SUPPORTED_LOCALES :
       /\ counts[c] = IF c \in promised THEN 1 ELSE 0
       /\ c \in promised => loaded[c] = NoCatalog

-----------------------------------------------------------------------------
\* What t() shows, and when it is in the active locale.
LEMMA TextSourceFacts ==
    ASSUME NEW key \in Keys, NEW active \in SUPPORTED_LOCALES, NEW loaded \in Catalogs
    PROVE  /\ TextSource(key, active, loaded) \in Sources
           /\ active # English =>
                 (TextSource(key, active, loaded) = active
                    <=> loaded[active] # NoCatalog /\ key \in loaded[active])
BY LocaleAssumption DEF TextSource, Translates, getFallbackMessage, Sources, SUPPORTED_LOCALES

LEMMA AppliedType ==
    ASSUME NEW active \in SUPPORTED_LOCALES, NEW loaded \in Catalogs
    PROVE  Applied(active, loaded) \in [Keys -> Sources]
BY TextSourceFacts DEF Applied

\* Asking for a catalogue that is neither loaded nor promised keeps the books.
LEMMA FetchingAgrees ==
    ASSUME NEW c \in SUPPORTED_LOCALES, NEW loaded \in Catalogs,
           NEW promised \in SUBSET SUPPORTED_LOCALES,
           NEW counts \in [SUPPORTED_LOCALES -> 0..1],
           Agree(counts, promised, loaded)
    PROVE  LET fetches == ToFetch(c, loaded, promised) IN
           /\ promised \cup fetches \in SUBSET SUPPORTED_LOCALES
           /\ Requested(counts, fetches) \in [SUPPORTED_LOCALES -> 0..1]
           /\ Agree(Requested(counts, fetches), promised \cup fetches, loaded)
           /\ loaded[c] = NoCatalog => c \in promised \cup fetches
BY DEF ToFetch, Requested, Agree

\* Whatever the end of a switch is given, if the books agree and the new
\* locale's catalogue is there, the page ends up in that locale.
LEMMA FinishedSwitch ==
    ASSUME NEW code \in SUPPORTED_LOCALES, NEW loaded \in Catalogs,
           NEW promised \in SUBSET SUPPORTED_LOCALES,
           NEW counts \in [SUPPORTED_LOCALES -> 0..1],
           Agree(counts, promised, loaded),
           code # English => loaded[code] # NoCatalog,
           LocaleTypeOK, blocked' = blocked,
           FinishSwitch(code, loaded, promised, counts)
    PROVE  /\ stored' \in SUPPORTED_LOCALES \cup {OtherCode}
           /\ switched' = TRUE /\ activeLocale' = code /\ lang' = code
           /\ catalogs' = loaded
           /\ inFlight' \in SUBSET SUPPORTED_LOCALES /\ promised \subseteq inFlight'
           /\ requests' \in [SUPPORTED_LOCALES -> 0..1]
           /\ shown' \in [Keys -> Sources]
           /\ ActiveLocaleSurvives'
           /\ ShownInActiveLocale'
           /\ Agree(requests', inFlight', catalogs')
<1> English \in SUPPORTED_LOCALES
    BY DEF SUPPORTED_LOCALES
<1>1. /\ switched' = TRUE /\ activeLocale' = code /\ lang' = code
      /\ catalogs' = loaded /\ stored' = Persisted(code)
      /\ shown' = Applied(code, loaded)
    BY DEF FinishSwitch
<1>2. /\ inFlight' \in SUBSET SUPPORTED_LOCALES /\ promised \subseteq inFlight'
      /\ requests' \in [SUPPORTED_LOCALES -> 0..1]
      /\ Agree(requests', inFlight', catalogs')
    BY FetchingAgrees, <1>1 DEF FinishSwitch
<1>3. shown' \in [Keys -> Sources]
    BY <1>1, AppliedType
<1>4. stored' \in SUPPORTED_LOCALES \cup {OtherCode} /\ ActiveLocaleSurvives'
    BY <1>1 DEF Persisted, ActiveLocaleSurvives, LocaleTypeOK
<1>5. ShownInActiveLocale'
    BY <1>1 DEF ShownInActiveLocale, Applied
<1> QED  BY <1>1, <1>2, <1>3, <1>4, <1>5

-----------------------------------------------------------------------------
\* A page that has just been opened.
LEMMA FreshPage ==
    /\ NoChoice \in ChoiceRecord
    /\ PageAsServed \in [Keys -> Sources]
    /\ NothingLoaded \in Catalogs
    /\ Requested(NothingRequested, {English}) \in [SUPPORTED_LOCALES -> 0..1]
    /\ Agree(Requested(NothingRequested, {English}), {English}, NothingLoaded)
<1>1. NoChoice \in ChoiceRecord
    BY DEF NoChoice, ChoiceRecord
<1>2. PageAsServed \in [Keys -> Sources]
    BY DEF PageAsServed, Sources
<1>5. NothingLoaded \in Catalogs
    BY DEF NothingLoaded, Catalogs
<1>3. Requested(NothingRequested, {English})
        = [c \in SUPPORTED_LOCALES |-> IF c = English THEN 1 ELSE 0]
    BY DEF Requested, NothingRequested
<1>4. Agree(Requested(NothingRequested, {English}), {English}, NothingLoaded)
    BY <1>3 DEF Agree, NothingLoaded
<1> QED  BY <1>1, <1>2, <1>3, <1>4, <1>5

LEMMA InitEstablishes == Init => Inv
<1> SUFFICES ASSUME Init PROVE Inv
    OBVIOUS
<1>1. activeLocale \in SUPPORTED_LOCALES
    BY DEF Init, readStoredLocale, normalizeLocaleCode, SUPPORTED_LOCALES
<1>2. OneRequestPerCatalog
    BY FreshPage DEF Init, OneRequestPerCatalog, Agree
<1>3. LocaleTypeOK
    BY <1>1, FreshPage
    DEF Init, LocaleTypeOK, SUPPORTED_LOCALES, Catalogs, Sources, ChoiceRecord
<1> QED
    BY <1>2, <1>3 DEF Init, Inv, ActiveLocaleSurvives, ShownInActiveLocale,
                      AloneWaitsForItself, UndisturbedChoiceWins

LEMMA ReloadKeeps == ASSUME Inv, ReloadPage PROVE Inv'
<1>1. activeLocale' \in SUPPORTED_LOCALES
    BY DEF ReloadPage, readStoredLocale, normalizeLocaleCode, SUPPORTED_LOCALES
<1>2. OneRequestPerCatalog'
    BY FreshPage DEF ReloadPage, OneRequestPerCatalog, Agree
<1>3. LocaleTypeOK'
    BY <1>1, FreshPage
    DEF Inv, ReloadPage, LocaleTypeOK, SUPPORTED_LOCALES, Catalogs, Sources, ChoiceRecord
<1> QED
    BY <1>2, <1>3 DEF ReloadPage, Inv, ActiveLocaleSurvives, ShownInActiveLocale,
                      AloneWaitsForItself, UndisturbedChoiceWins

LEMMA SwitchNowKeeps ==
    ASSUME Inv, NEW code \in SUPPORTED_LOCALES, SwitchNow(code)
    PROVE  Inv'
<1>1. Agree(requests, inFlight, catalogs)
    BY DEF Inv, OneRequestPerCatalog, Agree
<1>2. catalogs \in Catalogs /\ inFlight \in SUBSET SUPPORTED_LOCALES
      /\ requests \in [SUPPORTED_LOCALES -> 0..1] /\ LocaleTypeOK
    BY DEF Inv, LocaleTypeOK, Catalogs, ChoiceRecord
<1>3. /\ FinishSwitch(code, catalogs, inFlight, requests)
      /\ code # English => catalogs[code] # NoCatalog
      /\ blocked' = blocked /\ waiting' = waiting /\ choice' = Chosen(code)
    BY DEF SwitchNow
<1>4. /\ stored' \in SUPPORTED_LOCALES \cup {OtherCode}
      /\ switched' = TRUE /\ activeLocale' = code /\ lang' = code
      /\ catalogs' = catalogs
      /\ inFlight' \in SUBSET SUPPORTED_LOCALES /\ inFlight \subseteq inFlight'
      /\ requests' \in [SUPPORTED_LOCALES -> 0..1]
      /\ shown' \in [Keys -> Sources]
      /\ ActiveLocaleSurvives' /\ ShownInActiveLocale'
      /\ Agree(requests', inFlight', catalogs')
    BY <1>1, <1>2, <1>3, FinishedSwitch
<1>5. LocaleTypeOK'
    BY <1>2, <1>3, <1>4 DEF LocaleTypeOK, Catalogs, Sources, Chosen
<1>6. OneRequestPerCatalog'
    BY <1>3, <1>4 DEF Inv, OneRequestPerCatalog, Agree
<1>7. AloneWaitsForItself' /\ UndisturbedChoiceWins'
    BY <1>3, <1>4 DEF AloneWaitsForItself, UndisturbedChoiceWins, Chosen
<1> QED  BY <1>4, <1>5, <1>6, <1>7 DEF Inv

LEMMA AwaitKeeps ==
    ASSUME Inv, NEW code \in SUPPORTED_LOCALES, AwaitCatalog(code)
    PROVE  Inv'
<1> DEFINE fetches == ToFetch(code, catalogs, inFlight)
<1>1. Agree(requests, inFlight, catalogs)
    BY DEF Inv, OneRequestPerCatalog, Agree
<1>2. catalogs \in Catalogs /\ inFlight \in SUBSET SUPPORTED_LOCALES
      /\ requests \in [SUPPORTED_LOCALES -> 0..1] /\ LocaleTypeOK
    BY DEF Inv, LocaleTypeOK, Catalogs, ChoiceRecord
<1>3. /\ code # English /\ catalogs[code] = NoCatalog
      /\ inFlight' = inFlight \cup fetches
      /\ requests' = Requested(requests, fetches)
      /\ waiting' = waiting \cup {code}
      /\ choice' = Chosen(code)
      /\ UNCHANGED <<stored, blocked, activeLocale, lang, catalogs, shown, switched>>
    BY DEF AwaitCatalog
<1>4. /\ inFlight' \in SUBSET SUPPORTED_LOCALES
      /\ requests' \in [SUPPORTED_LOCALES -> 0..1]
      /\ Agree(requests', inFlight', catalogs)
      /\ code \in inFlight'
    BY <1>1, <1>2, <1>3, FetchingAgrees
<1>5. LocaleTypeOK'
    BY <1>2, <1>3, <1>4 DEF LocaleTypeOK, Chosen, SUPPORTED_LOCALES
<1>6. OneRequestPerCatalog'
    BY <1>3, <1>4 DEF Inv, OneRequestPerCatalog, Agree
<1>7. AloneWaitsForItself' /\ UndisturbedChoiceWins'
    BY <1>3 DEF AloneWaitsForItself, UndisturbedChoiceWins, Chosen
<1>8. ActiveLocaleSurvives' /\ ShownInActiveLocale'
    BY <1>3 DEF Inv, ActiveLocaleSurvives, ShownInActiveLocale
<1> QED  BY <1>5, <1>6, <1>7, <1>8 DEF Inv

\* What a request that settles leaves of the books.
LEMMA SettledAgrees ==
    ASSUME Inv, NEW c \in SUPPORTED_LOCALES, requests[c] > 0,
           NEW loaded \in Catalogs, \A d \in SUPPORTED_LOCALES \ {c} : loaded[d] = catalogs[d]
    PROVE  /\ c \in inFlight /\ catalogs[c] = NoCatalog
           /\ Settled(c) \in SUBSET SUPPORTED_LOCALES
           /\ Answered(c) \in [SUPPORTED_LOCALES -> 0..1]
           /\ Agree(Answered(c), Settled(c), loaded)
<1>1. \A d \in SUPPORTED_LOCALES : requests[d] = IF d \in inFlight THEN 1 ELSE 0
    BY DEF Inv, OneRequestPerCatalog
<1>2. requests \in [SUPPORTED_LOCALES -> 0..1] /\ inFlight \subseteq SUPPORTED_LOCALES
    BY DEF Inv, LocaleTypeOK
<1>3. c \in inFlight /\ catalogs[c] = NoCatalog
    BY <1>1 DEF Inv, OneRequestPerCatalog
<1>4. /\ Answered(c) \in [SUPPORTED_LOCALES -> 0..1]
      /\ Answered(c)[c] = 0
      /\ \A d \in SUPPORTED_LOCALES \ {c} : Answered(c)[d] = requests[d]
  <2>1. requests[c] = 1
      BY <1>1, <1>3
  <2> QED  BY <1>2, <2>1 DEF Answered
<1> QED
    BY <1>1, <1>2, <1>3, <1>4 DEF Inv, OneRequestPerCatalog, Agree, Settled

LEMMA ArrivalKeeps ==
    ASSUME Inv, NEW c \in SUPPORTED_LOCALES, CatalogArrives(c)
    PROVE  Inv'
<1> PICK keys \in {KeysOf[c], {}} :
       LET loaded == [catalogs EXCEPT ![c] = keys] IN
       /\ requests[c] > 0
       /\ waiting' = waiting \ {c}
       /\ UNCHANGED <<blocked, choice>>
       /\ IF c \in waiting
          THEN FinishSwitch(c, loaded, Settled(c), Answered(c))
          ELSE /\ catalogs' = loaded
               /\ inFlight' = Settled(c)
               /\ requests' = Answered(c)
               /\ IF c = English THEN WarmEnglish(loaded) ELSE shown' = shown
               /\ UNCHANGED <<stored, activeLocale, lang, switched>>
    BY DEF CatalogArrives
<1> DEFINE loaded == [catalogs EXCEPT ![c] = keys]
<1>1. keys \in SUBSET Keys /\ keys # NoCatalog
    BY LocaleAssumption
<1>2. /\ catalogs \in Catalogs /\ LocaleTypeOK
      /\ loaded \in Catalogs /\ loaded[c] = keys
      /\ \A d \in SUPPORTED_LOCALES \ {c} : loaded[d] = catalogs[d]
    BY <1>1 DEF Inv, LocaleTypeOK, Catalogs
<1> HIDE DEF loaded
<1>3. /\ c \in inFlight /\ catalogs[c] = NoCatalog
      /\ Settled(c) \in SUBSET SUPPORTED_LOCALES
      /\ Answered(c) \in [SUPPORTED_LOCALES -> 0..1]
      /\ Agree(Answered(c), Settled(c), loaded)
    BY <1>2, SettledAgrees
<1>4. CASE c \in waiting
  <2>1. /\ stored' \in SUPPORTED_LOCALES \cup {OtherCode}
        /\ switched' = TRUE /\ activeLocale' = c /\ lang' = c
        /\ catalogs' = loaded
        /\ inFlight' \in SUBSET SUPPORTED_LOCALES /\ Settled(c) \subseteq inFlight'
        /\ requests' \in [SUPPORTED_LOCALES -> 0..1]
        /\ shown' \in [Keys -> Sources]
        /\ ActiveLocaleSurvives' /\ ShownInActiveLocale'
        /\ Agree(requests', inFlight', catalogs')
      BY <1>1, <1>2, <1>3, <1>4, FinishedSwitch DEF loaded
  <2>2. LocaleTypeOK'
      BY <1>2, <2>1 DEF LocaleTypeOK, Catalogs, Sources
  <2>3. OneRequestPerCatalog'
      BY <2>1 DEF Inv, OneRequestPerCatalog, Agree, Settled
  <2>4. AloneWaitsForItself' /\ UndisturbedChoiceWins'
      BY <1>4, <2>1 DEF Inv, AloneWaitsForItself, UndisturbedChoiceWins
  <2> QED  BY <2>1, <2>2, <2>3, <2>4 DEF Inv
<1>5. CASE c \notin waiting
  <2>1. /\ catalogs' = loaded /\ inFlight' = Settled(c) /\ requests' = Answered(c)
        /\ IF c = English THEN WarmEnglish(loaded) ELSE shown' = shown
        /\ UNCHANGED <<stored, activeLocale, lang, switched, blocked, choice>>
        /\ waiting' = waiting
      BY <1>5 DEF loaded
  <2>2. activeLocale \in SUPPORTED_LOCALES /\ English \in SUPPORTED_LOCALES
        /\ shown \in [Keys -> Sources]
      BY DEF Inv, LocaleTypeOK, Sources, SUPPORTED_LOCALES
  <2>3. shown' \in [Keys -> Sources]
      BY <1>2, <2>1, <2>2, AppliedType DEF WarmEnglish
  <2>4. LocaleTypeOK'
      BY <1>2, <1>3, <2>1, <2>3 DEF LocaleTypeOK, Catalogs, Sources
  <2>5. OneRequestPerCatalog'
      BY <1>3, <1>5, <2>1 DEF Inv, OneRequestPerCatalog, Agree, Settled
  <2>6. ShownInActiveLocale'
    <3>1. CASE activeLocale = English /\ c = English
        BY <2>1, <3>1 DEF WarmEnglish, ShownInActiveLocale, Applied
    <3>2. CASE activeLocale = English /\ c # English
        BY <1>2, <2>1, <2>2, <3>2 DEF Inv, ShownInActiveLocale, Applied, TextSource, Translates
    <3>3. CASE activeLocale # English
      <4>1. switched => catalogs[activeLocale] # NoCatalog /\ activeLocale # c
          BY <1>3, <3>3 DEF Inv, ShownInActiveLocale
      <4>2. shown' = shown
          BY <2>1, <3>3 DEF WarmEnglish
      <4> QED
          BY <1>2, <2>1, <2>2, <3>3, <4>1, <4>2, TextSourceFacts
          DEF Inv, ShownInActiveLocale
    <3> QED  BY <3>1, <3>2, <3>3
  <2>7. ActiveLocaleSurvives' /\ AloneWaitsForItself' /\ UndisturbedChoiceWins'
      BY <2>1 DEF Inv, ActiveLocaleSurvives, AloneWaitsForItself, UndisturbedChoiceWins
  <2> QED  BY <2>4, <2>5, <2>6, <2>7 DEF Inv
<1> QED  BY <1>4, <1>5

LEMMA FailureKeeps ==
    ASSUME Inv, NEW c \in SUPPORTED_LOCALES, CatalogFails(c)
    PROVE  Inv'
<1>1. /\ requests[c] > 0 /\ waiting' = waiting \ {c} /\ blocked' = blocked
      /\ choice' = IF choice.code = c THEN [choice EXCEPT !.failed = TRUE] ELSE choice
    BY DEF CatalogFails
<1>2. /\ catalogs \in Catalogs /\ LocaleTypeOK
      /\ choice \in ChoiceRecord
    BY DEF Inv, LocaleTypeOK, Catalogs, ChoiceRecord
<1>3. /\ c \in inFlight /\ catalogs[c] = NoCatalog
      /\ Settled(c) \in SUBSET SUPPORTED_LOCALES
      /\ Answered(c) \in [SUPPORTED_LOCALES -> 0..1]
      /\ Agree(Answered(c), Settled(c), catalogs)
    BY <1>1, <1>2, SettledAgrees
<1>4. /\ choice' \in ChoiceRecord
      /\ choice'.code = choice.code /\ choice'.alone = choice.alone
      /\ choice.failed \/ choice.code = c => choice'.failed
    BY <1>1, <1>2 DEF ChoiceRecord
<1>5. choice = NoChoice => choice' = NoChoice
    BY <1>1, LocaleAssumption DEF NoChoice, SUPPORTED_LOCALES
<1>6. CASE c \in waiting
  <2>1. /\ stored' \in SUPPORTED_LOCALES \cup {OtherCode}
        /\ switched' = TRUE /\ activeLocale' = English /\ lang' = English
        /\ catalogs' = catalogs
        /\ inFlight' \in SUBSET SUPPORTED_LOCALES /\ Settled(c) \subseteq inFlight'
        /\ requests' \in [SUPPORTED_LOCALES -> 0..1]
        /\ shown' \in [Keys -> Sources]
        /\ ActiveLocaleSurvives' /\ ShownInActiveLocale'
        /\ Agree(requests', inFlight', catalogs')
    <3>1. FinishSwitch(English, catalogs, Settled(c), Answered(c))
        BY <1>6 DEF CatalogFails
    <3> QED
        BY <1>1, <1>2, <1>3, <3>1, FinishedSwitch DEF SUPPORTED_LOCALES
  <2>2. LocaleTypeOK'
      BY <1>1, <1>2, <1>4, <2>1
      DEF LocaleTypeOK, Catalogs, Sources, ChoiceRecord, SUPPORTED_LOCALES
  <2>3. OneRequestPerCatalog'
      BY <1>1, <2>1 DEF Inv, OneRequestPerCatalog, Agree, Settled
  <2>4. AloneWaitsForItself' /\ UndisturbedChoiceWins'
      BY <1>1, <1>4, <1>6, <2>1 DEF Inv, AloneWaitsForItself, UndisturbedChoiceWins
  <2> QED  BY <2>1, <2>2, <2>3, <2>4 DEF Inv
<1>7. CASE c \notin waiting
  <2>1. /\ inFlight' = Settled(c) /\ requests' = Answered(c) /\ waiting' = waiting
        /\ UNCHANGED <<stored, activeLocale, lang, catalogs, shown, switched>>
      BY <1>1, <1>7 DEF CatalogFails
  <2>2. LocaleTypeOK'
      BY <1>1, <1>2, <1>3, <1>4, <2>1 DEF LocaleTypeOK, ChoiceRecord
  <2>3. OneRequestPerCatalog'
      BY <1>3, <1>7, <2>1 DEF Inv, OneRequestPerCatalog, Agree, Settled
  <2>4. ActiveLocaleSurvives' /\ ShownInActiveLocale'
      BY <1>1, <2>1 DEF Inv, ActiveLocaleSurvives, ShownInActiveLocale
  <2>5. AloneWaitsForItself' /\ UndisturbedChoiceWins'
      BY <1>4, <1>5, <2>1 DEF Inv, AloneWaitsForItself, UndisturbedChoiceWins
  <2> QED  BY <2>2, <2>3, <2>4, <2>5 DEF Inv
<1> QED  BY <1>6, <1>7

LEMMA StepKeeps == Inv /\ [Next]_vars => Inv'
<1> SUFFICES ASSUME Inv, [Next]_vars PROVE Inv'
    OBVIOUS
<1>1. CASE ReloadPage
    BY <1>1, ReloadKeeps
<1>2. ASSUME NEW code \in SUPPORTED_LOCALES \cup {OtherCode}, ChooseLocale(code)
      PROVE  Inv'
  <2>1. normalizeLocaleCode(code) \in SUPPORTED_LOCALES
      BY DEF normalizeLocaleCode, SUPPORTED_LOCALES
  <2> QED  BY <1>2, <2>1, SwitchNowKeeps, AwaitKeeps DEF ChooseLocale
<1>3. ASSUME NEW c \in SUPPORTED_LOCALES, RequestSettles(c)
      PROVE  Inv'
    BY <1>3, ArrivalKeeps, FailureKeeps DEF RequestSettles
<1>4. CASE UNCHANGED vars
    BY <1>4 DEF vars, Inv, LocaleTypeOK, ActiveLocaleSurvives, OneRequestPerCatalog,
                ShownInActiveLocale, AloneWaitsForItself, UndisturbedChoiceWins
<1> QED  BY <1>1, <1>2, <1>3, <1>4 DEF Next

\* The page's books about catalogues, its locale and its text keep the
\* inductive invariant in every run.
THEOREM LocaleInvariant == Spec => []Inv
<1> QED  BY InitEstablishes, StepKeeps, PTL DEF Spec

\* The page never declares, stores or reloads another language than the active
\* one, whatever answers arrive late.
THEOREM ActiveLocaleAlwaysSurvives == Spec => []ActiveLocaleSurvives
<1>1. Inv => ActiveLocaleSurvives
    BY DEF Inv
<1> QED  BY <1>1, LocaleInvariant, PTL

\* However many switches overlap, a catalogue has at most one request.
THEOREM OneRequestAlways == Spec => []OneRequestPerCatalog
<1>1. Inv => OneRequestPerCatalog
    BY DEF Inv
<1> QED  BY <1>1, LocaleInvariant, PTL

\* After the first switch no message the active locale translates is shown in
\* another language.
THEOREM ShownInActiveLocaleAlways == Spec => []ShownInActiveLocale
<1>1. Inv => ShownInActiveLocale
    BY DEF Inv
<1> QED  BY <1>1, LocaleInvariant, PTL

\* A choice no other overlaps becomes the active locale, or English.
THEOREM UndisturbedChoiceAlwaysWins == Spec => []UndisturbedChoiceWins
<1>1. Inv => UndisturbedChoiceWins
    BY DEF Inv
<1> QED  BY <1>1, LocaleInvariant, PTL
=============================================================================
