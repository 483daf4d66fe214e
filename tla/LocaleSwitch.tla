---------------------------- MODULE LocaleSwitch ----------------------------
(***************************************************************************)
(* Switching the language of the page (js/i18n.js): catalogues are fetched *)
(* on demand, a choice that needs one waits for it, English is fetched in  *)
(* the background and its answer may arrive at any time.                   *)
(*                                                                         *)
(* A promise callback runs before the next event of the page, so settling  *)
(* a fetch resumes every switch that waits for it in the same step.  Of    *)
(* the switches waiting for one catalogue only their existence matters:    *)
(* resumed in one step, they all choose the same language.                 *)
(***************************************************************************)
EXTENDS Naturals

CONSTANTS
    Languages,      \* the supported locale codes but the default
    English,        \* the default locale
    OtherCode,      \* any string that is no supported code
    NoCatalog,      \* the catalogue of a locale that has not been loaded
    Keys,           \* message keys of translatable elements
    MarkupKeys,     \* those whose element carries English text in the page
    BuiltInKeys,    \* those of the embedded English fallback
    KeysOf          \* KeysOf[c]: the keys the catalogue file of c translates

SUPPORTED_LOCALES == Languages \cup {English}

ASSUME LocaleAssumption ==
    /\ English \notin Languages
    /\ OtherCode \notin SUPPORTED_LOCALES
    /\ KeysOf \in [SUPPORTED_LOCALES -> SUBSET Keys]
    /\ \A keys \in SUBSET Keys : NoCatalog # keys
    /\ SUPPORTED_LOCALES \cap {"markup", "built-in", "key", "empty"} = {}

VARIABLES
    stored,         \* localStorage[postbabyLocale]
    blocked,        \* localStorage throws
    activeLocale,   \* activeLocale
    lang,           \* the locale whose language the document declares
    catalogs,       \* catalogs: the keys of every catalogue, or NoCatalog
    inFlight,       \* catalogPromises: the locales with a promise
    requests,       \* requests[c]: fetches of c's file without an answer
    waiting,        \* the locales that calls of setLocale wait for
    shown,          \* where the text an element shows comes from
    switched,       \* some setLocale of this page has finished
    choice          \* history: the last choice of this page

vars == <<stored, blocked, activeLocale, lang, catalogs, inFlight, requests,
          waiting, shown, switched, choice>>

normalizeLocaleCode(code) == IF code \in SUPPORTED_LOCALES THEN code ELSE English

Translates(c, key, loaded) == loaded[c] # NoCatalog /\ key \in loaded[c]

getFallbackMessage(key) ==
    IF key \in MarkupKeys THEN "markup"
    ELSE IF key \in BuiltInKeys THEN "built-in" ELSE "key"

\* t(): where a message comes from
TextSource(key, active, loaded) ==
    IF Translates(active, key, loaded) THEN active
    ELSE IF Translates(English, key, loaded) THEN English
    ELSE getFallbackMessage(key)

\* apply(document)
Applied(active, loaded) == [key \in Keys |-> TextSource(key, active, loaded)]

NoChoice == [code |-> OtherCode, alone |-> TRUE, failed |-> FALSE]

\* loadCatalog's look-ups, as warmEnglishCatalog and setLocale make them: the
\* locales whose file has to be requested for a use of c
ToFetch(c, loaded, promised) ==
    IF loaded[c] = NoCatalog /\ c \notin promised THEN {c} ELSE {}

Requested(counts, codes) ==
    [c \in SUPPORTED_LOCALES |-> IF c \in codes THEN counts[c] + 1 ELSE counts[c]]

(***************************************************************************)
(* Opening the page: the stored locale becomes active but its catalogue is *)
(* not there yet; only the English one is requested.                       *)
(***************************************************************************)
readStoredLocale(code, throws) == IF throws THEN English ELSE normalizeLocaleCode(code)

NothingRequested == [c \in SUPPORTED_LOCALES |-> 0]
NothingLoaded == [c \in SUPPORTED_LOCALES |-> NoCatalog]
PageAsServed == [key \in Keys |-> IF key \in MarkupKeys THEN "markup" ELSE "empty"]

Init ==
    /\ stored \in SUPPORTED_LOCALES \cup {OtherCode}
    /\ blocked \in BOOLEAN
    /\ activeLocale = readStoredLocale(stored, blocked)
    /\ lang = activeLocale
    /\ catalogs = NothingLoaded
    /\ inFlight = {English}
    /\ requests = Requested(NothingRequested, {English})
    /\ waiting = {} /\ switched = FALSE /\ choice = NoChoice
    /\ shown = PageAsServed

\* The user reloads the page; whatever was in flight is forgotten.
ReloadPage ==
    /\ activeLocale' = readStoredLocale(stored, blocked)
    /\ lang' = activeLocale'
    /\ catalogs' = NothingLoaded
    /\ inFlight' = {English}
    /\ requests' = Requested(NothingRequested, {English})
    /\ waiting' = {} /\ switched' = FALSE /\ choice' = NoChoice
    /\ shown' = PageAsServed
    /\ UNCHANGED <<stored, blocked>>

\* Broken variant: the default locale is never stored
PersistedButDefault(code) == IF blocked \/ code = English THEN stored ELSE code

\* persistLocale
Persisted(code) == IF blocked THEN stored ELSE code

\* Broken variant: the document is translated before the locale is set
FinishSwitchStale(code, loaded, promised, counts) ==
    LET fetches == ToFetch(English, loaded, promised) IN
    /\ activeLocale' = code
    /\ stored' = Persisted(code)
    /\ lang' = code
    /\ shown' = Applied(activeLocale, loaded)
    /\ switched' = TRUE
    /\ inFlight' = promised \cup fetches
    /\ requests' = Requested(counts, fetches)
    /\ catalogs' = loaded

\* The end of setLocale, which asks for English in the background.  Callers
\* give the catalogues and promises as they are by then.
FinishSwitch(code, loaded, promised, counts) ==
    LET fetches == ToFetch(English, loaded, promised) IN
    /\ activeLocale' = code
    /\ stored' = Persisted(code)
    /\ lang' = code
    /\ shown' = Applied(code, loaded)
    /\ switched' = TRUE
    /\ inFlight' = promised \cup fetches
    /\ requests' = Requested(counts, fetches)
    /\ catalogs' = loaded

Chosen(code) == [code |-> code, alone |-> waiting = {}, failed |-> FALSE]

\* setLocale(code) when nothing has to be waited for
SwitchNow(code) ==
    /\ code = English \/ catalogs[code] # NoCatalog
    /\ FinishSwitch(code, catalogs, inFlight, requests)
    /\ choice' = Chosen(code)
    /\ UNCHANGED <<blocked, waiting>>

\* setLocale(code) up to its await
AwaitCatalog(code) ==
    LET fetches == ToFetch(code, catalogs, inFlight) IN
    /\ code # English /\ catalogs[code] = NoCatalog
    /\ inFlight' = inFlight \cup fetches
    /\ requests' = Requested(requests, fetches)
    /\ waiting' = waiting \cup {code}
    /\ choice' = Chosen(code)
    /\ UNCHANGED <<stored, blocked, activeLocale, lang, catalogs, shown, switched>>

ChooseLocale(code) ==
    SwitchNow(normalizeLocaleCode(code)) \/ AwaitCatalog(normalizeLocaleCode(code))

\* What settling a fetch of c leaves of the promises and open requests
Settled(c) == inFlight \ {c}
Answered(c) == [requests EXCEPT ![c] = @ - 1]

\* Broken variant: a late English catalogue is stored and not shown
WarmEnglishUnseen(loaded) == shown' = shown

\* warmEnglishCatalog's callback
WarmEnglish(loaded) ==
    shown' = IF activeLocale = English THEN Applied(English, loaded) ELSE shown

\* The file of c arrives; a catalogue that is no object counts as empty.
CatalogArrives(c) ==
    \E keys \in {KeysOf[c], {}} :
       LET loaded == [catalogs EXCEPT ![c] = keys] IN
       /\ requests[c] > 0
       /\ waiting' = waiting \ {c}
       /\ UNCHANGED <<blocked, choice>>
       /\ IF c \in waiting
          THEN FinishSwitch(c, loaded, Settled(c), Answered(c))
          ELSE /\ catalogs' = loaded
               /\ inFlight' = Settled(c)
               /\ requests' = Answered(c)
               /\ IF c = English THEN WarmEnglish(loaded) ELSE shown' = shown
               /\ UNCHANGED <<stored, activeLocale, lang, switched>>

\* Broken variant: a failed request leaves the switch waiting
CatalogFailsQuietly(c) ==
    /\ requests[c] > 0
    /\ inFlight' = Settled(c) /\ requests' = Answered(c)
    /\ choice' = IF choice.code = c THEN [choice EXCEPT !.failed = TRUE] ELSE choice
    /\ UNCHANGED <<stored, blocked, activeLocale, lang, catalogs, waiting,
                   shown, switched>>

\* Broken variant: the background request falls back as a switch does
AnyFailureFallsBack(c) ==
    /\ requests[c] > 0
    /\ waiting' = waiting \ {c}
    /\ choice' = IF choice.code = c THEN [choice EXCEPT !.failed = TRUE] ELSE choice
    /\ UNCHANGED blocked
    /\ FinishSwitch(English, catalogs, Settled(c), Answered(c))

\* The request of c fails or answers with an error.
CatalogFails(c) ==
    /\ requests[c] > 0
    /\ waiting' = waiting \ {c}
    /\ choice' = IF choice.code = c THEN [choice EXCEPT !.failed = TRUE] ELSE choice
    /\ UNCHANGED blocked
    /\ IF c \in waiting
       THEN FinishSwitch(English, catalogs, Settled(c), Answered(c))
       ELSE /\ inFlight' = Settled(c) /\ requests' = Answered(c)
            /\ UNCHANGED <<stored, activeLocale, lang, catalogs, shown, switched>>

RequestSettles(c) == CatalogArrives(c) \/ CatalogFails(c)

Next ==
    \/ ReloadPage
    \/ \E code \in SUPPORTED_LOCALES \cup {OtherCode} : ChooseLocale(code)
    \/ \E c \in SUPPORTED_LOCALES : RequestSettles(c)

\* A request is answered or fails in the end; nobody has to choose or reload.
Fairness == \A c \in SUPPORTED_LOCALES : WF_vars(RequestSettles(c))

Spec == Init /\ [][Next]_vars /\ Fairness

-----------------------------------------------------------------------------
(***************************************************************************)
(* Properties                                                              *)
(***************************************************************************)

\* The variables keep their types (js/i18n.js:112).
LocaleTypeOK ==
    /\ stored \in SUPPORTED_LOCALES \cup {OtherCode}
    /\ blocked \in BOOLEAN /\ switched \in BOOLEAN
    /\ activeLocale \in SUPPORTED_LOCALES /\ lang \in SUPPORTED_LOCALES
    /\ catalogs \in [SUPPORTED_LOCALES -> (SUBSET Keys) \cup {NoCatalog}]
    /\ inFlight \subseteq SUPPORTED_LOCALES
    /\ requests \in [SUPPORTED_LOCALES -> 0..1]
    /\ waiting \subseteq Languages
    /\ shown \in [Keys -> SUPPORTED_LOCALES \cup {"markup", "built-in", "key", "empty"}]
    /\ choice \in [code : SUPPORTED_LOCALES \cup {OtherCode},
                   alone : BOOLEAN, failed : BOOLEAN]

\* However choices and answers interleave, the declared language is the active
\* one, and the active one is what the next load of the page reads
\* (setLocale's assignments, :305).
ActiveLocaleSurvives ==
    /\ lang = activeLocale
    /\ switched /\ ~blocked => stored = activeLocale

\* No message is requested twice: a file has at most one request open, none
\* once it is loaded, and every switch that waits has a request to wait for
\* (loadCatalog's two look-ups, :237).
OneRequestPerCatalog ==
    \A c \in SUPPORTED_LOCALES :
       /\ requests[c] = IF c \in inFlight THEN 1 ELSE 0
       /\ c \in inFlight => catalogs[c] = NoCatalog
       /\ c \in waiting => c \in inFlight

\* After the first switch every message the active locale translates is shown
\* in it, and under English a catalogue that arrived late is shown as well
\* (apply in setLocale and warmEnglishCatalog, :272).  Before the first switch
\* a page opened in another language is still in English.
ShownInActiveLocale ==
    switched =>
       /\ activeLocale # English => catalogs[activeLocale] # NoCatalog
       /\ \A key \in Keys :
             TextSource(key, activeLocale, catalogs) = activeLocale
                => shown[key] = activeLocale
       /\ activeLocale = English => shown = Applied(English, catalogs)

\* A choice made while no other was pending is the active locale once nothing
\* is pending any more, or English when its catalogue could not be loaded
\* (setLocale, :293).  Overlapping choices end in the order of the answers.
UndisturbedChoiceWins ==
    waiting = {} /\ choice.alone /\ choice # NoChoice =>
       \/ activeLocale = choice.code
       \/ choice.failed /\ activeLocale = English

\* A choice does not wait for ever for a catalogue (setLocale's await, :298).
SwitchesFinish == \A c \in Languages : c \in waiting ~> c \notin waiting
=============================================================================
