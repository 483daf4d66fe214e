--------------------------- MODULE MCLocaleSwitch ---------------------------
(***************************************************************************)
(* Three languages; one message with markup that every catalogue           *)
(* translates, one without markup that only some do.                       *)
(***************************************************************************)
EXTENDS LocaleSwitch

CONSTANTS es, fr

MCLanguages == {es, fr}
MCKeys == {"settings", "toast"}
MCMarkupKeys == {"settings"}
MCBuiltInKeys == {"toast"}
MCKeysOf == [c \in SUPPORTED_LOCALES |-> IF c = fr THEN {"settings"} ELSE MCKeys]
=============================================================================
