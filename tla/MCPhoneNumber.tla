--------------------------- MODULE MCPhoneNumber ---------------------------
(***************************************************************************)
(* Every text of up to MaxLength characters of Alphabet, typed character   *)
(* by character, and what normalize_phone must make of it.                 *)
(***************************************************************************)
EXTENDS PhoneNumber

CONSTANTS
    Alphabet,    \* the characters that are typed
    MaxLength    \* bound: the length of the text

ASSUME MCPhoneNumberAssumption == Alphabet \subseteq STRING /\ MaxLength \in Nat

VARIABLE raw     \* the text

Init == raw = <<>>

Type(c) == Len(raw) < MaxLength /\ raw' = Append(raw, c)

Next == \E c \in Alphabet : Type(c)

Spec == Init /\ [][Next]_raw

-----------------------------------------------------------------------------
(* What the digits of a text stand for, regardless of how the code gets there *)

Digits == Kept(to_english_digits(raw), Digit)

(* The digits before the last NationalLength ones, and those *)
Prefix == SubSeq(Digits, 1, Len(Digits) - NationalLength)
Number == From(Digits, Len(Digits) - NationalLength + 1)

CountryCode == <<"9", "8">>

(* Nothing but the number with one of the usual prefixes, and separators   *)
(* anywhere: +98..., 0098..., 98..., 0..., or the number alone.            *)
Spelled ==
    LET text == Without(to_english_digits(raw), Separators)
    IN  /\ Len(Digits) >= NationalLength
        /\ \/ text = Digits /\ Prefix \in {<<>>, <<"0">>, CountryCode, <<"0", "0">> \o CountryCode}
           \/ text = <<"+">> \o Digits /\ Prefix = CountryCode
        /\ Number[1] = "9"

-----------------------------------------------------------------------------
(* Properties *)

(* What normalize_phone returns is left as it is when it is normalized     *)
(* again: contacts of the table, files made of an export and numbers that  *)
(* messengers report are compared in that form.                            *)
NormalFormIsStable ==
    normalize_phone(raw) # None => normalize_phone(normalize_phone(raw)) = normalize_phone(raw)

(* All usual spellings of a number have one normal form, in each of the    *)
(* scripts that phone.py:5 translates and whatever the separators          *)
(* (tests/test_phone.py), so that they meet in one contact; but a number   *)
(* that itself begins with 98 must have a prefix.                          *)
SpellingsMeet ==
    Spelled /\ (Prefix = <<>> => ~StartsWith(Number, CountryCode))
        => normalize_phone(raw) = <<"+">> \o CountryCode \o Number

(* Only the digits decide what number is found, and no digit of it is      *)
(* dropped, added or moved: it is that of the last ones, and the digits    *)
(* before them are a prefix that the code drops.  Any other character      *)
(* counts for nothing, not even the "+" or the "00" of a call to another   *)
(* country: "+961 3 123456" becomes "+989613123456", although phone.py:26  *)
(* promises None for what is no Iranian number.                            *)
OnlyDigitsDecide ==
    normalize_phone(raw) # None =>
        /\ normalize_phone(raw) = <<"+">> \o CountryCode \o Number
        /\ Number[1] = "9"
        /\ \E abroad \in {<<>>, <<"0", "0">>} :
            Prefix \in {abroad, abroad \o <<"0">>, abroad \o CountryCode}
=============================================================================
