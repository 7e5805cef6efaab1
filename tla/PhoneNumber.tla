----------------------------- MODULE PhoneNumber -----------------------------
(***************************************************************************)
(* domain/phone.py: what a cell of an imported file says as a number.      *)
(*                                                                         *)
(* A text is a sequence of characters, a character a string: the digits    *)
(* "0" to "9", the Persian "p0" to "p9", digits of other scripts, which    *)
(* the code takes for digits and does not translate, and the rest.  Text   *)
(* in Arabic-Indic digits is translated as Persian text is.                *)
(***************************************************************************)
EXTENDS Integers, Sequences
SetsExt == INSTANCE FiniteSetsExt

CONSTANT NationalLength   \* the digits of a number without its prefix: 10

ASSUME PhoneNumberAssumption == NationalLength \in Nat \ {0}

EnglishDigits == <<"0", "1", "2", "3", "4", "5", "6", "7", "8", "9">>
PersianDigits == <<"p0", "p1", "p2", "p3", "p4", "p5", "p6", "p7", "p8", "p9">>
OtherDigits   == {"d9"}

(* What re's \D does not match, str.isdigit accepts, in translated text. *)
Digit == OtherDigits \cup {EnglishDigits[d] : d \in 1..10}

Whitespace == {" ", "tab", "nbsp"}
Separators == {" ", "-", "(", ")", "zwnj", "nbsp"}

(* normalize_phone's None *)
None == <<>>

to_english_digits(text) ==
    [i \in DOMAIN text |->
        IF \E d \in 1..10 : text[i] = PersianDigits[d]
        THEN EnglishDigits[CHOOSE d \in 1..10 : text[i] = PersianDigits[d]]
        ELSE text[i]]

strip(text) ==
    LET ink == {i \in DOMAIN text : text[i] \notin Whitespace}
    IN  IF ink = {} THEN <<>> ELSE SubSeq(text, SetsExt!Min(ink), SetsExt!Max(ink))

(* What stays of a text when all characters but these are taken out of it  *)
Kept(text, chars) ==
    LET kept[n \in 0..Len(text)] ==
            IF n = 0 THEN <<>>
            ELSE IF text[n] \in chars THEN Append(kept[n - 1], text[n]) ELSE kept[n - 1]
    IN  kept[Len(text)]

Without(text, chars) == Kept(text, {text[i] : i \in DOMAIN text} \ chars)

StartsWith(text, prefix) ==
    Len(prefix) <= Len(text) /\ SubSeq(text, 1, Len(prefix)) = prefix

From(text, i) == SubSeq(text, i, Len(text))

(* Only the "+" stands for a call abroad. *)
Fault_Dialled(raw) ==
    Without(strip(to_english_digits(raw)), Separators)

(* The text without separators, with "+" for the "00" of a call abroad *)
Dialled(raw) ==
    LET text == Without(strip(to_english_digits(raw)), Separators)
    IN  IF StartsWith(text, <<"0", "0">>) THEN <<"+">> \o From(text, 3) ELSE text

(* A number is taken to have its country's code only behind a "+". *)
Fault_National(digits) ==
    IF StartsWith(digits, <<"0">>) THEN From(digits, 2) ELSE digits

(* The digits without the country's code or the leading zero.  That the    *)
(* code puts a "+" before a leading "98" makes no difference to them.      *)
National(digits) ==
    CASE StartsWith(digits, <<"9", "8">>) -> From(digits, 3)
      [] StartsWith(digits, <<"0">>)      -> From(digits, 2)
      [] OTHER                            -> digits

(* A number may be longer. *)
Fault_IsMobile(national) == Len(national) >= NationalLength /\ national[1] = "9"

IsMobile(national) == Len(national) = NationalLength /\ national[1] = "9"

normalize_phone(raw) ==
    LET national == National(Kept(Dialled(raw), Digit))
    IN  IF IsMobile(national) THEN <<"+", "9", "8">> \o national ELSE None
=============================================================================
