------------------------- MODULE PhoneNumberProofs -------------------------
(***************************************************************************)
(* The properties of MCPhoneNumber, for every alphabet and whatever is     *)
(* typed in it.                                                            *)
(***************************************************************************)
EXTENDS MCPhoneNumber, PhoneFacts

LEMMA TextsAreTyped == Spec => [](raw \in Texts)
<1>1. Init => raw \in Texts
    BY DEF Init, Texts
<1>2. raw \in Texts /\ [Next]_raw => (raw \in Texts)'
    <2>1. Alphabet \subseteq Chars
        BY MCPhoneNumberAssumption DEF Chars
    <2> QED BY <2>1 DEF Next, Type, Texts
<1> QED BY <1>1, <1>2, PTL DEF Spec

(* What normalize_phone returns is left as it is by normalize_phone,       *)
(* whatever was typed, in whatever alphabet and at whatever length.        *)
THEOREM NormalFormsAreStable == Spec => []NormalFormIsStable
<1>1. raw \in Texts => NormalFormIsStable
    BY TextIsStable DEF NormalFormIsStable
<1> QED BY <1>1, TextsAreTyped, PTL

(* What normalize_phone finds is the last digits of the text, all of them  *)
(* but a prefix that it drops, whatever other characters stand between     *)
(* them: a number of another country may be found as an Iranian one.       *)
THEOREM DigitsDecide == Spec => []OnlyDigitsDecide
<1>1. ASSUME raw \in Texts, normalize_phone(raw) # None
      PROVE  /\ normalize_phone(raw) = <<"+">> \o CountryCode \o Number
             /\ Number[1] = "9"
             /\ \E abroad \in {<<>>, <<"0", "0">>} :
                 Prefix \in {abroad, abroad \o <<"0">>, abroad \o CountryCode}
    <2>1. PICK t \in Texts : t = raw
        BY <1>1
    <2>2. PICK d \in Texts : d = Kept(to_english_digits(t), Digit)
        BY EnglishText, KeptIsText
    <2>3. Digits = d
        BY <2>1, <2>2 DEF Digits
    <2>4. normalize_phone(t) # None
        BY <1>1, <2>1
    <2>5. /\ From(d, Len(d) - NationalLength + 1) = Found(t)
          /\ \E abroad \in {<<>>, <<"0", "0">>} :
                SubSeq(d, 1, Len(d) - NationalLength)
                    \in {abroad, abroad \o <<"0">>, abroad \o <<"9", "8">>}
        BY <2>2, <2>4, DigitsDecideText
    <2>6. /\ normalize_phone(t) = <<"+">> \o <<"9", "8">> \o Found(t)
          /\ Found(t)[1] = "9"
        BY <2>4, NormalizedIs DEF IsMobile
    <2> QED BY <2>1, <2>3, <2>5, <2>6, Zenon DEF Number, Prefix, CountryCode
<1>2. raw \in Texts => OnlyDigitsDecide
    BY <1>1 DEF OnlyDigitsDecide
<1> QED BY <1>2, TextsAreTyped, PTL

(* All usual spellings of a number in the scripts that are translated have *)
(* one normal form, so that a contact is found again however its number    *)
(* was written.                                                            *)
THEOREM AllSpellingsMeet == Spec => []SpellingsMeet
<1>1. ASSUME raw \in Texts, Spelled, Prefix = <<>> => ~StartsWith(Number, CountryCode)
      PROVE  normalize_phone(raw) = <<"+">> \o CountryCode \o Number
    <2>1. PICK t \in Texts : t = raw
        BY <1>1
    <2>2. PICK d \in Texts : d = Kept(to_english_digits(t), Digit)
        BY EnglishText, KeptIsText
    <2>3. PICK s \in Texts : s = Without(to_english_digits(t), Separators)
        BY EnglishText, WithoutIs, KeptIsText
    <2>4. Digits = d
        BY <2>1, <2>2 DEF Digits
    <2>5. PICK k : k = Len(d) - NationalLength
        OBVIOUS
    <2>6. Prefix = SubSeq(d, 1, k) /\ Number = SubSeq(d, k + 1, Len(d))
        BY <2>4, <2>5 DEF Prefix, Number, From
    <2>7. Len(d) >= NationalLength /\ Number[1] = "9"
        BY <1>1, <2>4 DEF Spelled
    <2>8. /\ k \in Nat /\ Len(d) \in Nat /\ k <= Len(d) /\ NationalLength \in Nat
          /\ NationalLength = Len(d) - k
        BY <2>5, <2>7, PhoneNumberAssumption DEF Texts
    <2>9. PICK p, n : p = SubSeq(d, 1, k) /\ n = SubSeq(d, k + 1, Len(d))
        OBVIOUS
    <2>10. p \in Texts
        <3>1. 1 \in 1..(Len(d) + 1) /\ k \in (1 - 1)..Len(d)
            BY <2>8
        <3> QED BY <2>9, <3>1, PartOf
    <2>11. n \in Texts /\ Len(n) = NationalLength
        <3>1. PICK i : i = k + 1
            OBVIOUS
        <3>2. i \in 1..(Len(d) + 1) /\ Len(d) \in (i - 1)..Len(d) /\ Len(d) - i + 1 = NationalLength
            BY <2>8, <3>1
        <3>3. SubSeq(d, i, Len(d)) \in Texts /\ Len(SubSeq(d, i, Len(d))) = Len(d) - i + 1
            BY <2>8, <3>2, PartOf
        <3> QED BY <2>9, <3>1, <3>2, <3>3
    <2>12. d = p \o n
        <3>1. 1 \in 1..(Len(d) + 1) /\ k \in (1 - 1)..Len(d) /\ Len(d) \in k..Len(d)
            BY <2>8
        <3>2. SubSeq(d, 1, Len(d)) = SubSeq(d, 1, k) \o SubSeq(d, k + 1, Len(d))
            BY <2>8, <3>1, PartsMeet
        <3> QED BY <2>9, <3>2, WholeText
    <2>13. Prefix = p /\ Number = n /\ n[1] = "9"
        BY <2>6, <2>7, <2>9
    <2>14. \/ s = d /\ p \in {<<>>, <<"0">>, <<"9", "8">>, <<"0", "0">> \o <<"9", "8">>}
           \/ s = <<"+">> \o d /\ p = <<"9", "8">>
        BY <1>1, <2>1, <2>3, <2>4, <2>13, Zenon DEF Spelled, CountryCode
    <2>15. p = <<>> => ~StartsWith(n, <<"9", "8">>)
        BY <1>1, <2>13 DEF CountryCode
    <2>16. Found(t) = n
        <3>1. Spells(s, d, p, n)
            BY <2>11, <2>12, <2>13, <2>14, <2>15 DEF Spells
        <3>2. p \in Texts /\ n \in Texts
            BY <2>10, <2>11
        <3> QED BY <2>2, <2>3, <3>1, <3>2, SpellingsMeetText
    <2>17. IsMobile(n)
        BY <2>11, <2>13 DEF IsMobile
    <2>18. normalize_phone(t) = <<"+">> \o <<"9", "8">> \o n
        BY <2>16, <2>17, NormalizedIs
    <2> QED BY <2>1, <2>13, <2>18 DEF CountryCode
<1>2. raw \in Texts => SpellingsMeet
    BY <1>1 DEF SpellingsMeet
<1> QED BY <1>2, TextsAreTyped, PTL
=============================================================================
