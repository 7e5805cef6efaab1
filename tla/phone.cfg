CONSTANTS
    NationalLength = 3
    Alphabet = {"0", "8", "9", "p9", "d9", "-", "+"}
    MaxLength = 7
SPECIFICATION Spec
INVARIANT NormalFormIsStable
INVARIANT SpellingsMeet
INVARIANT OnlyDigitsDecide
CHECK_DEADLOCK FALSE
