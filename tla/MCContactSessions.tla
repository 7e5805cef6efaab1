------------------------- MODULE MCContactSessions -------------------------
(* Small instances of ContactImports for TLC. *)
EXTENDS ContactImports, TLC

CONSTANTS p1, p2

ProcSymmetry == Permutations(Procs)

Unnamed == <<"?">>

-----------------------------------------------------------------------------
(* Sheets *)

(* A number in two spellings, and what is not a number of the kind wanted *)
Local    == <<"0", "9", "1">>
Abroad   == <<"+", "9", "8", "9", "1">>
Landline == <<"2", "1">>

(* A list that has the number twice, once without a name, and a later one  *)
(* that has it with a name and an id, between rows that differ in their    *)
(* names only.  The last one lacks a phone column.                         *)
SampleSheets ==
    {[headers |-> <<"phone", "name">>,
      rows    |-> <<<<Local, <<"a">>>>, <<Abroad>>, <<Missing, <<" ">>>>>>],
     [headers |-> <<"name", "phone", "id">>,
      rows    |-> <<<<<<>>, Landline>>, <<<<"a", " ">>, Landline>>, <<<<"b">>, Abroad, <<"7">>>>>>],
     [headers |-> <<"name", "other">>,
      rows    |-> <<<<<<"a">>, Local>>>>]}

Lists == {parse_contacts_file(s) : s \in {s \in SampleSheets : Readable(s)}}
=============================================================================
