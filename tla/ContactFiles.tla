---------------------------- MODULE ContactFiles ----------------------------
(***************************************************************************)
(* importers/parser.py: the rows of a sheet as an import gets them.        *)
(*                                                                         *)
(* A sheet is its first row, taken for headers, and the rows below.  A     *)
(* header stands for all of its spellings: "name", "phone", "id" (a        *)
(* bale_user_id), or "other".  A cell is a text, or Missing, openpyxl's    *)
(* None; how the texts get out of the file is left out.                    *)
(***************************************************************************)
EXTENDS PhoneNumber

Headers == {"name", "phone", "id", "other"}

Missing == <<"None">>

Sheet == [headers : Seq(Headers), rows : Seq(Seq(Seq(STRING)))]

(* str() *)
Text(cell) == IF cell = Missing THEN <<"N", "o", "n", "e">> ELSE cell

Columns(headers, header) == {i \in DOMAIN headers : headers[i] = header}

(* ImportParseError: one of the two columns is there and the other is not, *)
(* or there is just one column.                                            *)
Readable(sheet) ==
    LET names  == Columns(sheet.headers, "name")
        phones == Columns(sheet.headers, "phone")
    IN  IF names = {} /\ phones = {} THEN Len(sheet.headers) >= 2
                                     ELSE names # {} /\ phones # {}

(* The first two columns are always the name and the phone. *)
Fault__map_headers(headers) == <<1, 2>>

_map_headers(headers) ==
    LET names  == Columns(headers, "name")
        phones == Columns(headers, "phone")
    IN  IF names = {} /\ phones = {} THEN <<1, 2>> ELSE <<SetsExt!Min(names), SetsExt!Min(phones)>>

Blank(values) == \A i \in DOMAIN values : values[i] = Missing \/ strip(values[i]) = <<>>

(* A short row has no cell in its last columns.  An empty cell that is     *)
(* Missing rather than an empty text becomes the text None.                *)
Cell(values, i) == IF i <= Len(values) THEN strip(Text(values[i])) ELSE <<>>

_row_to_parsed(values, headers) ==
    LET name  == _map_headers(headers)[1]
        phone == _map_headers(headers)[2]
    IN  [name |-> Cell(values, name), phone |-> Cell(values, phone),
         id |-> \E i \in Columns(headers, "id") \ {name, phone} :
                    i <= Len(values) /\ values[i] # Missing /\ strip(values[i]) # <<>>]

parse_contacts_file(sheet) ==
    LET filled == {i \in DOMAIN sheet.rows : ~Blank(sheet.rows[i])}
        rows   == Kept(sheet.rows, {sheet.rows[i] : i \in filled})
    IN  [k \in DOMAIN rows |-> _row_to_parsed(rows[k], sheet.headers)]
=============================================================================
