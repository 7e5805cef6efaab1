--------------------------- MODULE ContactImports ---------------------------
(***************************************************************************)
(* Imports from the sheet to the table: the processes of ContactSessions   *)
(* with the files that sheets are read as.                                 *)
(***************************************************************************)
EXTENDS ContactSessions, ContactFiles

CONSTANT Sheets

ASSUME ContactImportsAssumption == Sheets \subseteq Sheet

(* The phone column of a sheet is the first that has a phone's header. *)
PhoneColumn(headers) ==
    {i \in Columns(headers, "phone") : \A j \in Columns(headers, "phone") : i <= j}

(* The numbers in it, whatever their spelling *)
NumbersIn(sheet, row) ==
    {normalize_phone(row[column]) : column \in PhoneColumn(sheet.headers) \cap DOMAIN row}

Numbers(sheet) ==
    (UNION {NumbersIn(sheet, sheet.rows[k]) : k \in DOMAIN sheet.rows}) \ {None}

Parsed == {[file |-> parse_contacts_file(s), numbers |-> Numbers(s)] :
            s \in {s \in Sheets : Readable(s)}}

(* tests/test_import.py: once a file is imported, each number that stands  *)
(* in its phone column, in whatever spelling and however often, is the     *)
(* number of a contact.                                                    *)
NumbersReachTheTable ==
    \A b \in DOMAIN db.batches, sheet \in Parsed :
        sheet.file = db.batches[b].file =>
            sheet.numbers \subseteq {db.contacts[i].number : i \in DOMAIN db.contacts}
=============================================================================
