---------------------------- MODULE ContactTable ----------------------------
(***************************************************************************)
(* The tables contacts and import_batches (database/models.py) as values,  *)
(* and what an import (importers/service.py) makes of one row of a file.   *)
(*                                                                         *)
(* The contacts are a sequence, the position being the id.  Names and      *)
(* phones are sequences of characters.  Of a fingerprint's text the prefix *)
(* is set apart and the rest is what the code concatenates; its hash is    *)
(* taken to be injective.  extra_data and the timestamps are left out:     *)
(* nothing depends on them.  is_valid is `number # None', as the code sets *)
(* both.                                                                   *)
(***************************************************************************)
EXTENDS FiniteSets, ContactHandlers, PhoneNumber

CONSTANT NoName    \* the name given to a contact whose cell is empty

ASSUME ContactTableAssumption == NoName # <<>>

(* A row of a file, as the parser returns it: two stripped texts, and      *)
(* whether one of its other columns is a bale_user_id.                     *)
FileRow == [name : Seq(STRING), phone : Seq(STRING), id : BOOLEAN]

IsValid(c) == c.number # None

(* The phone is taken as it stands in the file. *)
Fault_fingerprint_for(name, phone, number) == [kind |-> "row", key |-> phone]

fingerprint_for(name, phone, number) ==
    IF number # None THEN [kind |-> "valid", key |-> number]
                     ELSE [kind |-> "invalid", key |-> phone \o <<"|">> \o name]

FingerprintOf(row) == fingerprint_for(row.name, row.phone, normalize_phone(row.phone))

(* The name is taken as it is. *)
Fault_NewRow(row) ==
    [name |-> row.name, phone |-> row.phone, number |-> normalize_phone(row.phone),
     fingerprint |-> FingerprintOf(row),
     contact |-> [NewContact EXCEPT !.known = row.id]]

NewRow(row) ==
    [name |-> IF row.name = <<>> THEN NoName ELSE row.name,
     phone |-> row.phone, number |-> normalize_phone(row.phone),
     fingerprint |-> FingerprintOf(row),
     contact |-> [NewContact EXCEPT !.known = row.id]]

-----------------------------------------------------------------------------
(* Queries *)

get_by_fingerprint(contacts, fp) ==
    {i \in DOMAIN contacts : contacts[i].fingerprint = fp}

get_by_normalized_phone(contacts, number) ==
    {i \in DOMAIN contacts : contacts[i].number = number}

(* The number is looked up even if there is none. *)
Fault_Existing(contacts, row) ==
    get_by_fingerprint(contacts, FingerprintOf(row))
        \cup get_by_normalized_phone(contacts, normalize_phone(row.phone))

(* The contacts a row of a file may be taken for.  The second query is     *)
(* made where the first finds nothing; rows are never deleted, so that     *)
(* both may be taken at the moment of the second.                          *)
Existing(contacts, row) ==
    LET same == get_by_fingerprint(contacts, FingerprintOf(row))
    IN  IF same = {} /\ normalize_phone(row.phone) # None
        THEN get_by_normalized_phone(contacts, normalize_phone(row.phone))
        ELSE same

count_valid(contacts)   == Cardinality({i \in DOMAIN contacts : IsValid(contacts[i])})
count_invalid(contacts) == Cardinality({i \in DOMAIN contacts : ~IsValid(contacts[i])})

(* Nothing is unique. *)
Fault_Conflicts(contacts, new) == FALSE

(* The unique constraint on fingerprints and the unique partial index on   *)
(* the numbers of valid contacts                                           *)
Conflicts(contacts, new) ==
    \E i \in DOMAIN contacts :
        \/ contacts[i].fingerprint = new.fingerprint
        \/ IsValid(new) /\ contacts[i].number = new.number

-----------------------------------------------------------------------------
(* What a session keeps of a contact: the row it loaded, and the object    *)
(* with the changes made since.  A flush writes the columns that differ.   *)

Loaded(row) == [loaded |-> row, edited |-> row]

(* All columns are written. *)
Fault_Net(current, loaded, edited) == edited

Net(current, loaded, edited) == IF edited # loaded THEN edited ELSE current

NetContact(current, loaded, edited) ==
    [account  |-> Net(current.account, loaded.account, edited.account),
     known    |-> Net(current.known, loaded.known, edited.known),
     direct   |-> Net(current.direct, loaded.direct, edited.direct),
     link     |-> Net(current.link, loaded.link, edited.link),
     join     |-> Net(current.join, loaded.join, edited.join),
     attempts |-> Net(current.attempts, loaded.attempts, edited.attempts)]

Written(row, object) ==
    [row EXCEPT !.name = Net(@, object.loaded.name, object.edited.name),
                !.phone = Net(@, object.loaded.phone, object.edited.phone),
                !.number = Net(@, object.loaded.number, object.edited.number),
                !.contact = NetContact(@, object.loaded.contact, object.edited.contact)]

(* A contact that a row of a file is found to be; an empty cell leaves it  *)
(* what it was.                                                            *)
Updated(c, row) ==
    [c EXCEPT !.name = IF row.name = <<>> THEN @ ELSE row.name,
              !.phone = IF row.phone = <<>> THEN @ ELSE row.phone,
              !.number = normalize_phone(row.phone),
              !.contact.known = @ \/ row.id]

-----------------------------------------------------------------------------
(* The counts of an import (ImportResult, ImportBatch) *)

Tally == [total : Nat, valid : Nat, invalid : Nat, duplicate : Nat,
          created : Nat, updated : Nat]

NoTally == [total |-> 0, valid |-> 0, invalid |-> 0, duplicate |-> 0,
            created |-> 0, updated |-> 0]

Counted(tally, row) ==
    IF normalize_phone(row.phone) # None THEN [tally EXCEPT !.valid = @ + 1]
                                         ELSE [tally EXCEPT !.invalid = @ + 1]

(* What is skipped is counted as updated. *)
Fault_CountedDuplicate(tally) == [tally EXCEPT !.duplicate = @ + 1, !.updated = @ + 1]

CountedDuplicate(tally) == [tally EXCEPT !.duplicate = @ + 1]

(* What was found is counted as new. *)
Fault_CountedUpdate(tally) == [tally EXCEPT !.duplicate = @ + 1, !.created = @ + 1]

CountedUpdate(tally) == [tally EXCEPT !.duplicate = @ + 1, !.updated = @ + 1]

CountedNew(tally) == [tally EXCEPT !.created = @ + 1]
=============================================================================
