--------------------------- MODULE BotRuntimeProofs ---------------------------
(***************************************************************************)
(* What the bot keeps of the people who write to it, for any contacts,     *)
(* settings and limits.                                                    *)
(*                                                                         *)
(* The inductive invariant orders the updates: those that were handled are *)
(* before the offset, those of the transaction after it (Ordered).  It     *)
(* does not say that all those before it were handled.  It says of         *)
(* the tables, committed and in the session, whom they record as invited   *)
(* and who has been answered (Fits), and of each /start how often it may   *)
(* have been answered (Greeted).                                           *)
(***************************************************************************)
EXTENDS BotRuntime, TLAPS

Tables   == [contact : [Contacts -> Contact], jobs : SUBSET (JobType \X Contacts), link : BOOLEAN]
Sessions == [contact : [Contacts -> Contact], jobs : SUBSET (JobType \X Contacts),
             link : BOOLEAN, found : SUBSET Contacts]

(* Contact c is recorded as invited or joined only if it is in B. *)
Honest(r, c, B) == r.direct = "SUCCESS" \/ r.join = "JOINED" => c \in B

(* The invitation went through, or the link or its failure is on record. *)
Answered(r) == r.known /\ (r.direct = "SUCCESS" \/ r.link # "NOT_SENT")

(* The contacts that are shared in the updates N *)
Sharers(N) == {c \in Contacts : \E n \in N : inbox[n].kind = "contact" /\ inbox[n].from = c}

(* The contacts of a table or a session, where B have been in the group    *)
(* and S have been served                                                  *)
Fits(contact, B, S) ==
    /\ \A c \in Contacts : Honest(contact[c], c, B)
    /\ \A c \in S : Answered(contact[c])

(* The updates that were handled, and those of this transaction *)
Ordered ==
    /\ \A n \in handled : n < offset
    /\ \A n \in taken : offset <= n /\ n < next
    /\ \A i \in DOMAIN batch : offset <= batch[i] /\ batch[i] < next /\ batch[i] \notin taken
    /\ \A i, j \in DOMAIN batch : i # j => batch[i] # batch[j]
    /\ next # 0 => offset < next
    /\ pc = "idle" => batch = <<>> /\ next = 0 /\ taken = {} /\ session = Opened(db)

(* An update that is done was greeted, at most once more than rolled back. *)
Greeted ==
    \A n \in DOMAIN inbox :
        /\ n \in handled \cup taken => (inbox[n].kind = "start" => greeted[n] > 0)
        /\ n \in handled \cup taken => greeted[n] <= 1 + aborts
        /\ n \notin handled \cup taken => greeted[n] <= aborts

(* The inductive invariant *)
IInv ==
    /\ TypeOK
    /\ Len(inbox) <= MaxUpdates
    /\ Fits(db.contact, been, Sharers(handled))
    /\ Fits(session.contact, been, Sharers(handled \cup taken))
    /\ Ordered
    /\ \A n \in (1..MaxUpdates) \ DOMAIN inbox : greeted[n] = 0
    /\ Greeted

-----------------------------------------------------------------------------
(* Handlers *)

(* What was true of a contact stays true of what a handler leaves of it. *)
Keeps(r, left, c, B) ==
    /\ left \in Contact
    /\ Honest(r, c, B) => Honest(left, c, B)
    /\ r.known => left.known
    /\ Answered(r) => Answered(left)

LEMMA KeepsBoth ==
    ASSUME NEW r, NEW q, NEW left, NEW c, NEW B, Keeps(r, q, c, B), Keeps(q, left, c, B)
    PROVE  Keeps(r, left, c, B)
BY DEF Keeps

LEMMA Attempted ==
    ASSUME NEW r \in Contact
    PROVE  /\ record_attempt(r) \in Contact
           /\ record_attempt(r).known = r.known /\ record_attempt(r).direct = r.direct
           /\ record_attempt(r).link = r.link /\ record_attempt(r).join = r.join
<1>1. r.attempts + 1 \in Nat
    BY DEF Contact
<1> QED BY <1>1 DEF record_attempt, Contact

(* Somebody who shares their contact is known from then on. *)
LEMMA SharedKeeps ==
    ASSUME NEW r \in Contact, NEW c, NEW B
    PROVE  Keeps(r, shared_contact(r), c, B) /\ shared_contact(r).known
<1> DEFINE known == [r EXCEPT !.known = TRUE]
           found == set_bale_account_status(known, "HAS_ACCOUNT")
<1>1. /\ known \in Contact /\ known.known
      /\ known.direct = r.direct /\ known.link = r.link /\ known.join = r.join
    BY DEF Contact
<1> HIDE DEF known
<1>2. /\ found \in Contact /\ found.known = known.known
      /\ found.direct = known.direct /\ found.link = known.link /\ found.join = known.join
    BY <1>1 DEF set_bale_account_status, BaleAccountStatus, Contact
<1>3. shared_contact(r) = record_attempt(found)
    BY DEF shared_contact, known
<1> HIDE DEF found
<1>4. /\ shared_contact(r) \in Contact /\ shared_contact(r).known
      /\ shared_contact(r).direct = r.direct /\ shared_contact(r).link = r.link
      /\ shared_contact(r).join = r.join
    BY <1>1, <1>2, <1>3, Attempted
<1> QED BY <1>4 DEF Keeps, Honest, Answered

(* An invitation is a success only if the messenger says so, and a success *)
(* is not taken back.                                                      *)
LEMMA InviteKeeps ==
    ASSUME NEW r \in Contact, NEW answer \in {"SUCCESS", "FAILED", "SKIPPED", "timeout"},
           NEW hasGroup, NEW strategy, NEW c, NEW B, answer = "SUCCESS" => c \in B
    PROVE  /\ Keeps(r, process_direct_invite(r, answer, hasGroup, strategy).contact, c, B)
           /\ process_direct_invite(r, answer, hasGroup, strategy).follow \subseteq JobType
<1> DEFINE asked  == r.known /\ hasGroup
           status == CASE ~asked                         -> "SKIPPED"
                       [] asked /\ answer \in Raised     -> "FAILED"
                       [] asked /\ answer \notin Raised  -> answer
           moved  == set_direct_invite_status(record_attempt(r), status)
           out    == process_direct_invite(r, answer, hasGroup, strategy)
<1>1. status \in DirectInviteStatus /\ (status = "SUCCESS" => answer = "SUCCESS")
    BY DEF Raised, DirectInviteStatus
<1>2. out.contact = moved /\ out.follow \subseteq JobType
    BY DEF process_direct_invite, Outcome
<1> HIDE DEF status, out
<1>3. /\ moved \in Contact /\ moved.known = r.known /\ moved.link = r.link /\ moved.join = r.join
      /\ moved.direct = "SUCCESS" => r.direct = "SUCCESS" \/ answer = "SUCCESS"
      /\ r.direct = "SUCCESS" => moved.direct = "SUCCESS"
    BY <1>1, Attempted DEF set_direct_invite_status, DIRECT_INVITE_TRANSITIONS, Contact
<1> HIDE DEF moved
<1>4. Keeps(r, moved, c, B)
    BY <1>3 DEF Keeps, Honest, Answered
<1> QED BY <1>2, <1>4 DEF out

(* Whoever is known has been sent the link, or the failure is on record.   *)
LEMMA LinkKeeps ==
    ASSUME NEW r \in Contact, NEW answer \in SendAnswers, NEW c, NEW B
    PROVE  /\ Keeps(r, process_invite_link(r, answer).contact, c, B)
           /\ r.known => Answered(process_invite_link(r, answer).contact)
           /\ process_invite_link(r, answer).follow = {}
<1> DEFINE status == IF ~r.known \/ answer \in Raised THEN "FAILED" ELSE answer
           moved  == set_invite_link_status(record_attempt(r), status)
<1>1. /\ process_invite_link(r, answer).contact = moved
      /\ process_invite_link(r, answer).follow = {}
    BY DEF process_invite_link, Outcome
<1>2. status \in {"SENT", "FAILED"}
    BY DEF SendAnswers, Raised
<1> HIDE DEF status
<1>3. /\ moved \in Contact /\ moved.known = r.known /\ moved.direct = r.direct
      /\ moved.join = r.join /\ moved.link = status
    BY <1>2, Attempted
       DEF set_invite_link_status, INVITE_LINK_TRANSITIONS, InviteLinkStatus, Contact
<1> HIDE DEF moved
<1>4. Keeps(r, moved, c, B) /\ (r.known => Answered(moved))
    BY <1>2, <1>3 DEF Keeps, Honest, Answered
<1> QED BY <1>1, <1>4

(* A membership is recorded where it was found. *)
LEMMA JoinKeeps ==
    ASSUME NEW r \in Contact, NEW answer \in {"UNKNOWN", "timeout", "JOINED", "NOT_JOINED"},
           NEW c, NEW B, answer = "JOINED" => c \in B
    PROVE  /\ Keeps(r, process_join_check(r, answer).contact, c, B)
           /\ process_join_check(r, answer).follow = {}
<1> DEFINE moved == set_join_status(record_attempt(r), answer)
<1>1. /\ process_join_check(r, answer).contact = IF answer = "timeout" THEN r ELSE moved
      /\ process_join_check(r, answer).follow = {}
    BY DEF process_join_check, Outcome, Raised
<1>2. answer # "timeout" =>
        /\ moved \in Contact /\ moved.known = r.known /\ moved.direct = r.direct
        /\ moved.link = r.link /\ moved.join \in {r.join, answer}
    BY Attempted DEF set_join_status, JoinStatus, Contact
<1> HIDE DEF moved
<1>3. CASE answer = "timeout"
    BY <1>1, <1>3 DEF Keeps
<1>4. CASE answer # "timeout"
    BY <1>1, <1>2, <1>4 DEF Keeps, Honest, Answered
<1> QED BY <1>3, <1>4

-----------------------------------------------------------------------------
(* Sessions *)

LEMMA FlushedFits ==
    ASSUME NEW s \in Sessions
    PROVE  Flushed(s) \in Sessions /\ Flushed(s).contact = s.contact
BY DEF Flushed, Found, Sessions

LEMMA OpenedFits ==
    ASSUME NEW d \in Tables
    PROVE  Opened(d) \in Sessions /\ Opened(d).contact = d.contact
BY DEF Opened, Found, Sessions, Tables

(* A handler's outcome for contact c *)
LEMMA TookFits ==
    ASSUME NEW s \in Sessions, NEW c \in Contacts, NEW out, out.contact \in Contact,
           out.follow \subseteq JobType
    PROVE  /\ Took(s, c, out) \in Sessions
           /\ Took(s, c, out).contact = [s.contact EXCEPT ![c] = out.contact]
<1> DEFINE left == [s EXCEPT !.contact[c] = out.contact]
           jobs == {<<t, c>> : t \in out.follow} \ s.jobs
           more == [left EXCEPT !.jobs = left.jobs \cup jobs]
<1>1. left \in Sessions /\ left.contact = [s.contact EXCEPT ![c] = out.contact]
    BY DEF Sessions
<1>2. jobs \subseteq JobType \X Contacts
    OBVIOUS
<1>3. Took(s, c, out) = IF jobs = {} THEN left ELSE Flushed(more)
    BY DEF Took
<1> HIDE DEF left, jobs
<1>4. more \in Sessions /\ more.contact = left.contact
    BY <1>1, <1>2 DEF Sessions
<1> HIDE DEF more
<1> QED BY <1>1, <1>3, <1>4, FlushedFits

LEMMA LinkFoundFits ==
    ASSUME NEW s \in Sessions, NEW t \in LinkFound(s)
    PROVE  t \in Sessions /\ t.contact = s.contact
<1>1. \/ t = s
      \/ t = Flushed([s EXCEPT !.link = TRUE])
    BY DEF LinkFound
<1>2. [s EXCEPT !.link = TRUE] \in Sessions /\ [s EXCEPT !.link = TRUE].contact = s.contact
    BY DEF Sessions
<1> QED BY <1>1, <1>2, FlushedFits

(* More people may have been in the group, and fewer be looked at.         *)
LEMMA FitsMore ==
    ASSUME NEW contact, NEW B, NEW C, B \subseteq C, NEW S, NEW T, T \subseteq S,
           Fits(contact, B, S)
    PROVE  Fits(contact, C, T)
BY DEF Fits, Honest

(* One contact is changed. *)
LEMMA FitsChanged ==
    ASSUME NEW contact \in [Contacts -> Contact], NEW c \in Contacts, NEW left, NEW B,
           NEW S \in SUBSET Contacts, Fits(contact, B, S), Keeps(contact[c], left, c, B)
    PROVE  Fits([contact EXCEPT ![c] = left], B, S)
<1>1. \A k \in Contacts :
        [contact EXCEPT ![c] = left][k] = IF k = c THEN left ELSE contact[k]
    OBVIOUS
<1> QED BY <1>1 DEF Fits, Keeps

-----------------------------------------------------------------------------
(* How a handler ends *)

LEMMA Typed ==
    ASSUME IInv
    PROVE  /\ db \in Tables /\ session \in Sessions
           /\ db.contact \in [Contacts -> Contact] /\ session.contact \in [Contacts -> Contact]
           /\ members \subseteq been /\ been \subseteq People
           /\ inbox \in Seq(Update) /\ Len(inbox) \in Nat /\ DOMAIN inbox = 1..Len(inbox)
           /\ DOMAIN inbox \subseteq 1..MaxUpdates /\ DOMAIN inbox \subseteq Nat
           /\ batch \in Seq(DOMAIN inbox) /\ env \in Environments
           /\ offset \in Nat /\ next \in Nat /\ aborts \in Nat
           /\ taken \subseteq DOMAIN inbox /\ handled \subseteq DOMAIN inbox
           /\ greeted \in [1..MaxUpdates -> Nat]
           /\ MaxUpdates \in Nat
BY BotRuntimeAssumption DEF IInv, TypeOK, Tables, Sessions

LEMMA EnvTyped ==
    ASSUME IInv
    PROVE  env.group \in BOOLEAN /\ env.link \in BOOLEAN /\ env.auto \in BOOLEAN
BY Typed, BotRuntimeAssumption

(* The update that is handled *)
LEMMA HeadFits ==
    ASSUME IInv, batch # <<>>
    PROVE  /\ Head(batch) \in DOMAIN inbox /\ Head(batch) \in Nat
           /\ Item \in Update
           /\ Head(batch) \notin handled \cup taken
           /\ offset <= Head(batch) /\ Head(batch) < next
           /\ Tail(batch) \in Seq(DOMAIN inbox)
           /\ \A i \in DOMAIN Tail(batch) :
                i + 1 \in DOMAIN batch /\ Tail(batch)[i] = batch[i + 1] /\ i + 1 # 1
           /\ 1 \in DOMAIN batch /\ Head(batch) = batch[1]
<1>1. /\ Len(batch) \in Nat /\ Len(batch) > 0 /\ 1 \in DOMAIN batch
      /\ Head(batch) = batch[1] /\ Head(batch) \in DOMAIN inbox
      /\ Tail(batch) \in Seq(DOMAIN inbox)
      /\ \A i \in DOMAIN Tail(batch) :
            i + 1 \in DOMAIN batch /\ Tail(batch)[i] = batch[i + 1] /\ i + 1 # 1
    BY Typed
<1>2. Head(batch) \in Nat /\ offset <= Head(batch) /\ Head(batch) < next
    BY <1>1, Typed DEF IInv, Ordered
<1>3. Head(batch) \notin taken
    BY <1>1 DEF IInv, Ordered
<1>4. Head(batch) \notin handled
    BY <1>2, Typed DEF IInv, Ordered
<1>5. Item \in Update
    BY <1>1, Typed DEF Item
<1> QED BY <1>1, <1>2, <1>3, <1>4, <1>5

(* It returns: the session goes on to the next update. *)
LEMMA ReturnKeeps ==
    ASSUME IInv, pc = "handling", batch # <<>>, NEW s \in Sessions, Return(s),
           Fits(s.contact, been', Sharers(handled \cup taken \cup {Head(batch)})),
           members' \subseteq been', been \subseteq been', been' \subseteq People,
           greeted' \in [1..MaxUpdates -> Nat],
           \A n \in DOMAIN inbox \ {Head(batch)} : greeted'[n] = greeted[n],
           \A n \in (1..MaxUpdates) \ DOMAIN inbox : greeted'[n] = greeted[n],
           greeted'[Head(batch)] <= greeted[Head(batch)] + 1,
           Item.kind = "start" => greeted'[Head(batch)] > 0
    PROVE  IInv'
<1>1. /\ session' = s /\ batch' = Tail(batch) /\ taken' = taken \cup {Head(batch)}
      /\ env' = env /\ pc' = pc /\ next' = next /\ db' = db /\ offset' = offset
      /\ handled' = handled /\ inbox' = inbox /\ aborts' = aborts
    BY DEF Return, stored
<1>2. TypeOK'
    BY <1>1, Typed, HeadFits DEF IInv, TypeOK, Sessions
<1>3. Fits(db.contact, been, Sharers(handled))' /\ Fits(session.contact, been, Sharers(handled \cup taken))'
    <2>1. Sharers(handled)' = Sharers(handled)
        BY <1>1 DEF Sharers
    <2>2. Fits(db.contact, been', Sharers(handled))
        BY FitsMore DEF IInv
    <2>3. Sharers(handled \cup taken)' = Sharers(handled \cup taken \cup {Head(batch)})
        BY <1>1 DEF Sharers
    <2> QED BY <1>1, <2>1, <2>2, <2>3 DEF Fits
<1>4. Ordered'
    <2>1. \A n \in taken' : offset <= n /\ n < next
        BY <1>1, HeadFits DEF IInv, Ordered
    <2>2. ASSUME NEW i \in DOMAIN Tail(batch)
          PROVE  /\ offset <= Tail(batch)[i] /\ Tail(batch)[i] < next
                 /\ Tail(batch)[i] \notin taken'
        BY <1>1, <2>2, HeadFits DEF IInv, Ordered
    <2>3. ASSUME NEW i \in DOMAIN Tail(batch), NEW j \in DOMAIN Tail(batch), i # j
          PROVE  Tail(batch)[i] # Tail(batch)[j]
        <3>1. i + 1 # j + 1
            BY <2>3, Typed, HeadFits
        <3> QED BY <3>1, HeadFits DEF IInv, Ordered
    <2> QED BY <1>1, <2>1, <2>2, <2>3 DEF IInv, Ordered
<1>5. Greeted'
    <2>1. ASSUME NEW n \in DOMAIN inbox, n # Head(batch)
          PROVE  /\ n \in handled \cup taken' => (inbox[n].kind = "start" => greeted'[n] > 0)
                 /\ n \in handled \cup taken' => greeted'[n] <= 1 + aborts
                 /\ n \notin handled \cup taken' => greeted'[n] <= aborts
        BY <1>1, <2>1 DEF IInv, Greeted
    <2>2. /\ inbox[Head(batch)].kind = "start" => greeted'[Head(batch)] > 0
          /\ greeted'[Head(batch)] <= 1 + aborts
        <3>1. greeted[Head(batch)] <= aborts
            BY HeadFits DEF IInv, Greeted
        <3>2. greeted[Head(batch)] \in Nat /\ greeted'[Head(batch)] \in Nat /\ aborts \in Nat
            BY Typed, HeadFits
        <3> QED BY <3>1, <3>2 DEF Item
    <2> QED BY <1>1, <2>1, <2>2 DEF Greeted
<1> QED BY <1>1, <1>2, <1>3, <1>4, <1>5 DEF IInv

(* It raises, or somebody interrupts: what it asked for may be done, and a *)
(* reply may have been sent.                                               *)
LEMMA RollBackKeeps ==
    ASSUME IInv, RollBack,
           members' \subseteq been', been \subseteq been', been' \subseteq People,
           greeted' \in [1..MaxUpdates -> Nat],
           \A n \in DOMAIN inbox \cap (handled \cup taken) : greeted'[n] = greeted[n],
           \A n \in (1..MaxUpdates) \ DOMAIN inbox : greeted'[n] = greeted[n],
           \A n \in DOMAIN inbox : greeted'[n] <= greeted[n] + 1
    PROVE  IInv'
<1>1. /\ session' = Opened(db) /\ batch' = <<>> /\ taken' = {} /\ next' = 0 /\ pc' = "idle"
      /\ env' \in Environments /\ db' = db /\ offset' = offset
      /\ handled' = handled /\ inbox' = inbox /\ aborts' = aborts + 1
    BY DEF RollBack, stored
<1>2. Opened(db) \in Sessions /\ Opened(db).contact = db.contact
    BY Typed, OpenedFits
<1>3. TypeOK'
    BY <1>1, <1>2, Typed DEF IInv, TypeOK, Sessions
<1>4. Fits(db.contact, been, Sharers(handled))' /\ Fits(session.contact, been, Sharers(handled \cup taken))'
    <2>1. Sharers(handled)' = Sharers(handled) /\ Sharers(handled \cup taken)' = Sharers(handled)
        BY <1>1 DEF Sharers
    <2>2. Fits(db.contact, been', Sharers(handled))
        BY FitsMore DEF IInv
    <2> QED BY <1>1, <1>2, <2>1, <2>2
<1>5. Ordered'
    BY <1>1 DEF IInv, Ordered, Opened, Found
<1>6. Greeted'
    <2>1. ASSUME NEW n \in DOMAIN inbox
          PROVE  /\ n \in handled => (inbox[n].kind = "start" => greeted'[n] > 0)
                 /\ n \in handled => greeted'[n] <= 1 + aborts'
                 /\ n \notin handled => greeted'[n] <= aborts'
        <3>1. greeted[n] \in Nat /\ greeted'[n] \in Nat /\ aborts \in Nat
            BY Typed
        <3>2. CASE n \in handled \cup taken
            BY <1>1, <3>1, <3>2 DEF IInv, Greeted
        <3>3. CASE n \notin handled \cup taken
            BY <1>1, <3>1, <3>3 DEF IInv, Greeted
        <3> QED BY <3>2, <3>3
    <2> QED BY <1>1, <2>1 DEF Greeted
<1> QED BY <1>1, <1>3, <1>4, <1>5, <1>6 DEF IInv

-----------------------------------------------------------------------------
(* What the messenger did *)

LEMMA AddedFits ==
    ASSUME IInv, NEW p \in People, NEW a \in Invitations(p) \cup StrangersInvitations(p),
           Added(p, a)
    PROVE  /\ a.answer \in {"SUCCESS", "FAILED", "SKIPPED", "timeout"}
           /\ a.answer = "SUCCESS" => p \in been'
           /\ members' \subseteq been' /\ been \subseteq been' /\ been' \subseteq People
<1>1. a \in InviteAnswers(p) \cup {Reply("SKIPPED", FALSE)}
    BY DEF Invitations, StrangersInvitations
<1>2. members \subseteq been /\ been \subseteq People
    BY Typed
<1>3. /\ a.answer \in {"SUCCESS", "FAILED", "SKIPPED", "timeout"}
      /\ a.answer = "SUCCESS" => p \in members \/ a.done
    BY <1>1 DEF InviteAnswers, Reply
<1>4. /\ members' \subseteq been' /\ been \subseteq been' /\ been' \subseteq People
      /\ a.done => p \in been'
    BY <1>2 DEF Added
<1> QED BY <1>2, <1>3, <1>4

(* A reply to the update that is handled, or none *)
LEMMA GreetFits ==
    ASSUME IInv, batch # <<>>, Greet \/ UNCHANGED greeted
    PROVE  /\ greeted' \in [1..MaxUpdates -> Nat]
           /\ \A n \in (1..MaxUpdates) \ {Head(batch)} : greeted'[n] = greeted[n]
           /\ Greet => greeted'[Head(batch)] = greeted[Head(batch)] + 1
           /\ \A n \in DOMAIN inbox : greeted'[n] <= greeted[n] + 1
<1>1. /\ Head(batch) \in 1..MaxUpdates /\ greeted \in [1..MaxUpdates -> Nat]
      /\ DOMAIN inbox \subseteq 1..MaxUpdates
    BY Typed, HeadFits
<1>2. greeted[Head(batch)] + 1 \in Nat
    BY <1>1
<1>3. CASE Greet
    <2>1. greeted' = [greeted EXCEPT ![Head(batch)] = greeted[Head(batch)] + 1]
        BY <1>1, <1>3 DEF Greet
    <2>2. \A n \in 1..MaxUpdates : greeted[n] \in Nat
        BY <1>1
    <2>3. \A n \in 1..MaxUpdates :
            greeted'[n] = IF n = Head(batch) THEN greeted[n] + 1 ELSE greeted[n]
        BY <1>1, <2>1
    <2>4. greeted' \in [1..MaxUpdates -> Nat]
        BY <1>1, <1>2, <2>1
    <2>5. \A n \in 1..MaxUpdates : greeted'[n] <= greeted[n] + 1
        BY <2>2, <2>3
    <2> QED BY <1>1, <2>3, <2>4, <2>5
<1>4. CASE ~Greet /\ UNCHANGED greeted
    <2>1. \A n \in 1..MaxUpdates : greeted[n] \in Nat
        BY <1>1
    <2>2. \A n \in 1..MaxUpdates : greeted'[n] <= greeted[n] + 1
        BY <1>4, <2>1
    <2> QED BY <1>1, <1>4, <2>2
<1> QED BY <1>3, <1>4

(* A handler of a /start or of something else returns or raises. *)
LEMMA EndKeeps ==
    ASSUME IInv, pc = "handling", batch # <<>>, NEW s \in Sessions, NEW ends, End(ends, s),
           ends = "done" =>
                Fits(s.contact, been', Sharers(handled \cup taken \cup {Head(batch)})),
           members' \subseteq been', been \subseteq been', been' \subseteq People,
           Greet \/ (UNCHANGED greeted /\ Item.kind # "start")
    PROVE  IInv'
<1>1. /\ greeted' \in [1..MaxUpdates -> Nat]
      /\ \A n \in (1..MaxUpdates) \ {Head(batch)} : greeted'[n] = greeted[n]
      /\ Greet => greeted'[Head(batch)] = greeted[Head(batch)] + 1
      /\ \A n \in DOMAIN inbox : greeted'[n] <= greeted[n] + 1
    BY GreetFits
<1>2. /\ Head(batch) \in DOMAIN inbox /\ Head(batch) \notin handled \cup taken
      /\ DOMAIN inbox \subseteq 1..MaxUpdates
      /\ greeted[Head(batch)] \in Nat
    BY Typed, HeadFits
<1>3. /\ \A n \in DOMAIN inbox \ {Head(batch)} : greeted'[n] = greeted[n]
      /\ \A n \in (1..MaxUpdates) \ DOMAIN inbox : greeted'[n] = greeted[n]
      /\ \A n \in DOMAIN inbox \cap (handled \cup taken) : greeted'[n] = greeted[n]
    BY <1>1, <1>2
<1>4. CASE ends = "done"
    <2>1. greeted'[Head(batch)] <= greeted[Head(batch)] + 1
        BY <1>1, <1>2
    <2>2. Item.kind = "start" => greeted'[Head(batch)] > 0
        BY <1>1, <1>2
    <2>3. Return(s)
        BY <1>4 DEF End
    <2> QED BY <1>1, <1>3, <1>4, <2>1, <2>2, <2>3, ReturnKeeps
<1>5. CASE ends # "done"
    <2>1. RollBack
        BY <1>5 DEF End
    <2> QED BY <1>1, <1>3, <2>1, RollBackKeeps
<1> QED BY <1>4, <1>5

(* Without a shared contact nobody more has to be served. *)
LEMMA SharersStay ==
    ASSUME IInv, Item.kind # "contact" \/ Item.from \notin Contacts
    PROVE  Sharers(handled \cup taken \cup {Head(batch)}) = Sharers(handled \cup taken)
BY DEF Sharers, Item

LEMMA SharersType ==
    ASSUME NEW N
    PROVE  Sharers(N) \in SUBSET Contacts
BY DEF Sharers

-----------------------------------------------------------------------------
(* The handlers of updates *)

(* Both handlers of a /start look for the link first. *)
LEMMA LinkedFits ==
    ASSUME IInv,
           NEW s \in LinkFound(session) \cup (IF LinkRaises(session) THEN {session} ELSE {})
    PROVE  s \in Sessions /\ s.contact = session.contact
BY Typed, LinkFoundFits

LEMMA HandleStartKeeps ==
    ASSUME IInv, HandleStart
    PROVE  IInv'
<1>1. PICK s \in LinkFound(session) \cup (IF LinkRaises(session) THEN {session} ELSE {}) :
        /\ Item.from \in s.found
        /\ \E a \in Invitations(Item.from) :
            LET out == process_direct_invite(s.contact[Item.from], a.answer, env.group, env.strategy)
            IN  End(out.ends, Took(s, Item.from, out)) /\ Added(Item.from, a)
    BY DEF HandleStart
<1>2. PICK c : c = Item.from
    OBVIOUS
<1>3. PICK a \in Invitations(c) :
        LET out == process_direct_invite(s.contact[c], a.answer, env.group, env.strategy)
        IN  End(out.ends, Took(s, c, out)) /\ Added(c, a)
    BY <1>1, <1>2
<1>4. PICK out : out = process_direct_invite(s.contact[c], a.answer, env.group, env.strategy)
    OBVIOUS
<1>5. End(out.ends, Took(s, c, out)) /\ Added(c, a)
    BY <1>3, <1>4
<1>6. pc = "handling" /\ batch # <<>> /\ Item.kind = "start" /\ Greet
    BY DEF HandleStart, Handling
<1>7. s \in Sessions /\ s.contact = session.contact
    BY LinkedFits
<1>8. c \in Contacts /\ c \in People
    BY <1>1, <1>2, <1>7 DEF Sessions, People
<1>9. /\ a.answer \in {"SUCCESS", "FAILED", "SKIPPED", "timeout"}
      /\ a.answer = "SUCCESS" => c \in been'
      /\ members' \subseteq been' /\ been \subseteq been' /\ been' \subseteq People
    BY <1>5, <1>8, AddedFits
<1>10. session.contact \in [Contacts -> Contact] /\ session.contact[c] \in Contact
    BY <1>8, Typed
<1>11. Keeps(session.contact[c], out.contact, c, been') /\ out.follow \subseteq JobType
    BY <1>4, <1>7, <1>9, <1>10, InviteKeeps
<1>12. /\ Took(s, c, out) \in Sessions
       /\ Took(s, c, out).contact = [session.contact EXCEPT ![c] = out.contact]
    BY <1>7, <1>8, <1>11, TookFits DEF Keeps
<1>13. Fits(session.contact, been', Sharers(handled \cup taken))
    BY <1>9, FitsMore DEF IInv
<1>14. Fits([session.contact EXCEPT ![c] = out.contact], been', Sharers(handled \cup taken))
    BY <1>8, <1>10, <1>11, <1>13, FitsChanged, SharersType
<1>15. Fits(Took(s, c, out).contact, been', Sharers(handled \cup taken \cup {Head(batch)}))
    BY <1>6, <1>12, <1>14, SharersStay
<1> QED BY <1>5, <1>6, <1>9, <1>12, <1>15, EndKeeps

LEMMA HandleStartOfStrangerKeeps ==
    ASSUME IInv, HandleStartOfStranger
    PROVE  IInv'
<1>1. PICK s \in LinkFound(session) \cup (IF LinkRaises(session) THEN {session} ELSE {}) :
        \E a \in StrangersInvitations(Item.from) : End(Ends(a.answer), s) /\ Added(Item.from, a)
    BY DEF HandleStartOfStranger
<1>2. PICK a \in StrangersInvitations(Item.from) : End(Ends(a.answer), s) /\ Added(Item.from, a)
    BY <1>1
<1>3. pc = "handling" /\ batch # <<>> /\ Item.kind = "start" /\ Greet
    BY DEF HandleStartOfStranger, Handling
<1>4. s \in Sessions /\ s.contact = session.contact
    BY LinkedFits
<1>5. Item.from \in People
    BY <1>3, HeadFits DEF Update
<1>6. members' \subseteq been' /\ been \subseteq been' /\ been' \subseteq People
    BY <1>2, <1>5, AddedFits
<1>7. Fits(s.contact, been', Sharers(handled \cup taken \cup {Head(batch)}))
    BY <1>3, <1>4, <1>6, FitsMore, SharersStay DEF IInv
<1> QED BY <1>2, <1>3, <1>4, <1>6, <1>7, EndKeeps

LEMMA GreetingFailsKeeps ==
    ASSUME IInv, GreetingFails
    PROVE  IInv'
<1>1. /\ pc = "handling" /\ batch # <<>> /\ Item.kind = "start"
      /\ RollBack /\ (Greet \/ UNCHANGED greeted) /\ members' = members /\ been' = been
    BY DEF GreetingFails, Handling
<1>2. /\ greeted' \in [1..MaxUpdates -> Nat]
      /\ \A n \in (1..MaxUpdates) \ {Head(batch)} : greeted'[n] = greeted[n]
      /\ \A n \in DOMAIN inbox : greeted'[n] <= greeted[n] + 1
    BY <1>1, GreetFits
<1>3. /\ Head(batch) \in DOMAIN inbox /\ Head(batch) \notin handled \cup taken
      /\ DOMAIN inbox \subseteq 1..MaxUpdates
    BY <1>1, Typed, HeadFits
<1>4. /\ \A n \in DOMAIN inbox \cap (handled \cup taken) : greeted'[n] = greeted[n]
      /\ \A n \in (1..MaxUpdates) \ DOMAIN inbox : greeted'[n] = greeted[n]
    BY <1>2, <1>3
<1>5. members' \subseteq been' /\ been \subseteq been' /\ been' \subseteq People
    BY <1>1, Typed
<1> QED BY <1>1, <1>2, <1>4, <1>5, RollBackKeeps

LEMMA HandleOtherKeeps ==
    ASSUME IInv, HandleOther
    PROVE  IInv'
<1>1. /\ pc = "handling" /\ batch # <<>> /\ Item.kind = "other"
      /\ Return(session) /\ members' = members /\ been' = been /\ greeted' = greeted
    BY DEF HandleOther, Handling, world
<1>2. End("done", session)
    BY <1>1 DEF End
<1>3. session \in Sessions /\ members' \subseteq been' /\ been \subseteq been' /\ been' \subseteq People
    BY <1>1, Typed
<1>4. Fits(session.contact, been', Sharers(handled \cup taken \cup {Head(batch)}))
    BY <1>1, SharersStay DEF IInv
<1> QED BY <1>1, <1>2, <1>3, <1>4, EndKeeps

LEMMA HandleStrangersContactKeeps ==
    ASSUME IInv, HandleStrangersContact
    PROVE  IInv'
<1>1. PICK a \in StrangersInvitations(Stranger) :
        End(Ends(a.answer), session) /\ Added(Stranger, a)
    BY DEF HandleStrangersContact
<1>2. /\ pc = "handling" /\ batch # <<>> /\ Item.kind = "contact" /\ Item.from = Stranger
      /\ greeted' = greeted
    BY DEF HandleStrangersContact, Handling
<1>3. session \in Sessions /\ Stranger \notin Contacts /\ Stranger \in People
    BY Typed, BotRuntimeAssumption DEF People
<1>4. members' \subseteq been' /\ been \subseteq been' /\ been' \subseteq People
    BY <1>1, <1>3, AddedFits
<1>5. Fits(session.contact, been', Sharers(handled \cup taken \cup {Head(batch)}))
    BY <1>2, <1>3, <1>4, FitsMore, SharersStay DEF IInv
<1> QED BY <1>1, <1>2, <1>3, <1>4, <1>5, EndKeeps

(* Who shares their contact is matched and invited, and sent the link      *)
(* where that does not succeed: they are served when the handler returns.  *)
LEMMA ServedFits ==
    ASSUME IInv, NEW c \in Contacts, c = Item.from,
           NEW s \in Sessions, NEW B, Fits(s.contact, B, Sharers(handled \cup taken)),
           Answered(s.contact[c])
    PROVE  Fits(s.contact, B, Sharers(handled \cup taken \cup {Head(batch)}))
BY DEF Fits, Sharers, Item

LEMMA HandleContactKeeps ==
    ASSUME IInv, HandleContact
    PROVE  IInv'
<1>1. PICK c : c = Item.from
    OBVIOUS
<1>2. /\ pc = "handling" /\ batch # <<>> /\ Item.kind = "contact" /\ c \in Contacts
      /\ greeted' = greeted
    BY <1>1 DEF HandleContact, Handling
<1>3. PICK matched : matched = Matched(session, c)
    OBVIOUS
<1>4. PICK a \in Invitations(c) :
        LET invited == process_direct_invite(matched.contact[c], a.answer, env.group, env.strategy)
            s       == Took(matched, c, invited)
        IN  /\ Added(c, a)
            /\ \/ invited.ends # "done" /\ RollBack
               \/ /\ invited.ends = "done" /\ s.contact[c].direct = "SUCCESS"
                  /\ Return(s)
               \/ /\ invited.ends = "done" /\ s.contact[c].direct # "SUCCESS"
                  /\ \/ LinkRaises(s) /\ RollBack
                     \/ \E l \in LinkFound(s), answer \in SendAnswers :
                            LET sent == process_invite_link(l.contact[c], answer)
                            IN  End(sent.ends, Took(l, c, sent))
    BY <1>1, <1>3 DEF HandleContact
<1>5. PICK invited :
        invited = process_direct_invite(matched.contact[c], a.answer, env.group, env.strategy)
    OBVIOUS
<1>6. PICK s : s = Took(matched, c, invited)
    OBVIOUS
<1>7. /\ Added(c, a)
      /\ \/ invited.ends # "done" /\ RollBack
         \/ Return(s) /\ s.contact[c].direct = "SUCCESS"
         \/ LinkRaises(s) /\ RollBack
         \/ \E l \in LinkFound(s), answer \in SendAnswers :
                LET sent == process_invite_link(l.contact[c], answer)
                IN  End(sent.ends, Took(l, c, sent))
    BY <1>4, <1>5, <1>6
<1>8. /\ a.answer \in {"SUCCESS", "FAILED", "SKIPPED", "timeout"}
      /\ a.answer = "SUCCESS" => c \in been'
      /\ members' \subseteq been' /\ been \subseteq been' /\ been' \subseteq People
    BY <1>2, <1>7, AddedFits DEF People
<1> DEFINE S == Sharers(handled \cup taken)
<1>9. S \in SUBSET Contacts
    BY SharersType
<1>10. session \in Sessions /\ session.contact \in [Contacts -> Contact] /\ Fits(session.contact, been', S)
    BY <1>8, Typed, FitsMore DEF IInv
<1> HIDE DEF S
<1>11. /\ matched \in Sessions /\ matched.contact \in [Contacts -> Contact]
       /\ matched.contact[c].known /\ Fits(matched.contact, been', S)
    <2>1. PICK left : left = shared_contact(session.contact[c])
        OBVIOUS
    <2>2. Keeps(session.contact[c], left, c, been') /\ left.known
        BY <1>2, <1>10, <2>1, SharedKeeps
    <2>3. matched \in Sessions /\ matched.contact = [session.contact EXCEPT ![c] = left]
        BY <1>2, <1>3, <1>10, <2>1, <2>2 DEF Matched, Sessions, Keeps
    <2>4. Fits([session.contact EXCEPT ![c] = left], been', S)
        BY <1>2, <1>9, <1>10, <2>2, FitsChanged
    <2> QED BY <1>2, <1>10, <2>2, <2>3, <2>4 DEF Sessions
<1>12. Keeps(matched.contact[c], invited.contact, c, been') /\ invited.follow \subseteq JobType
    BY <1>2, <1>5, <1>8, <1>11, InviteKeeps
<1>13. /\ s \in Sessions /\ s.contact \in [Contacts -> Contact]
       /\ s.contact[c].known /\ Fits(s.contact, been', S)
    <2>1. s \in Sessions /\ s.contact = [matched.contact EXCEPT ![c] = invited.contact]
        BY <1>2, <1>6, <1>11, <1>12, TookFits DEF Keeps
    <2>2. Fits([matched.contact EXCEPT ![c] = invited.contact], been', S)
        BY <1>2, <1>9, <1>11, <1>12, FitsChanged
    <2> QED BY <1>2, <1>11, <1>12, <2>1, <2>2 DEF Sessions, Keeps
<1>14. CASE RollBack
    <2>1. greeted' \in [1..MaxUpdates -> Nat] /\ DOMAIN inbox \subseteq 1..MaxUpdates
        BY <1>2, Typed
    <2>2. \A n \in DOMAIN inbox : greeted'[n] <= greeted[n] + 1
        <3>1. \A n \in DOMAIN inbox : greeted[n] \in Nat
            BY Typed
        <3> QED BY <1>2, <3>1
    <2> QED BY <1>2, <1>8, <1>14, <2>1, <2>2, RollBackKeeps
<1>15. CASE Return(s) /\ s.contact[c].direct = "SUCCESS"
    <2>1. End("done", s)
        BY <1>15 DEF End
    <2>2. Fits(s.contact, been', Sharers(handled \cup taken \cup {Head(batch)}))
        BY <1>1, <1>2, <1>13, <1>15, ServedFits DEF S, Answered
    <2> QED BY <1>2, <1>8, <1>13, <2>1, <2>2, EndKeeps
<1>16. ASSUME NEW l \in LinkFound(s), NEW answer \in SendAnswers,
              NEW sent, sent = process_invite_link(l.contact[c], answer),
              End(sent.ends, Took(l, c, sent))
       PROVE  IInv'
    <2>1. l \in Sessions /\ l.contact = s.contact
        BY <1>13, <1>16, LinkFoundFits
    <2>2. /\ Keeps(s.contact[c], sent.contact, c, been') /\ Answered(sent.contact)
          /\ sent.follow = {}
        BY <1>2, <1>13, <1>16, <2>1, LinkKeeps
    <2>3. /\ Took(l, c, sent) \in Sessions
          /\ Took(l, c, sent).contact = [s.contact EXCEPT ![c] = sent.contact]
        BY <1>2, <2>1, <2>2, TookFits DEF Keeps
    <2>4. Fits([s.contact EXCEPT ![c] = sent.contact], been', S)
        BY <1>2, <1>9, <1>13, <2>2, FitsChanged
    <2>5. Answered(Took(l, c, sent).contact[c])
        BY <1>2, <1>13, <2>2, <2>3
    <2>6. Fits(Took(l, c, sent).contact, been', Sharers(handled \cup taken \cup {Head(batch)}))
        BY <1>1, <1>2, <2>3, <2>4, <2>5, ServedFits DEF S
    <2> QED BY <1>2, <1>8, <1>16, <2>3, <2>6, EndKeeps
<1> QED BY <1>7, <1>14, <1>15, <1>16

-----------------------------------------------------------------------------
(* Fetching and committing *)

(* The next offset is behind the last update, or behind the offset asked   *)
(* for, or there is none.                                                  *)
LEMMA NextOffset ==
    ASSUME NEW first \in Nat, NEW last \in Nat, offset \in Nat
    PROVE  /\ first <= last => next_offset(first..last) = last + 1
           /\ ~(first <= last) =>
                next_offset(first..last) = IF offset = 0 THEN 0 ELSE offset + 1
<1>1. CASE first <= last
    <2>1. last \in first..last /\ first..last # {}
        BY <1>1
    <2>2. \A n \in first..last : (\A m \in first..last : m <= n) => n = last
        BY <2>1
    <2>3. \A m \in first..last : m <= last
        OBVIOUS
    <2>4. (CHOOSE n \in first..last : \A m \in first..last : m <= n) = last
        BY <2>1, <2>2, <2>3
    <2> QED BY <1>1, <2>1, <2>4 DEF next_offset
<1>2. CASE ~(first <= last)
    <2>1. first..last = {}
        BY <1>2
    <2> QED BY <1>2, <2>1 DEF next_offset
<1> QED BY <1>1, <1>2

LEMMA FetchKeeps ==
    ASSUME IInv, Fetch
    PROVE  IInv'
<1> DEFINE m     == Len(inbox)
           first == IF offset = 0 THEN 1 ELSE offset
           size  == IF first <= m THEN m + 1 - first ELSE 0
<1>1. /\ pc = "idle" /\ pc' = "handling" /\ session' = Opened(db) /\ taken' = {}
      /\ batch' = [i \in 1..size |-> first + i - 1] /\ next' = next_offset(first..m)
      /\ env' = env /\ db' = db /\ offset' = offset /\ handled' = handled
      /\ members' = members /\ been' = been /\ greeted' = greeted
      /\ inbox' = inbox /\ aborts' = aborts
    BY DEF Fetch, stored, world
<1>2. session = Opened(db) /\ taken = {}
    BY <1>1 DEF IInv, Ordered
<1>3. m \in Nat /\ first \in Nat /\ size \in Nat /\ first > 0 /\ offset <= first /\ offset \in Nat
    BY Typed
<1>4. /\ DOMAIN batch' = 1..size /\ \A i \in 1..size : batch'[i] = first + i - 1
      /\ size > 0 => (size = m + 1 - first /\ first <= m)
    <2> HIDE DEF first, m
    <2>1. size > 0 => (size = m + 1 - first /\ first <= m)
        BY <1>3
    <2> HIDE DEF size
    <2>2. DOMAIN batch' = 1..size /\ \A i \in 1..size : batch'[i] = first + i - 1
        BY <1>1
    <2> QED BY <2>1, <2>2
<1>5. /\ first <= m => next' = m + 1
      /\ ~(first <= m) => next' = IF offset = 0 THEN 0 ELSE offset + 1
    BY <1>1, <1>3, NextOffset
<1> HIDE DEF m, first, size
<1>6. next' \in Nat /\ (next' # 0 => offset < next')
    BY <1>3, <1>5
<1>7. \A i \in 1..size : batch'[i] \in 1..m /\ offset <= batch'[i] /\ batch'[i] < next'
    BY <1>3, <1>4, <1>5
<1>8. batch' \in Seq(DOMAIN inbox)
    <2>1. DOMAIN inbox = 1..m
        BY Typed DEF m
    <2>2. batch' \in [1..size -> DOMAIN inbox]
        BY <1>1, <1>4, <1>7, <2>1 DEF size, first
    <2> QED BY <1>3, <2>2
<1>9. TypeOK'
    BY <1>1, <1>2, <1>6, <1>8 DEF IInv, TypeOK
<1>10. Ordered'
    <2>1. \A i, j \in 1..size : i # j => batch'[i] # batch'[j]
        BY <1>3, <1>4
    <2> QED BY <1>1, <1>4, <1>6, <1>7, <2>1 DEF IInv, Ordered
<1>11. Fits(db.contact, been, Sharers(handled))' /\ Fits(session.contact, been, Sharers(handled \cup taken))'
    BY <1>1, <1>2 DEF IInv, Sharers
<1> QED BY <1>1, <1>2, <1>9, <1>10, <1>11 DEF IInv, Greeted

LEMMA StoredTables ==
    ASSUME NEW s \in Sessions
    PROVE  Stored(s) \in Tables /\ Stored(s).contact = s.contact
BY DEF Stored, Sessions, Tables

LEMMA CommitKeeps ==
    ASSUME IInv, Commit
    PROVE  IInv'
<1>1. /\ pc = "handling" /\ batch = <<>> /\ db' = Stored(session)
      /\ offset' = (IF next = 0 THEN offset ELSE next) /\ handled' = handled \cup taken
      /\ pc' = "idle" /\ next' = 0 /\ taken' = {} /\ session' = Opened(db')
      /\ env' = env /\ batch' = batch /\ members' = members /\ been' = been
      /\ greeted' = greeted /\ inbox' = inbox /\ aborts' = aborts
    BY DEF Commit, world
<1>2. db' \in Tables /\ db'.contact = session.contact
    BY <1>1, Typed, StoredTables
<1>3. session' \in Sessions /\ session'.contact = session.contact
    BY <1>1, <1>2, OpenedFits
<1>4. TypeOK'
    BY <1>1, <1>2, <1>3, Typed DEF IInv, TypeOK, Tables, Sessions
<1>5. Ordered'
    <2>1. ASSUME NEW n \in handled'
          PROVE  n < offset'
        <3>1. n \in Nat /\ offset \in Nat /\ next \in Nat
            BY <1>1, Typed
        <3>2. CASE n \in handled
            <4>1. n < offset /\ (next # 0 => offset < next)
                BY <3>2 DEF IInv, Ordered
            <4> QED BY <1>1, <3>1, <4>1
        <3>3. CASE n \in taken
            <4>1. n < next
                BY <3>3 DEF IInv, Ordered
            <4> QED BY <1>1, <3>1, <4>1
        <3> QED BY <1>1, <3>2, <3>3
    <2> QED BY <1>1, <2>1 DEF Ordered, Opened, Found
<1>6. Fits(db.contact, been, Sharers(handled))' /\ Fits(session.contact, been, Sharers(handled \cup taken))'
    <2>1. /\ Sharers(handled)' = Sharers(handled \cup taken)
          /\ Sharers(handled \cup taken)' = Sharers(handled \cup taken)
        BY <1>1 DEF Sharers
    <2> QED BY <1>1, <1>2, <1>3, <2>1 DEF IInv
<1> QED BY <1>1, <1>4, <1>5, <1>6 DEF IInv, Greeted

LEMMA InterruptKeeps ==
    ASSUME IInv, Interrupt
    PROVE  IInv'
<1>1. RollBack /\ members' = members /\ been' = been /\ greeted' = greeted
    BY DEF Interrupt, world
<1>2. \A n \in DOMAIN inbox : greeted[n] \in Nat
    BY Typed
<1>3. \A n \in DOMAIN inbox : greeted'[n] <= greeted[n] + 1
    BY <1>1, <1>2
<1>4. /\ members' \subseteq been' /\ been \subseteq been' /\ been' \subseteq People
      /\ greeted' \in [1..MaxUpdates -> Nat]
    BY <1>1, Typed
<1> QED BY <1>1, <1>3, <1>4, RollBackKeeps

-----------------------------------------------------------------------------
(* The steps of others *)

LEMMA ArriveKeeps ==
    ASSUME IInv, NEW u \in Update, Arrive(u)
    PROVE  IInv'
<1>1. /\ inbox' = Append(inbox, u) /\ Len(inbox) < MaxUpdates
      /\ env' = env /\ pc' = pc /\ batch' = batch /\ next' = next /\ session' = session
      /\ taken' = taken /\ db' = db /\ offset' = offset /\ handled' = handled
      /\ members' = members /\ been' = been /\ greeted' = greeted /\ aborts' = aborts
    BY DEF Arrive, progress, stored, world
<1>2. /\ inbox' \in Seq(Update) /\ Len(inbox') <= MaxUpdates
      /\ DOMAIN inbox \subseteq DOMAIN inbox'
      /\ \A n \in DOMAIN inbox : inbox'[n] = inbox[n]
      /\ DOMAIN inbox' = DOMAIN inbox \cup {Len(inbox) + 1}
      /\ Len(inbox) + 1 \in (1..MaxUpdates) \ DOMAIN inbox
    BY <1>1, Typed
<1>3. TypeOK'
    <2>1. batch \in Seq(DOMAIN inbox')
        <3>1. /\ Len(batch) \in Nat /\ batch \in [1..Len(batch) -> DOMAIN inbox]
            BY Typed
        <3>2. batch \in [1..Len(batch) -> DOMAIN inbox']
            BY <1>2, <3>1
        <3> QED BY <3>1, <3>2
    <2> QED BY <1>1, <1>2, <2>1 DEF IInv, TypeOK
<1>4. Fits(db.contact, been, Sharers(handled))' /\ Fits(session.contact, been, Sharers(handled \cup taken))'
    <2>1. handled \subseteq DOMAIN inbox /\ taken \subseteq DOMAIN inbox
        BY Typed
    <2>2. \A n \in handled \cup taken : inbox'[n] = inbox[n]
        BY <1>2, <2>1
    <2>3. /\ Sharers(handled)' = Sharers(handled)
          /\ Sharers(handled \cup taken)' = Sharers(handled \cup taken)
        BY <1>1, <2>2 DEF Sharers
    <2> QED BY <1>1, <2>3 DEF IInv
<1>5. Ordered'
    BY <1>1 DEF IInv, Ordered, Opened, Found
<1>6. Greeted'
    <2>1. greeted[Len(inbox) + 1] = 0 /\ aborts \in Nat
        BY <1>2, Typed DEF IInv
    <2>2. Len(inbox) + 1 \notin handled \cup taken
        BY <1>2, Typed
    <2> QED BY <1>1, <1>2, <2>1, <2>2 DEF IInv, Greeted
<1> QED BY <1>1, <1>2, <1>3, <1>4, <1>5, <1>6 DEF IInv

(* The worker commits a job's outcome. *)
LEMMA WorkedKeeps ==
    ASSUME IInv, pc = "idle", NEW k, NEW s \in Sessions, Worked(k, s),
           Fits(s.contact, been, Sharers(handled))
    PROVE  IInv'
<1> DEFINE rest == [s EXCEPT !.jobs = @ \ {k}]
<1>1. /\ db' = Stored(rest) /\ session' = Opened(db')
      /\ env' = env /\ pc' = pc /\ batch' = batch /\ next' = next /\ taken' = taken
      /\ offset' = offset /\ handled' = handled /\ members' = members /\ been' = been
      /\ greeted' = greeted /\ inbox' = inbox /\ aborts' = aborts
    BY DEF Worked, world
<1>2. rest \in Sessions /\ rest.contact = s.contact
    BY DEF Sessions
<1> HIDE DEF rest
<1>3. db' \in Tables /\ db'.contact = s.contact
    BY <1>1, <1>2, StoredTables
<1>4. session' \in Sessions /\ session'.contact = s.contact
    BY <1>1, <1>3, OpenedFits
<1>5. taken = {} /\ batch = <<>> /\ next = 0
    BY DEF IInv, Ordered
<1>6. TypeOK'
    BY <1>1, <1>3, <1>4 DEF IInv, TypeOK, Tables, Sessions
<1>7. Ordered'
    BY <1>1, <1>5 DEF IInv, Ordered, Opened, Found
<1>8. Fits(db.contact, been, Sharers(handled))' /\ Fits(session.contact, been, Sharers(handled \cup taken))'
    <2>1. Sharers(handled)' = Sharers(handled) /\ Sharers(handled \cup taken)' = Sharers(handled)
        BY <1>1, <1>5 DEF Sharers
    <2> QED BY <1>1, <1>3, <1>4, <2>1
<1> QED BY <1>1, <1>6, <1>7, <1>8 DEF IInv, Greeted

(* What the worker starts from *)
LEMMA IdleFits ==
    ASSUME IInv, pc = "idle"
    PROVE  /\ session \in Sessions /\ session.contact = db.contact
           /\ db.contact \in [Contacts -> Contact]
           /\ Fits(session.contact, been, Sharers(handled))
<1>1. session = Opened(db)
    BY DEF IInv, Ordered
<1> QED BY <1>1, Typed, OpenedFits DEF IInv

LEMMA SendsLinkKeeps ==
    ASSUME IInv, NEW c \in Contacts, SendsLink(c)
    PROVE  IInv'
<1>1. PICK k : k = <<"SEND_INVITE_LINK", c>>
    OBVIOUS
<1>2. /\ pc = "idle"
      /\ \/ Worked(k, session)
         \/ \E s \in LinkFound(session), answer \in SendAnswers :
                Worked(k, Took(s, c, process_invite_link(s.contact[c], answer)))
    BY <1>1 DEF SendsLink
<1>3. CASE Worked(k, session)
    BY <1>2, <1>3, IdleFits, WorkedKeeps
<1>4. ASSUME NEW s \in LinkFound(session), NEW answer \in SendAnswers,
             Worked(k, Took(s, c, process_invite_link(s.contact[c], answer)))
      PROVE  IInv'
    <2>1. PICK out : out = process_invite_link(s.contact[c], answer)
        OBVIOUS
    <2>2. s \in Sessions /\ s.contact = db.contact
        BY <1>2, <1>4, IdleFits, LinkFoundFits
    <2>3. db.contact[c] \in Contact /\ db.contact \in [Contacts -> Contact]
        BY Typed
    <2>4. Keeps(db.contact[c], out.contact, c, been) /\ out.follow = {}
        BY <2>1, <2>2, <2>3, LinkKeeps
    <2>5. /\ Took(s, c, out) \in Sessions
          /\ Took(s, c, out).contact = [db.contact EXCEPT ![c] = out.contact]
        BY <2>2, <2>4, TookFits DEF Keeps
    <2>6. Fits([db.contact EXCEPT ![c] = out.contact], been, Sharers(handled))
        BY <1>2, <2>3, <2>4, IdleFits, FitsChanged, SharersType
    <2> QED BY <1>2, <1>4, <2>1, <2>5, <2>6, WorkedKeeps
<1> QED BY <1>2, <1>3, <1>4

LEMMA ChecksJoinKeeps ==
    ASSUME IInv, NEW c \in Contacts, ChecksJoin(c)
    PROVE  IInv'
<1>1. PICK k : k = <<"CHECK_JOIN_STATUS", c>>
    OBVIOUS
<1>2. pc = "idle"
    BY DEF ChecksJoin
<1>3. PICK answer \in JoinAnswers(c) :
        Worked(k, Took(session, c, process_join_check(db.contact[c], answer)))
    BY <1>1 DEF ChecksJoin
<1>4. PICK out : out = process_join_check(db.contact[c], answer)
    OBVIOUS
<1>5. /\ answer \in {"UNKNOWN", "timeout", "JOINED", "NOT_JOINED"}
      /\ answer = "JOINED" => c \in been
    BY <1>3, Typed DEF JoinAnswers
<1>6. db.contact[c] \in Contact /\ db.contact \in [Contacts -> Contact]
    BY Typed
<1>7. Keeps(db.contact[c], out.contact, c, been) /\ out.follow = {}
    BY <1>4, <1>5, <1>6, JoinKeeps
<1>8. /\ Took(session, c, out) \in Sessions
      /\ Took(session, c, out).contact = [db.contact EXCEPT ![c] = out.contact]
    BY <1>2, <1>7, IdleFits, TookFits DEF Keeps
<1>9. Fits([db.contact EXCEPT ![c] = out.contact], been, Sharers(handled))
    BY <1>2, <1>6, <1>7, IdleFits, FitsChanged, SharersType
<1> QED BY <1>2, <1>3, <1>4, <1>8, <1>9, WorkedKeeps

LEMMA LeaveGroupKeeps ==
    ASSUME IInv, NEW p \in People, LeaveGroup(p)
    PROVE  IInv'
BY DEF IInv, LeaveGroup, TypeOK, Ordered, Greeted, Fits, Honest, Sharers, Opened, Found,
       progress, stored

-----------------------------------------------------------------------------
(* The inductive invariant *)

LEMMA InitFits == Init => IInv
<1> SUFFICES ASSUME Init PROVE IInv
    OBVIOUS
<1>1. /\ db = [contact |-> [c \in Contacts |-> NewContact], jobs |-> {}, link |-> FALSE]
      /\ offset = 0 /\ inbox = <<>> /\ pc = "idle" /\ batch = <<>> /\ next = 0
      /\ session = Opened(db) /\ taken = {} /\ handled = {} /\ aborts = 0
      /\ members \in SUBSET People /\ been = members /\ env \in Environments
      /\ greeted = [n \in 1 .. MaxUpdates |-> 0]
    BY DEF Init
<1>2. NewContact \in Contact /\ NewContact.direct # "SUCCESS" /\ NewContact.join # "JOINED"
    BY DEF NewContact, Contact, BaleAccountStatus, DirectInviteStatus, InviteLinkStatus, JoinStatus
<1>3. db \in Tables /\ \A c \in Contacts : db.contact[c] = NewContact
    BY <1>1, <1>2 DEF Tables
<1>4. session \in Sessions /\ session.contact = db.contact
    BY <1>1, <1>3, OpenedFits
<1>5. TypeOK
    <2>1. greeted \in [1..MaxUpdates -> Nat]
        BY <1>1
    <2>2. inbox \in Seq(Update) /\ batch \in Seq(DOMAIN inbox)
        BY <1>1
    <2>3. taken \subseteq DOMAIN inbox /\ handled \subseteq DOMAIN inbox
        BY <1>1
    <2>4. members \subseteq been /\ been \subseteq People
        BY <1>1
    <2>5. offset \in Nat /\ next \in Nat /\ aborts \in Nat /\ pc \in {"idle", "handling"}
        BY <1>1
    <2>6. env \in Environments
        BY <1>1
    <2> QED BY <1>3, <1>4, <2>1, <2>2, <2>3, <2>4, <2>5, <2>6 DEF TypeOK, Tables, Sessions
<1>6. Fits(db.contact, been, Sharers(handled)) /\ Fits(session.contact, been, Sharers(handled \cup taken))
    <2>1. Sharers({}) = {}
        BY DEF Sharers
    <2> QED BY <1>1, <1>2, <1>3, <1>4, <2>1 DEF Fits, Honest
<1>7. Ordered /\ Greeted
    BY <1>1 DEF Ordered, Greeted
<1>8. Len(inbox) <= MaxUpdates /\ \A n \in (1..MaxUpdates) \ DOMAIN inbox : greeted[n] = 0
    BY <1>1, BotRuntimeAssumption
<1> QED BY <1>5, <1>6, <1>7, <1>8 DEF IInv

LEMMA NextKeeps == IInv /\ [Next]_vars => IInv'
<1> SUFFICES ASSUME IInv, [Next]_vars PROVE IInv'
    OBVIOUS
<1>1. CASE UNCHANGED vars
    BY <1>1 DEF vars, progress, stored, world, IInv, TypeOK, Ordered, Greeted, Fits, Sharers,
                Opened, Found
<1>2. CASE Next
    BY <1>2, FetchKeeps, HandleStartKeeps, HandleStartOfStrangerKeeps, GreetingFailsKeeps,
       HandleContactKeeps, HandleStrangersContactKeeps, HandleOtherKeeps, CommitKeeps,
       InterruptKeeps, ArriveKeeps, SendsLinkKeeps, ChecksJoinKeeps, LeaveGroupKeeps DEF Next
<1> QED BY <1>1, <1>2

LEMMA Invariant == Spec => []IInv
BY InitFits, NextKeeps, PTL DEF Spec

-----------------------------------------------------------------------------
(* What the invariant says of the bot *)

(* Every step leaves the tables, the updates and the histories what they   *)
(* are meant to be.                                                        *)
THEOREM TypeCorrect == Spec => []TypeOK
<1>1. IInv => TypeOK
    BY DEF IInv
<1> QED BY <1>1, Invariant, PTL

(* No update that was handled is fetched again, wherever transactions are  *)
(* rolled back: the offset is committed with what was made of it.          *)
THEOREM HandledOnce == Spec => []HandledOnlyOnce
<1>1. IInv => HandledOnlyOnce
    <2> SUFFICES ASSUME IInv PROVE HandledOnlyOnce
        OBVIOUS
    <2>1. ASSUME NEW n \in DOMAIN inbox, offset <= n
          PROVE  n \notin handled
        BY <2>1, Typed DEF IInv, Ordered
    <2>2. \A i \in DOMAIN batch : batch[i] \in DOMAIN inbox /\ offset <= batch[i]
        BY Typed DEF IInv, Ordered
    <2>3. \A n \in taken : n \in DOMAIN inbox /\ offset <= n
        BY Typed DEF IInv, Ordered
    <2> QED BY <2>1, <2>2, <2>3 DEF HandledOnlyOnce
<1> QED BY <1>1, Invariant, PTL

(* A /start that was handled in a committed transaction was answered, and  *)
(* none is answered again but after a transaction was rolled back, however *)
(* many are.                                                               *)
THEOREM StartsGetAnswers == Spec => []StartsAreAnswered
<1>1. IInv => StartsAreAnswered
    <2> SUFFICES ASSUME IInv, NEW n \in DOMAIN inbox
                 PROVE  /\ (n \in handled /\ inbox[n].kind = "start") => greeted[n] > 0
                        /\ greeted[n] <= 1 + aborts
        BY DEF StartsAreAnswered
    <2>1. greeted[n] \in Nat /\ aborts \in Nat
        BY Typed
    <2> QED BY <2>1 DEF IInv, Greeted
<1> QED BY <1>1, Invariant, PTL

(* Whoever shared their contact, in an update that was handled in a        *)
(* committed transaction, has been invited or sent the link, or the        *)
(* failure is on record: no later update or job undoes it.                 *)
THEOREM SharersGetServed == Spec => []SharersAreServed
<1>1. IInv => SharersAreServed
    BY DEF IInv, Fits, Sharers, Answered, SharersAreServed
<1> QED BY <1>1, Invariant, PTL

(* Nobody is recorded as invited or joined who was never in the group.     *)
THEOREM InvitedWereThere == Spec => []InvitedWasThere
<1>1. IInv => InvitedWasThere
    BY DEF IInv, Fits, Honest, InvitedWasThere
<1> QED BY <1>1, Invariant, PTL
=============================================================================
