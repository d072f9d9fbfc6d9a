------------------------------- MODULE Messages -------------------------------
(***************************************************************************)
(* The messages of one cinema: conversations, what each recipient has read  *)
(* and deleted, and the inbox that useMessages scrolls through.             *)
(*                                                                          *)
(* A handler reads, then writes with one statement; none takes a lock.  The *)
(* id of a message is drawn before its row can be seen.                     *)
(***************************************************************************)
EXTENDS Integers, FiniteSets, Sequences, FiniteSetsExt

CONSTANTS
  Person,        \* accounts
  Broadcaster,   \* those who may write to everybody
  Handler,       \* concurrent requests to the backend
  MaxMail,       \* bound on the messages written
  LastDay,       \* bound on the days that pass
  Retention,     \* MESSAGE_DELETION_RETENTION_DAYS
  PageSize,      \* conversations on a page of the inbox
  Reader         \* whose inbox is open in a browser

ASSUME MessagesAssumption ==
  /\ Broadcaster \subseteq Person
  /\ Reader \in Person
  /\ MaxMail \in Nat /\ LastDay \in Nat
  /\ Retention \in Nat \ {0} /\ PageSize \in Nat \ {0}

VARIABLES
  mail,      \* tables Message and MessageRecipient, by id
  working,   \* persons with an active membership of the cinema
  today,
  handling,  \* the handler of each request
  missed,    \* auxiliary: recipients who left while the message was written
  inbox,     \* the state of useMessages
  steady     \* auxiliary: conversations of the inbox that did not change since
             \* it was loaded

mailTables == <<mail, working>>
mailVars == <<mail, working, today, handling, missed, inbox, steady>>

-----------------------------------------------------------------------------
(* Rows *)

MailId == 1 .. MaxMail
Never == -1
Day == 0 .. LastDay
MaybeDay == Day \cup {Never}

\* conversationId is that of the message that began it.
Mail ==
  [sent : BOOLEAN, from : Person, to : SUBSET Person, about : MailId,
   broadcast : BOOLEAN, recalled : BOOLEAN,
   senderDeleted : MaybeDay,
   deleted : [Person -> MaybeDay],   \* deletedAt of each recipient
   read : SUBSET Person,             \* those with readAt
   excluded : SUBSET Person]         \* those with receiptExcludedAt

Sent == {k \in DOMAIN mail : mail[k].sent}
Conversation(k) == {j \in Sent : mail[j].about = mail[k].about}

NotHandling == [op |-> "none"]
Handling ==
  [op : {"create"}, from : Person, to : SUBSET Person, about : MailId \cup {0},
   broadcast : BOOLEAN, id : MailId \cup {0}]
  \cup [op : {"read", "delete", "restore"}, by : Person, id : MailId]

Shown == [id : MailId, about : MailId, activity : MailId]
Inbox == [shown : SUBSET Shown, before : MailId \cup {0}, more : BOOLEAN]

MailTypeOK ==
  /\ mail \in Seq(Mail) /\ Len(mail) <= MaxMail
  /\ \A k \in Sent : mail[k].to # {} /\ mail[k].from \notin mail[k].to
  /\ working \subseteq Person
  /\ today \in Day
  /\ handling \in [Handler -> Handling \cup {NotHandling}]
  /\ missed \subseteq MailId \X Person
  /\ inbox \in Inbox
  /\ steady \subseteq Shown

MessagesInit ==
  /\ mail = <<>>
  /\ working = Person
  /\ today = 0
  /\ handling = [h \in Handler |-> NotHandling]
  /\ missed = {}
  /\ inbox = [shown |-> {}, before |-> 0, more |-> FALSE]
  /\ steady = {}

-----------------------------------------------------------------------------
(* What the queries of a mailbox return *)

Recoverable(day) == day > today - Retention

Received(u) == {k \in Sent : u \in mail[k].to /\ ~mail[k].recalled}
Kept(u) == {k \in Received(u) : mail[k].deleted[u] = Never}

Visible(u, k) ==
  IF mail[k].from = u THEN mail[k].senderDeleted = Never
  ELSE u \in mail[k].to /\ mail[k].deleted[u] = Never

\* Mutant of Activity: sorted by the message received last, as the archive is.
LastReceived(u, k) == Max(Conversation(k) \cap Kept(u))

\* The last message of a conversation that is shown, the own ones included.
Activity(u, k) ==
  Max({j \in Conversation(k) : ~mail[j].recalled /\ Visible(u, j)})

\* active_received and visible_activity
InboxStates(u) ==
  {[id |-> LastReceived(u, k), about |-> mail[k].about, activity |-> Activity(u, k)] :
     k \in Kept(u)}

-----------------------------------------------------------------------------
(* Writing *)

Begin(h, request) == handling[h] = NotHandling /\ handling' = [handling EXCEPT ![h] = request]
Done(h) == handling' = [handling EXCEPT ![h] = NotHandling]

NewMail(u, to, about, broadcast) ==
  [op |-> "create", from |-> u, to |-> to, about |-> about, broadcast |-> broadcast, id |-> 0]

\* Active persons, not everybody without the permission.
WriteMail(h, u, to) ==
  /\ u \in working
  /\ to # {} /\ to \subseteq working \ {u}
  /\ Cardinality(to) > 1 /\ to = working \ {u} => u \in Broadcaster
  /\ Begin(h, NewMail(u, to, 0, FALSE))
  /\ UNCHANGED <<mailTables, today, missed, inbox, steady>>

Broadcast(h, u) ==
  /\ u \in working \cap Broadcaster
  /\ working # {u}
  /\ Begin(h, NewMail(u, working \ {u}, 0, TRUE))
  /\ UNCHANGED <<mailTables, today, missed, inbox, steady>>

\* Mutant of Candidates: an answer to all reaches who works in the cinema now.
CandidatesOfCinema(k, all) == IF all THEN working ELSE {mail[k].from}

\* snapshotIds
Candidates(k, all) ==
  IF all THEN {mail[k].from} \cup (mail[k].to \ mail[k].excluded) ELSE {mail[k].from}

\* candidateIds that are active
Addressed(u, ids) == (ids \ {u}) \cap working

Answer(h, u, k, all) ==
  LET to == Addressed(u, Candidates(k, all)) IN
  /\ u \in working
  /\ k \in Sent /\ Visible(u, k)
  /\ all /\ mail[k].broadcast => u \in Broadcaster
  /\ to # {}
  /\ Begin(h, NewMail(u, to, mail[k].about, FALSE))
  /\ UNCHANGED <<mailTables, today, missed, inbox, steady>>

\* The row gets its id, but is not committed yet.
InsertMail(h) ==
  LET r == handling[h]
      id == Len(mail) + 1
  IN
  /\ r.op = "create" /\ r.id = 0
  /\ id \in MailId
  /\ mail' = Append(mail,
       [sent |-> FALSE, from |-> r.from, to |-> r.to,
        about |-> IF r.about = 0 THEN id ELSE r.about,
        broadcast |-> r.broadcast, recalled |-> FALSE, senderDeleted |-> Never,
        deleted |-> [u \in Person |-> Never], read |-> {}, excluded |-> {}])
  /\ handling' = [handling EXCEPT ![h].id = id]
  /\ UNCHANGED <<working, today, missed, inbox, steady>>

\* What is left of the conversations of the inbox that a step changes.
Unchanged == steady' = {s \in steady : s \in InboxStates(Reader)'}

CommitMail(h) ==
  LET r == handling[h] IN
  /\ r.op = "create" /\ r.id # 0
  /\ mail' = [mail EXCEPT ![r.id].sent = TRUE]
  /\ missed' = missed \cup {<<r.id, u>> : u \in r.to \ working}
  /\ Done(h)
  /\ Unchanged
  /\ UNCHANGED <<working, today, inbox>>

-----------------------------------------------------------------------------
(* Reading, deleting and restoring: of a conversation, or of an own message *)

ReadMail(h, u, k) ==
  /\ u \in working
  /\ k \in Sent /\ u \in mail[k].to /\ mail[k].deleted[u] = Never
  /\ Begin(h, [op |-> "read", by |-> u, id |-> k])
  /\ UNCHANGED <<mailTables, today, missed, inbox, steady>>

MarkRead(h) ==
  LET r == handling[h] IN
  /\ r.op = "read"
  /\ mail' = [k \in DOMAIN mail |->
       IF k \in Conversation(r.id) \cap Kept(r.by)
       THEN [mail[k] EXCEPT !.read = @ \cup {r.by}] ELSE mail[k]]
  /\ Done(h)
  /\ Unchanged
  /\ UNCHANGED <<working, today, missed, inbox>>

DeleteMail(h, u, k) ==
  /\ u \in working
  /\ k \in Sent /\ Visible(u, k)
  /\ Begin(h, [op |-> "delete", by |-> u, id |-> k])
  /\ UNCHANGED <<mailTables, today, missed, inbox, steady>>

\* Mutant of Removed: what was deleted before is deleted again.
RemovedAgain(u, k) == {j \in Conversation(k) : u \in mail[j].to}

\* Recalled messages too.
Removed(u, k) ==
  {j \in Conversation(k) : u \in mail[j].to /\ mail[j].deleted[u] = Never}

MarkDeleted(h) ==
  LET r == handling[h]
      u == r.by
  IN
  /\ r.op = "delete"
  /\ mail' = IF mail[r.id].from = u
             THEN [mail EXCEPT ![r.id].senderDeleted = today]
             ELSE [k \in DOMAIN mail |->
               IF k \in Removed(u, r.id) THEN [mail[k] EXCEPT !.deleted[u] = today]
               ELSE mail[k]]
  /\ Done(h)
  /\ Unchanged
  /\ UNCHANGED <<working, today, missed, inbox>>

DeletedOn(u, k) == IF mail[k].from = u THEN mail[k].senderDeleted ELSE mail[k].deleted[u]

RestoreMail(h, u, k) ==
  /\ u \in working
  /\ k \in Sent /\ u \in mail[k].to \cup {mail[k].from}
  /\ DeletedOn(u, k) # Never /\ Recoverable(DeletedOn(u, k))
  /\ Begin(h, [op |-> "restore", by |-> u, id |-> k])
  /\ UNCHANGED <<mailTables, today, missed, inbox, steady>>

\* Mutant of Restored: every message of the conversation comes back.
RestoredAll(u, k) == {j \in Conversation(k) : u \in mail[j].to}

Restored(u, k) ==
  {j \in Conversation(k) : u \in mail[j].to /\ mail[j].deleted[u] # Never
                            /\ Recoverable(mail[j].deleted[u])}

MarkRestored(h) ==
  LET r == handling[h]
      u == r.by
  IN
  /\ r.op = "restore"
  /\ mail' = IF mail[r.id].from = u
             THEN [mail EXCEPT ![r.id].senderDeleted = Never]
             ELSE [k \in DOMAIN mail |->
               IF k \in Restored(u, r.id) THEN [mail[k] EXCEPT !.deleted[u] = Never]
               ELSE mail[k]]
  /\ Done(h)
  /\ Unchanged
  /\ UNCHANGED <<working, today, missed, inbox>>

\* Its sender may recall a message at any time, again too.
RecallMail(u, k) ==
  /\ u \in working
  /\ k \in Sent /\ mail[k].from = u
  /\ mail' = [mail EXCEPT ![k].recalled = TRUE]
  /\ Unchanged
  /\ UNCHANGED <<working, today, handling, missed, inbox>>

GiveUp(h) ==
  /\ handling[h] # NotHandling
  /\ Done(h)
  /\ UNCHANGED <<mailTables, today, missed, inbox, steady>>

-----------------------------------------------------------------------------
(* Memberships, and the triggers of the database on them *)

\* Mutant of Leave: who has read the message stays in its receipt.
LeaveUnread(u) ==
  /\ u \in working
  /\ working' = working \ {u}
  /\ mail' = [k \in DOMAIN mail |->
       IF k \in Sent /\ u \in mail[k].to \ mail[k].read
       THEN [mail[k] EXCEPT !.excluded = @ \cup {u}] ELSE mail[k]]
  /\ UNCHANGED <<today, handling, missed, inbox, steady>>

Leave(u) ==
  /\ u \in working
  /\ working' = working \ {u}
  /\ mail' = [k \in DOMAIN mail |->
       IF k \in Sent /\ u \in mail[k].to
       THEN [mail[k] EXCEPT !.excluded = @ \cup {u}] ELSE mail[k]]
  /\ UNCHANGED <<today, handling, missed, inbox, steady>>

Return(u) ==
  /\ u \notin working
  /\ working' = working \cup {u}
  /\ UNCHANGED <<mail, today, handling, missed, inbox, steady>>

NextDay ==
  /\ today < LastDay
  /\ today' = today + 1
  /\ UNCHANGED <<mailTables, handling, missed, inbox, steady>>

-----------------------------------------------------------------------------
(* The inbox in a browser *)

\* Mutant of NextBefore: the next page begins below the message received last.
BelowReceived(page) == Min({s.id : s \in page})

NextBefore(page) == Min({s.activity : s \in page})

\* findPageStates with LIMIT
Page(states) == {s \in states : Cardinality({t \in states : t.activity > s.activity}) < PageSize}

InboxPage(states, shown) ==
  LET page == Page(states)
      more == states # page
  IN [shown |-> {s \in shown : \A t \in page : t.id # s.id} \cup page,
      before |-> IF more THEN NextBefore(page) ELSE 0,
      more |-> more]

\* loadMessages: when the page opens and on every event.
Load ==
  /\ inbox' = InboxPage(InboxStates(Reader), {})
  /\ steady' = InboxStates(Reader)
  /\ UNCHANGED <<mailTables, today, handling, missed>>

\* loadMore and mergeMessages
LoadMore ==
  /\ inbox.more
  /\ inbox' = InboxPage({s \in InboxStates(Reader) : s.activity < inbox.before}, inbox.shown)
  /\ UNCHANGED <<mailTables, today, handling, missed, steady>>

-----------------------------------------------------------------------------

Write(h) ==
  \E u \in Person :
    \/ \E to \in SUBSET Person : WriteMail(h, u, to)
    \/ Broadcast(h, u)
    \/ \E k \in Sent, all \in BOOLEAN : Answer(h, u, k, all)

Read(h, u) == \E k \in Sent : ReadMail(h, u, k)
Delete(h, u) == \E k \in Sent : DeleteMail(h, u, k)
Restore(h, u) == \E k \in Sent : RestoreMail(h, u, k)
Recall(u) == \E k \in Sent : RecallMail(u, k)
Move(u) == Leave(u) \/ Return(u)

Go(h) ==
  \/ InsertMail(h) \/ CommitMail(h)
  \/ MarkRead(h) \/ MarkDeleted(h) \/ MarkRestored(h)

Scroll == Load \/ LoadMore

MessagesNext ==
  \/ \E h \in Handler :
       Write(h) \/ Go(h) \/ GiveUp(h) \/ \E u \in Person : Read(h, u) \/ Delete(h, u) \/ Restore(h, u)
  \/ \E u \in Person : Recall(u) \/ Move(u)
  \/ NextDay \/ Scroll

MessagesSpec == MessagesInit /\ [][MessagesNext]_mailVars

-----------------------------------------------------------------------------
(* Properties *)

\* An answer reaches nobody who is not part of the conversation already, however
\* memberships, deletions and other answers come in between.
AnswersStayInside ==
  \A k \in Sent : mail[k].to \cup {mail[k].from} \subseteq
    mail[mail[k].about].to \cup {mail[mail[k].about].from}

\* The receipt of a message counts nobody who left the cinema, for good (the
\* comment in the migration message_read_receipts); whoever leaves while the
\* message is being written is missed.
ReceiptsOfMembers ==
  \A k \in Sent : \A u \in mail[k].to \ mail[k].excluded :
    u \in working \/ <<k, u>> \in missed

\* Whether and since when a recipient has deleted a message is up to that
\* recipient: it counts from the day of the first of overlapping deletions of the
\* conversation, and only a restoration lifts it, whatever the others who are in
\* the conversation delete, restore, recall or answer meanwhile.
OwnDeletionsOnly ==
  [][\A k \in Sent : \A u \in mail[k].to :
       LET before == mail[k].deleted[u]
           after == mail'[k].deleted[u]
       IN after # before =>
            \E h \in Handler :
              /\ handling[h] # NotHandling /\ handling'[h] = NotHandling
              /\ handling[h].op = IF before = Never THEN "delete" ELSE "restore"
              /\ handling[h].by = u /\ k \in Conversation(handling[h].id)
              /\ after = IF before = Never THEN today ELSE Never]_mailVars

\* What was deleted so long ago that it counts as deleted for good never comes
\* back to a recipient, although the conversation around it is restored.
GoneForGood ==
  [][\A k \in Sent : \A u \in mail[k].to :
       mail[k].deleted[u] # Never /\ ~Recoverable(mail[k].deleted[u])
         => mail'[k].deleted[u] = mail[k].deleted[u]]_mailVars

\* Scrolling loses and repeats nothing: of the conversations that did not change
\* since the inbox was loaded each is shown once as far down as it was scrolled,
\* whatever messages arrive or are recalled between the pages.
InboxComplete ==
  \A s \in steady :
    s.activity >= inbox.before => Cardinality({t \in inbox.shown : t.about = s.about}) = 1
=============================================================================
