---------------------------- MODULE MessageProofs ----------------------------
(***************************************************************************)
(* The messages of a cinema, for any number of persons, messages and        *)
(* concurrent requests: answers stay inside their conversation, receipts    *)
(* count members, deletions are a person's own, what is deleted for good    *)
(* stays deleted, and scrolling through the inbox loses nothing.            *)
(***************************************************************************)
EXTENDS Messages, SetProofs

-----------------------------------------------------------------------------
(* Messages.  What a request was read for stays true while it waits: the     *)
(* message it answers, reads, deletes or restores stays sent, and the row    *)
(* it has inserted is its own until it commits.                               *)

Members(k) == mail[k].to \cup {mail[k].from}

\* A message begins its conversation, or stays among those of the one that did.
RowInside(k) ==
  /\ mail[k].to # {} /\ mail[k].from \notin mail[k].to
  /\ \/ mail[k].about = k
     \/ mail[k].about \in Sent /\ Members(k) \subseteq Members(mail[k].about)

\* What a request that writes a message knows.
Creates(r) ==
  /\ r.to # {} /\ r.from \notin r.to
  /\ r.about # 0 => r.about \in Sent /\ r.to \cup {r.from} \subseteq Members(r.about)
  /\ r.id # 0 => /\ r.id \in DOMAIN mail /\ ~ mail[r.id].sent
                 /\ mail[r.id].to = r.to /\ mail[r.id].from = r.from

Knows(h) ==
  /\ handling[h].op = "create" => Creates(handling[h])
  /\ handling[h].op \in {"read", "delete", "restore"} => handling[h].id \in Sent

OwnIds ==
  \A g, h \in Handler :
    /\ g # h
    /\ handling[g].op = "create" /\ handling[h].op = "create"
    /\ handling[g].id # 0
    => handling[g].id # handling[h].id

MailInv ==
  /\ MailTypeOK
  /\ \A k \in DOMAIN mail : RowInside(k)
  /\ \A h \in Handler : Knows(h)
  /\ OwnIds
  /\ ReceiptsOfMembers

\* What every step does to a row that exists.
RowStep(old, new) ==
  /\ new \in Mail
  /\ new.from = old.from /\ new.to = old.to /\ new.about = old.about
  /\ old.sent => new.sent
  /\ old.excluded \subseteq new.excluded
  /\ \A u \in old.to : old.deleted[u] # Never /\ ~ Recoverable(old.deleted[u])
       => new.deleted[u] = old.deleted[u]

\* A step that inserts no message.
Rewrites ==
  /\ mail' \in Seq(Mail) /\ DOMAIN mail' = DOMAIN mail /\ Len(mail') = Len(mail)
  /\ \A k \in DOMAIN mail : RowStep(mail[k], mail'[k])

SentSame == \A k \in DOMAIN mail : mail'[k].sent = mail[k].sent

\* The messages are numbered from 1, and the sent ones are among them.
LEMMA Domains == MailTypeOK =>
  /\ DOMAIN mail = 1 .. Len(mail) /\ Len(mail) \in Nat /\ DOMAIN mail \subseteq MailId
  /\ \A k \in DOMAIN mail : mail[k] \in Mail
  /\ Sent \subseteq DOMAIN mail
BY MessagesAssumption DEF MailTypeOK, MailId, Sent

\* A table rewritten row by row.
LEMMA RewrittenRows ==
  ASSUME MailTypeOK, mail' = [k \in DOMAIN mail |-> mail'[k]],
         \A k \in DOMAIN mail : RowStep(mail[k], mail'[k])
  PROVE  Rewrites
<1>1. DOMAIN mail = 1 .. Len(mail) /\ Len(mail) \in Nat
  BY Domains
<1>2. \A k \in 1 .. Len(mail) : mail'[k] \in Mail
  BY <1>1 DEF RowStep
<1>3. mail' = [k \in 1 .. Len(mail) |-> mail'[k]]
  BY <1>1
<1>4. mail' \in Seq(Mail) /\ Len(mail') = Len(mail)
  BY <1>1, <1>2, <1>3
<1> QED BY <1>1, <1>3, <1>4 DEF Rewrites

\* A row that is left alone.
LEMMA SameRow == ASSUME NEW row \in Mail PROVE RowStep(row, row)
BY DEF RowStep

\* No row is written.
LEMMA SameMail == MailTypeOK /\ UNCHANGED mail => Rewrites /\ SentSame
BY Domains, SameRow DEF Rewrites, SentSame, MailTypeOK

-----------------------------------------------------------------------------
(* What the steps write *)

\* The requests in flight have a message, and those of a person are his.
LEMMA Handlings ==
  ASSUME MailInv, NEW h \in Handler
  PROVE  /\ handling[h].op = "create" =>
              /\ handling[h].from \in Person /\ handling[h].to \in SUBSET Person
              /\ handling[h].about \in MailId \cup {0} /\ handling[h].broadcast \in BOOLEAN
              /\ handling[h].id \in MailId \cup {0}
         /\ handling[h].op \in {"read", "delete", "restore"} =>
              handling[h].by \in Person /\ handling[h].id \in Sent
<1>1. handling[h] \in Handling \cup {NotHandling}
  BY DEF MailInv, MailTypeOK
<1>2. NotHandling.op = "none"
  BY DEF NotHandling
<1> QED BY <1>1, <1>2 DEF Handling, MailInv, Knows

\* Sending writes one message and leaves the others alone.
LEMMA CommitWrites ==
  ASSUME MailInv, NEW h \in Handler, CommitMail(h)
  PROVE  /\ Rewrites /\ handling[h].id \in DOMAIN mail
         /\ mail'[handling[h].id].sent
         /\ \A k \in DOMAIN mail \ {handling[h].id} : mail'[k] = mail[k]
<1> PICK id : id = handling[h].id
  OBVIOUS
<1>a. MailTypeOK /\ \A k \in DOMAIN mail : mail[k] \in Mail
  BY Domains DEF MailInv
<1>1. id \in DOMAIN mail /\ mail' = [mail EXCEPT ![id].sent = TRUE]
  BY DEF CommitMail, MailInv, Knows, Creates
<1>2. \A k \in DOMAIN mail \ {id} : mail'[k] = mail[k]
  BY <1>1
<1>3. mail'[id] = [mail[id] EXCEPT !.sent = TRUE]
  BY <1>1
<1>4. RowStep(mail[id], mail'[id]) /\ mail'[id].sent
  <2> PICK old : old = mail[id]
    OBVIOUS
  <2> PICK new : new = mail'[id]
    OBVIOUS
  <2>a. old \in Mail /\ new = [old EXCEPT !.sent = TRUE]
    BY <1>1, <1>3, <1>a
  <2>1. new \in Mail
    BY <2>a DEF Mail
  <2>2. mail'[id].sent = TRUE
    BY <1>1, <1>3, <1>a DEF Mail
  <2>3. /\ mail'[id].from = mail[id].from /\ mail'[id].to = mail[id].to
        /\ mail'[id].about = mail[id].about /\ mail'[id].deleted = mail[id].deleted
        /\ mail'[id].excluded = mail[id].excluded
    BY <1>1, <1>3, <1>a DEF Mail
  <2> QED BY <2>1, <2>2, <2>3 DEF RowStep
<1>5. \A k \in DOMAIN mail : RowStep(mail[k], mail'[k])
  BY <1>2, <1>4, <1>a, SameRow
<1>6. mail' = [k \in DOMAIN mail |-> mail'[k]]
  BY <1>1
<1> QED BY <1>1, <1>2, <1>4, <1>5, <1>6, <1>a, RewrittenRows

\* Marking as read sends nothing.
LEMMA ReadWrites ==
  ASSUME MailInv, NEW h \in Handler, MarkRead(h)
  PROVE  Rewrites /\ SentSame
<1> PICK r : r = handling[h]
  OBVIOUS
<1>a. /\ MailTypeOK /\ (\A k \in DOMAIN mail : mail[k] \in Mail) /\ r.by \in Person
  BY Domains, Handlings DEF MailInv, MarkRead
<1>1. ASSUME NEW k \in DOMAIN mail
      PROVE  RowStep(mail[k], mail'[k]) /\ mail'[k].sent = mail[k].sent
  <2>1. \/ mail'[k] = mail[k]
        \/ mail'[k] = [mail[k] EXCEPT !.read = @ \cup {r.by}]
    BY DEF MarkRead
  <2> QED BY <1>a, <2>1, SameRow DEF RowStep, Mail
<1>2. mail' = [k \in DOMAIN mail |-> mail'[k]]
  BY DEF MarkRead
<1> QED BY <1>1, <1>2, <1>a, RewrittenRows DEF SentSame

\* Recalling a message sends nothing.
LEMMA RecallWrites ==
  ASSUME MailInv, NEW u \in Person, NEW k \in Sent, RecallMail(u, k)
  PROVE  Rewrites /\ SentSame
<1>a. /\ MailTypeOK /\ (\A j \in DOMAIN mail : mail[j] \in Mail) /\ k \in DOMAIN mail
  BY Domains DEF MailInv
<1>1. ASSUME NEW j \in DOMAIN mail
      PROVE  RowStep(mail[j], mail'[j]) /\ mail'[j].sent = mail[j].sent
  <2>1. \/ mail'[j] = mail[j]
        \/ mail'[j] = [mail[j] EXCEPT !.recalled = TRUE]
    BY <1>a DEF RecallMail
  <2>2. CASE mail'[j] = [mail[j] EXCEPT !.recalled = TRUE]
    <3>1. mail'[j] \in Mail
      BY <1>a, <2>2 DEF Mail
    <3>2. /\ mail'[j].from = mail[j].from /\ mail'[j].to = mail[j].to
          /\ mail'[j].about = mail[j].about /\ mail'[j].deleted = mail[j].deleted
          /\ mail'[j].excluded = mail[j].excluded /\ mail'[j].sent = mail[j].sent
      BY <1>a, <2>2 DEF Mail
    <3> QED BY <3>1, <3>2 DEF RowStep
  <2> QED BY <1>a, <2>1, <2>2, SameRow
<1>2. mail' = [j \in DOMAIN mail |-> mail'[j]]
  BY <1>a DEF RecallMail
<1> QED BY <1>1, <1>2, <1>a, RewrittenRows DEF SentSame

\* An employee who leaves is excluded from the messages addressed to him.
LEMMA LeaveWrites ==
  ASSUME MailInv, NEW u \in Person, Leave(u)
  PROVE  /\ Rewrites /\ SentSame
         /\ \A k \in Sent : u \in mail[k].to => u \in mail'[k].excluded
<1>a. /\ MailTypeOK /\ (\A j \in DOMAIN mail : mail[j] \in Mail) /\ Sent \subseteq DOMAIN mail
  BY Domains DEF MailInv
<1>1. ASSUME NEW j \in DOMAIN mail
      PROVE  /\ RowStep(mail[j], mail'[j]) /\ mail'[j].sent = mail[j].sent
             /\ j \in Sent /\ u \in mail[j].to => u \in mail'[j].excluded
  <2>1. IF j \in Sent /\ u \in mail[j].to
        THEN mail'[j] = [mail[j] EXCEPT !.excluded = @ \cup {u}]
        ELSE mail'[j] = mail[j]
    BY DEF Leave
  <2> QED BY <1>a, <2>1, SameRow DEF RowStep, Mail
<1>2. mail' = [j \in DOMAIN mail |-> mail'[j]]
  BY DEF Leave
<1> QED BY <1>1, <1>2, <1>a, RewrittenRows DEF SentSame

\* Only rows that are not deleted are deleted.
LEMMA DeleteWrites ==
  ASSUME MailInv, NEW h \in Handler, MarkDeleted(h)
  PROVE  Rewrites /\ SentSame
<1> PICK u : u = handling[h].by
  OBVIOUS
<1> PICK id : id = handling[h].id
  OBVIOUS
<1>a. /\ MailTypeOK /\ (\A k \in DOMAIN mail : mail[k] \in Mail) /\ u \in Person
      /\ today \in MaybeDay
  BY Domains, Handlings DEF MailInv, MarkDeleted, MailTypeOK, MaybeDay
<1>1. ASSUME NEW k \in DOMAIN mail
      PROVE  RowStep(mail[k], mail'[k]) /\ mail'[k].sent = mail[k].sent
  <2>1. \/ mail'[k] = mail[k]
        \/ mail'[k] = [mail[k] EXCEPT !.senderDeleted = today]
        \/ mail[k].deleted[u] = Never /\ mail'[k] = [mail[k] EXCEPT !.deleted[u] = today]
    BY <1>a DEF MarkDeleted, Removed
  <2>2. CASE mail'[k] = mail[k] \/ mail'[k] = [mail[k] EXCEPT !.senderDeleted = today]
    BY <1>a, <2>2, SameRow DEF RowStep, Mail
  <2>3. CASE mail[k].deleted[u] = Never /\ mail'[k] = [mail[k] EXCEPT !.deleted[u] = today]
    <3> PICK days : days = [mail[k].deleted EXCEPT ![u] = today]
      OBVIOUS
    <3>1. mail'[k] = [mail[k] EXCEPT !.deleted = days]
      BY <2>3
    <3>2. days \in [Person -> MaybeDay] /\ \A v \in Person \ {u} : days[v] = mail[k].deleted[v]
      BY <1>a DEF Mail
    <3> QED BY <1>a, <2>3, <3>1, <3>2 DEF RowStep, Mail
  <2> QED BY <2>1, <2>2, <2>3
<1>2. mail' = [k \in DOMAIN mail |-> mail'[k]]
  BY <1>a DEF MarkDeleted
<1> QED BY <1>1, <1>2, <1>a, RewrittenRows DEF SentSame

\* Only rows that can still be restored are restored.
LEMMA RestoreWrites ==
  ASSUME MailInv, NEW h \in Handler, MarkRestored(h)
  PROVE  Rewrites /\ SentSame
<1> PICK u : u = handling[h].by
  OBVIOUS
<1> PICK id : id = handling[h].id
  OBVIOUS
<1>a. /\ MailTypeOK /\ (\A k \in DOMAIN mail : mail[k] \in Mail) /\ u \in Person
      /\ Never \in MaybeDay /\ id \in DOMAIN mail
  BY Domains, Handlings DEF MailInv, MarkRestored, MaybeDay
<1>1. ASSUME NEW k \in DOMAIN mail
      PROVE  RowStep(mail[k], mail'[k]) /\ mail'[k].sent = mail[k].sent
  <2>1. \/ mail'[k] = mail[k]
        \/ mail'[k] = [mail[k] EXCEPT !.senderDeleted = Never]
        \/ /\ Recoverable(mail[k].deleted[u])
           /\ mail'[k] = [mail[k] EXCEPT !.deleted[u] = Never]
    BY <1>a DEF MarkRestored, Restored
  <2>2. CASE mail'[k] = mail[k] \/ mail'[k] = [mail[k] EXCEPT !.senderDeleted = Never]
    BY <1>a, <2>2, SameRow DEF RowStep, Mail
  <2>3. CASE /\ Recoverable(mail[k].deleted[u])
             /\ mail'[k] = [mail[k] EXCEPT !.deleted[u] = Never]
    <3> PICK days : days = [mail[k].deleted EXCEPT ![u] = Never]
      OBVIOUS
    <3>1. mail'[k] = [mail[k] EXCEPT !.deleted = days]
      BY <2>3
    <3>2. days \in [Person -> MaybeDay] /\ \A v \in Person \ {u} : days[v] = mail[k].deleted[v]
      BY <1>a DEF Mail
    <3> QED BY <1>a, <2>3, <3>1, <3>2 DEF RowStep, Mail
  <2> QED BY <2>1, <2>2, <2>3
<1>2. mail' = [k \in DOMAIN mail |-> mail'[k]]
  BY <1>a DEF MarkRestored
<1> QED BY <1>1, <1>2, <1>a, RewrittenRows DEF SentSame

-----------------------------------------------------------------------------
(* What they leave true *)

\* The rows stay inside their conversations.
LEMMA InsideStays ==
  ASSUME MailInv, Rewrites
  PROVE  /\ (\A k \in DOMAIN mail : RowInside(k))'
         /\ Sent \subseteq Sent' /\ \A k \in DOMAIN mail : Members(k)' = Members(k)
<1>1. /\ DOMAIN mail' = DOMAIN mail /\ Sent \subseteq DOMAIN mail
      /\ \A k \in DOMAIN mail : RowStep(mail[k], mail'[k]) /\ RowInside(k)
  BY Domains DEF Rewrites, MailInv
<1>2. \A k \in DOMAIN mail : Members(k)' = Members(k)
  BY <1>1 DEF RowStep, Members
<1>3. Sent \subseteq Sent'
  BY <1>1 DEF Sent, RowStep
<1>4. ASSUME NEW k \in DOMAIN mail PROVE RowInside(k)'
  BY <1>1, <1>2, <1>3, <1>4 DEF RowInside, RowStep
<1> QED BY <1>1, <1>2, <1>3, <1>4

\* A request that goes on waiting knows what it knew, where its row was not
\* committed.
LEMMA KnowsStays ==
  ASSUME MailInv, Rewrites, NEW h \in Handler, handling'[h] = handling[h],
         handling[h].op = "create" /\ handling[h].id # 0 =>
           ~ mail'[handling[h].id].sent
  PROVE  Knows(h)'
<1>1. /\ DOMAIN mail' = DOMAIN mail /\ Sent \subseteq DOMAIN mail /\ Sent \subseteq Sent'
      /\ \A k \in DOMAIN mail : RowStep(mail[k], mail'[k])
      /\ \A k \in DOMAIN mail : Members(k)' = Members(k)
  BY InsideStays, Domains DEF Rewrites, MailInv
<1>2. Knows(h)
  BY DEF MailInv
<1>3. ASSUME handling[h].op = "create" PROVE Creates(handling[h])'
  BY <1>1, <1>2, <1>3 DEF Knows, Creates, RowStep
<1> QED BY <1>1, <1>2, <1>3 DEF Knows

\* Receipts lose nobody who works in the cinema.
LEMMA ReceiptsStay ==
  ASSUME MailInv, Rewrites, working \subseteq working', missed \subseteq missed',
         \A k \in DOMAIN mail : mail'[k].sent => \/ mail[k].sent
              \/ \A u \in mail[k].to : u \in working' \/ <<k, u>> \in missed'
  PROVE  ReceiptsOfMembers'
<1>1. /\ DOMAIN mail' = DOMAIN mail
      /\ \A k \in DOMAIN mail : RowStep(mail[k], mail'[k])
  BY DEF Rewrites
<1>2. ReceiptsOfMembers
  BY DEF MailInv
<1> QED BY <1>1, <1>2 DEF ReceiptsOfMembers, RowStep, Sent

\* The types of what a step writes besides its message.
LEMMA TypesStay ==
  ASSUME MailInv, Rewrites, working' \subseteq Person, today' \in Day,
         handling' \in [Handler -> Handling \cup {NotHandling}],
         missed' \subseteq MailId \X Person, inbox' \in Inbox, steady' \subseteq Shown,
         \A k \in Sent' : RowInside(k)'
  PROVE  MailTypeOK'
BY DEF MailTypeOK, MailInv, Rewrites, RowInside

\* A request that ends.
LEMMA DoneOwns ==
  ASSUME MailInv, NEW h \in Handler, Done(h)
  PROVE  /\ handling' \in [Handler -> Handling \cup {NotHandling}]
         /\ handling'[h].op = "none" /\ \A g \in Handler \ {h} : handling'[g] = handling[g]
         /\ OwnIds'
<1>1. NotHandling.op = "none"
  BY DEF NotHandling
<1>2. handling \in [Handler -> Handling \cup {NotHandling}] /\ OwnIds
  BY DEF MailInv, MailTypeOK
<1> QED BY <1>1, <1>2 DEF Done, OwnIds

\* Reading, deleting, restoring and giving up end a request and commit no message.
LEMMA EndKeeps ==
  ASSUME MailInv, NEW h \in Handler, Done(h), Rewrites, SentSame,
         UNCHANGED <<working, today, missed, inbox>>, steady' \subseteq steady
  PROVE  MailInv'
<1>1. /\ handling' \in [Handler -> Handling \cup {NotHandling}]
      /\ handling'[h].op = "none" /\ \A g \in Handler \ {h} : handling'[g] = handling[g]
      /\ OwnIds'
  BY DoneOwns
<1>2. (\A k \in DOMAIN mail : RowInside(k))' /\ Sent' \subseteq DOMAIN mail'
  BY InsideStays DEF Sent
<1>3. MailTypeOK'
  <2>1. /\ working \subseteq Person /\ today \in Day /\ missed \subseteq MailId \X Person
        /\ inbox \in Inbox /\ steady \subseteq Shown
    BY DEF MailInv, MailTypeOK
  <2> QED BY <1>1, <1>2, <2>1, TypesStay
<1>4. ReceiptsOfMembers'
  BY ReceiptsStay DEF SentSame
<1>5. ASSUME NEW g \in Handler PROVE Knows(g)'
  <2>1. CASE g = h
    BY <1>1, <2>1 DEF Knows
  <2>2. CASE g # h
    <3>1. handling[g].op = "create" /\ handling[g].id # 0 => ~ mail'[handling[g].id].sent
      BY DEF MailInv, Knows, Creates, SentSame
    <3> QED BY <1>1, <2>2, <3>1, KnowsStays
  <2> QED BY <2>1, <2>2
<1> QED BY <1>1, <1>2, <1>3, <1>4, <1>5 DEF MailInv

\* A message is committed: its row is its request's own.
LEMMA CommitKeeps ==
  ASSUME MailInv, NEW h \in Handler, CommitMail(h)
  PROVE  MailInv'
<1> PICK r : r = handling[h]
  OBVIOUS
<1>a. /\ Rewrites /\ r.id \in DOMAIN mail /\ mail'[r.id].sent
      /\ \A k \in DOMAIN mail \ {r.id} : mail'[k] = mail[k]
  BY CommitWrites
<1>b. /\ r.op = "create" /\ r.id # 0 /\ Done(h) /\ UNCHANGED <<working, today, inbox>>
      /\ missed' = missed \cup {<<r.id, u>> : u \in r.to \ working} /\ steady' \subseteq steady
  BY DEF CommitMail, Unchanged
<1>c. r.to \in SUBSET Person /\ r.id \in MailId /\ mail[r.id].to = r.to
  BY <1>b, Handlings DEF MailInv, Knows, Creates
<1>1. /\ handling' \in [Handler -> Handling \cup {NotHandling}]
      /\ handling'[h].op = "none" /\ \A g \in Handler \ {h} : handling'[g] = handling[g]
      /\ OwnIds'
  BY <1>b, DoneOwns
<1>2. (\A k \in DOMAIN mail : RowInside(k))' /\ Sent' \subseteq DOMAIN mail'
  BY <1>a, InsideStays DEF Sent
<1>3. MailTypeOK'
  <2>1. /\ working \subseteq Person /\ today \in Day /\ missed \subseteq MailId \X Person
        /\ inbox \in Inbox /\ steady \subseteq Shown
    BY DEF MailInv, MailTypeOK
  <2>2. missed' \subseteq MailId \X Person
    BY <1>b, <1>c, <2>1
  <2> QED BY <1>a, <1>b, <1>1, <1>2, <2>1, <2>2, TypesStay
<1>4. ReceiptsOfMembers'
  <2>1. ASSUME NEW k \in DOMAIN mail, mail'[k].sent
        PROVE  \/ mail[k].sent
               \/ \A u \in mail[k].to : u \in working' \/ <<k, u>> \in missed'
    <3>1. CASE k # r.id
      BY <1>a, <2>1, <3>1
    <3>2. CASE k = r.id
      BY <1>b, <1>c, <3>2
    <3> QED BY <3>1, <3>2
  <2> QED BY <1>a, <1>b, <2>1, ReceiptsStay
<1>5. ASSUME NEW g \in Handler PROVE Knows(g)'
  <2>1. CASE g = h
    BY <1>1, <2>1 DEF Knows
  <2>2. CASE g # h
    <3>1. handling[g].op = "create" /\ handling[g].id # 0 => ~ mail'[handling[g].id].sent
      <4> SUFFICES ASSUME handling[g].op = "create", handling[g].id # 0
                   PROVE  ~ mail'[handling[g].id].sent
        OBVIOUS
      <4>1. handling[g].id # r.id
        BY <1>b, <2>2 DEF MailInv, OwnIds
      <4>2. handling[g].id \in DOMAIN mail /\ ~ mail[handling[g].id].sent
        BY DEF MailInv, Knows, Creates
      <4> QED BY <1>a, <4>1, <4>2
    <3> QED BY <1>a, <1>1, <2>2, <3>1, KnowsStays
  <2> QED BY <2>1, <2>2
<1> QED BY <1>1, <1>2, <1>3, <1>4, <1>5 DEF MailInv

\* A membership that ends, a return, a recall, a day that passes, the browser.
LEMMA OtherKeeps ==
  ASSUME MailInv, Rewrites, SentSame, ReceiptsOfMembers', UNCHANGED <<handling, missed>>,
         working' \subseteq Person, today' \in Day, inbox' \in Inbox, steady' \subseteq Shown
  PROVE  MailInv'
<1>1. (\A k \in DOMAIN mail : RowInside(k))' /\ Sent' \subseteq DOMAIN mail'
  BY InsideStays DEF Sent
<1>2. /\ handling \in [Handler -> Handling \cup {NotHandling}] /\ OwnIds
      /\ missed \subseteq MailId \X Person
  BY DEF MailInv, MailTypeOK
<1>3. MailTypeOK'
  BY <1>1, <1>2, TypesStay
<1>4. ASSUME NEW g \in Handler PROVE Knows(g)'
  <2>1. handling[g].op = "create" /\ handling[g].id # 0 => ~ mail'[handling[g].id].sent
    BY DEF MailInv, Knows, Creates, SentSame
  <2> QED BY <2>1, KnowsStays
<1>5. OwnIds'
  BY <1>2 DEF OwnIds
<1> QED BY <1>1, <1>3, <1>4, <1>5 DEF MailInv

\* A request that starts knows what it has read.
LEMMA BeginKeeps ==
  ASSUME MailInv, NEW h \in Handler, NEW r \in Handling, Begin(h, r),
         UNCHANGED <<mailTables, today, missed, inbox, steady>>,
         r.op = "create" => r.id = 0 /\ Creates(r),
         r.op \in {"read", "delete", "restore"} => r.id \in Sent
  PROVE  MailInv'
<1>a. /\ MailTypeOK /\ handling \in [Handler -> Handling \cup {NotHandling}] /\ OwnIds
      /\ \A g \in Handler : Knows(g)
  BY DEF MailInv, MailTypeOK
<1>1. /\ handling' = [handling EXCEPT ![h] = r] /\ UNCHANGED <<mail, working, today, missed, inbox, steady>>
  BY DEF Begin, mailTables
<1>2. handling'[h] = r /\ \A g \in Handler \ {h} : handling'[g] = handling[g]
  BY <1>1, <1>a
<1>3. ASSUME NEW g \in Handler PROVE Knows(g)'
  <2>1. CASE g = h
    BY <1>1, <1>2, <2>1 DEF Knows, Creates, Sent, Members
  <2>2. CASE g # h
    BY <1>1, <1>2, <1>a, <2>2 DEF Knows, Creates, Sent, Members
  <2> QED BY <2>1, <2>2
<1>4. OwnIds'
  BY <1>2, <1>a DEF OwnIds, MailInv, Knows, Creates
<1>5. MailTypeOK'
  BY <1>1, <1>a DEF MailTypeOK, Sent
<1> QED BY <1>1, <1>3, <1>4, <1>5 DEF MailInv, RowInside, Members, Sent, ReceiptsOfMembers

\* A message gets its row, which only its request can see.
LEMMA InsertKeeps ==
  ASSUME MailInv, NEW h \in Handler, InsertMail(h)
  PROVE  MailInv' /\ Sent' = Sent /\ \A k \in DOMAIN mail : mail'[k] = mail[k]
<1> PICK r : r = handling[h]
  OBVIOUS
<1> PICK id : id = Len(mail) + 1
  OBVIOUS
<1> PICK row : row =
    [sent |-> FALSE, from |-> r.from, to |-> r.to,
     about |-> IF r.about = 0 THEN id ELSE r.about,
     broadcast |-> r.broadcast, recalled |-> FALSE, senderDeleted |-> Never,
     deleted |-> [u \in Person |-> Never], read |-> {}, excluded |-> {}]
  OBVIOUS
<1>a. /\ MailTypeOK /\ OwnIds /\ ReceiptsOfMembers
      /\ \A g \in Handler : Knows(g)
      /\ \A k \in DOMAIN mail : RowInside(k)
      /\ handling \in [Handler -> Handling \cup {NotHandling}]
  BY DEF MailInv, MailTypeOK
<1>b. /\ DOMAIN mail = 1 .. Len(mail) /\ Len(mail) \in Nat /\ mail \in Seq(Mail)
      /\ \A k \in DOMAIN mail : mail[k] \in Mail
      /\ Sent \subseteq DOMAIN mail
  BY <1>a, Domains DEF MailTypeOK
<1>c. /\ r.op = "create" /\ r.id = 0 /\ id \in MailId
      /\ mail' = Append(mail, row)
      /\ handling' = [handling EXCEPT ![h].id = id]
      /\ UNCHANGED <<working, today, missed, inbox, steady>>
  BY DEF InsertMail
<1>d. /\ r.from \in Person /\ r.to \in SUBSET Person /\ r.about \in MailId \cup {0}
      /\ r.broadcast \in BOOLEAN /\ Creates(r)
  BY <1>a, <1>c, Handlings DEF Knows
<1>1. row \in Mail /\ ~ row.sent /\ row.from = r.from /\ row.to = r.to
      /\ row.about = IF r.about = 0 THEN id ELSE r.about
  <2>1. PICK about : about = IF r.about = 0 THEN id ELSE r.about
    OBVIOUS
  <2>2. about \in MailId
    BY <1>c, <1>d, <2>1
  <2>3. PICK days : days = [u \in Person |-> Never]
    OBVIOUS
  <2>4. days \in [Person -> MaybeDay] /\ Never \in MaybeDay
    BY <2>3 DEF MaybeDay
  <2>5. row = [sent |-> FALSE, from |-> r.from, to |-> r.to, about |-> about,
               broadcast |-> r.broadcast, recalled |-> FALSE, senderDeleted |-> Never,
               deleted |-> days, read |-> {}, excluded |-> {}]
    BY <2>1, <2>3
  <2>6. row \in Mail
    BY <1>d, <2>2, <2>4, <2>5 DEF Mail
  <2> QED BY <2>1, <2>5, <2>6
<1> HIDE DEF MailId
<1>2. /\ mail' \in Seq(Mail) /\ Len(mail') = id
      /\ DOMAIN mail' = DOMAIN mail \cup {id} /\ id \notin DOMAIN mail
      /\ mail'[id] = row /\ \A k \in DOMAIN mail : mail'[k] = mail[k]
  BY <1>b, <1>c, <1>1
<1>3. Sent' = Sent
  BY <1>1, <1>2 DEF Sent
<1>4. \A k \in DOMAIN mail : Members(k)' = Members(k)
  BY <1>2 DEF Members
<1>5. ASSUME NEW k \in DOMAIN mail' PROVE RowInside(k)'
  <2>1. CASE k \in DOMAIN mail
    BY <1>2, <1>3, <1>4, <1>a, <1>b, <2>1 DEF RowInside
  <2>2. CASE k = id
    BY <1>1, <1>2, <1>3, <1>4, <1>b, <1>d, <2>2 DEF RowInside, Creates, Members
  <2> QED BY <1>2, <2>1, <2>2
<1>6. /\ handling'[h] = [r EXCEPT !.id = id]
      /\ \A g \in Handler \ {h} : handling'[g] = handling[g]
  BY <1>a, <1>c
<1>7. /\ handling'[h] \in Handling /\ handling'[h].op = "create" /\ handling'[h].id = id
      /\ handling'[h].from = r.from /\ handling'[h].to = r.to /\ handling'[h].about = r.about
  <2>1. r \in Handling
    BY <1>a, <1>c DEF NotHandling
  <2> QED BY <1>6, <1>c, <2>1 DEF Handling
<1>8. handling' \in [Handler -> Handling \cup {NotHandling}]
  BY <1>a, <1>c, <1>6, <1>7
<1>9. MailTypeOK'
  <2>1. Len(mail') <= MaxMail
    BY <1>2, <1>c, MessagesAssumption DEF MailId
  <2> QED BY <1>2, <1>3, <1>8, <1>a, <1>b, <1>c, <2>1 DEF MailTypeOK
<1>10. ASSUME NEW g \in Handler PROVE Knows(g)'
  <2>1. CASE g = h
    <3>1. Creates(handling[h])'
      BY <1>1, <1>2, <1>3, <1>4, <1>7, <1>b, <1>d DEF Creates
    <3> QED BY <1>7, <2>1, <3>1 DEF Knows
  <2>2. CASE g # h
    BY <1>2, <1>3, <1>4, <1>6, <1>a, <1>b, <2>2 DEF Knows, Creates
  <2> QED BY <2>1, <2>2
<1>11. OwnIds'
  <2> SUFFICES ASSUME NEW f \in Handler, NEW g \in Handler, f # g,
                      handling'[f].op = "create", handling'[g].op = "create",
                      handling'[f].id # 0
               PROVE  handling'[f].id # handling'[g].id
    BY DEF OwnIds
  <2>1. \A e \in Handler \ {h} :
          handling[e].op = "create" /\ handling[e].id # 0 => handling[e].id \in DOMAIN mail
    BY <1>a DEF Knows, Creates
  <2>2. id # 0
    BY <1>b
  <2>a. \A e \in Handler \ {h} : handling'[e] = handling[e]
    BY <1>6
  <2>b. \A e \in Handler \ {h} : handling'[e].op = "create" => handling'[e].id # id
    BY <1>2, <2>1, <2>2, <2>a
  <2>3. CASE f = h
    BY <1>7, <2>3, <2>b
  <2>4. CASE g = h
    BY <1>7, <2>4, <2>b
  <2>5. CASE f # h /\ g # h
    BY <1>6, <1>a, <2>5 DEF OwnIds
  <2> QED BY <2>3, <2>4, <2>5
<1>12. ReceiptsOfMembers'
  BY <1>2, <1>3, <1>a, <1>b, <1>c DEF ReceiptsOfMembers
<1> QED BY <1>2, <1>3, <1>5, <1>9, <1>10, <1>11, <1>12 DEF MailInv

-----------------------------------------------------------------------------
(* Requests that start *)

\* A person writes to others who work in the cinema, or to all of them.
LEMMA WriteKeeps ==
  ASSUME MailInv, NEW h \in Handler, Write(h)
  PROVE  MailInv' /\ UNCHANGED mail
<1> PICK u \in Person : \/ \E to \in SUBSET Person : WriteMail(h, u, to)
                        \/ Broadcast(h, u)
                        \/ \E k \in Sent, all \in BOOLEAN : Answer(h, u, k, all)
  BY DEF Write
<1>a. MailTypeOK /\ working \subseteq Person
  BY DEF MailInv, MailTypeOK
<1>b. ASSUME NEW to \in SUBSET Person, NEW about \in MailId \cup {0}, NEW broadcast \in BOOLEAN,
             to # {}, u \notin to,
             about # 0 => about \in Sent /\ to \cup {u} \subseteq Members(about),
             Begin(h, NewMail(u, to, about, broadcast)),
             UNCHANGED <<mailTables, today, missed, inbox, steady>>
      PROVE  MailInv' /\ UNCHANGED mail
  <2> PICK r : r = NewMail(u, to, about, broadcast)
    OBVIOUS
  <2>1. r \in Handling /\ r.op = "create" /\ r.id = 0
        /\ r.from = u /\ r.to = to /\ r.about = about
    BY DEF NewMail, Handling
  <2>2. Creates(r)
    BY <1>b, <2>1 DEF Creates
  <2>3. Begin(h, r)
    BY <1>b
  <2> QED BY <1>b, <2>1, <2>2, <2>3, BeginKeeps DEF mailTables
<1>1. ASSUME NEW to \in SUBSET Person, WriteMail(h, u, to)
      PROVE  MailInv' /\ UNCHANGED mail
  BY <1>1, <1>b DEF WriteMail
<1>2. ASSUME Broadcast(h, u)
      PROVE  MailInv' /\ UNCHANGED mail
  BY <1>2, <1>a, <1>b DEF Broadcast
<1>3. ASSUME NEW k \in Sent, NEW all \in BOOLEAN, Answer(h, u, k, all)
      PROVE  MailInv' /\ UNCHANGED mail
  <2>a. k \in DOMAIN mail /\ mail[k] \in Mail /\ RowInside(k)
    BY <1>a, Domains DEF MailInv
  <2>b. mail[k].about \in Sent /\ Members(k) \subseteq Members(mail[k].about)
    BY <1>3, <2>a DEF RowInside
  <2> PICK to : to = Addressed(u, Candidates(k, all))
    OBVIOUS
  <2>1. /\ to # {} /\ u \notin to /\ to \subseteq Members(k) /\ u \in Members(k)
        /\ Begin(h, NewMail(u, to, mail[k].about, FALSE))
        /\ UNCHANGED <<mailTables, today, missed, inbox, steady>>
    BY <1>3, <2>a DEF Answer, Addressed, Candidates, Visible, Members
  <2>2. to \in SUBSET Person /\ mail[k].about \in MailId
    BY <2>1, <2>a DEF Members, Mail
  <2> QED BY <1>b, <2>1, <2>2, <2>b
<1> QED BY <1>1, <1>2, <1>3

\* A person reads, deletes or restores what was sent.
LEMMA AskKeeps ==
  ASSUME MailInv, NEW h \in Handler, NEW u \in Person,
         Read(h, u) \/ Delete(h, u) \/ Restore(h, u)
  PROVE  MailInv' /\ UNCHANGED mail
<1>1. PICK k \in Sent : ReadMail(h, u, k) \/ DeleteMail(h, u, k) \/ RestoreMail(h, u, k)
  BY DEF Read, Delete, Restore
<1>2. k \in MailId
  BY Domains DEF MailInv
<1>3. \E op \in {"read", "delete", "restore"} :
        /\ Begin(h, [op |-> op, by |-> u, id |-> k])
        /\ UNCHANGED <<mailTables, today, missed, inbox, steady>>
  BY <1>1 DEF ReadMail, DeleteMail, RestoreMail
<1>4. PICK op \in {"read", "delete", "restore"} :
        /\ Begin(h, [op |-> op, by |-> u, id |-> k])
        /\ UNCHANGED <<mailTables, today, missed, inbox, steady>>
  BY <1>3
<1> PICK r : r = [op |-> op, by |-> u, id |-> k]
  OBVIOUS
<1>5. r \in Handling /\ r.op = op /\ r.id = k
  BY <1>2 DEF Handling
<1>6. Begin(h, r)
  BY <1>4
<1> QED BY <1>4, <1>5, <1>6, BeginKeeps DEF mailTables

-----------------------------------------------------------------------------
(* The inbox *)

\* What the inbox is read from: a conversation is listed with the message
\* received last and with the message shown last.
LEMMA StatesShown ==
  ASSUME MailTypeOK, NEW u \in Person
  PROVE  InboxStates(u) \subseteq Shown
<1> SUFFICES ASSUME NEW k \in Kept(u)
             PROVE  [id |-> LastReceived(u, k), about |-> mail[k].about,
                     activity |-> Activity(u, k)] \in Shown
  BY DEF InboxStates
<1>a. /\ Sent \subseteq MailId /\ k \in Sent /\ mail[k] \in Mail /\ MaxMail \in Nat
      /\ u \in mail[k].to /\ ~ mail[k].recalled /\ mail[k].deleted[u] = Never
      /\ mail[k].from \notin mail[k].to
  BY Domains, MessagesAssumption DEF Kept, Received, MailTypeOK
<1>b. k \in Conversation(k) /\ Conversation(k) \subseteq Sent /\ MailId \subseteq 0 .. MaxMail
  BY <1>a DEF Conversation, MailId
<1>1. LastReceived(u, k) \in MailId
  <2> PICK S : S = Conversation(k) \cap Kept(u)
    OBVIOUS
  <2>1. S \in SUBSET (0 .. MaxMail) /\ S # {} /\ S \subseteq MailId
    BY <1>a, <1>b
  <2> QED BY <1>a, <2>1, MaxIsGreatest DEF LastReceived
<1>2. Activity(u, k) \in MailId
  <2> PICK S : S = {j \in Conversation(k) : ~ mail[j].recalled /\ Visible(u, j)}
    OBVIOUS
  <2>1. S \in SUBSET (0 .. MaxMail) /\ S \subseteq MailId /\ k \in S
    BY <1>a, <1>b DEF Visible
  <2> QED BY <1>a, <2>1, MaxIsGreatest DEF Activity
<1> QED BY <1>1, <1>2, <1>a DEF Shown, Mail

\* A page of a list that is not empty shows something.
LEMMA PageIsNotEmpty ==
  ASSUME NEW states \in SUBSET Shown, states # {}
  PROVE  Page(states) # {}
<1> PICK A : A = {s.activity : s \in states}
  OBVIOUS
<1>1. A \in SUBSET (0 .. MaxMail) /\ A # {} /\ MaxMail \in Nat
  BY MessagesAssumption DEF Shown, MailId
<1>2. Max(A) \in A /\ \A a \in A : a <= Max(A)
  BY <1>1, MaxIsGreatest
<1>3. PICK s \in states : s.activity = Max(A)
  BY <1>2
<1>4. {t \in states : t.activity > s.activity} = {}
  <2> SUFFICES ASSUME NEW t \in states PROVE ~ (t.activity > s.activity)
    OBVIOUS
  <2>1. t.activity <= s.activity /\ t.activity \in Int /\ s.activity \in Int
    BY <1>1, <1>2, <1>3 DEF Shown, MailId
  <2> QED BY <2>1
<1>5. Cardinality({t \in states : t.activity > s.activity}) < PageSize
  <2>1. Cardinality({}) = 0
    BY FS_EmptySet
  <2> QED BY <1>4, <2>1, MessagesAssumption
<1> QED BY <1>5 DEF Page

\* The browser keeps what it has read of the inbox.
LEMMA InboxPageShown ==
  ASSUME NEW states \in SUBSET Shown, NEW shown \in SUBSET Shown
  PROVE  InboxPage(states, shown) \in Inbox
<1> PICK page : page = Page(states)
  OBVIOUS
<1>1. page \subseteq states /\ (states # {} => page # {})
  BY PageIsNotEmpty DEF Page
<1>2. states # page => NextBefore(page) \in MailId
  <2> SUFFICES ASSUME states # page PROVE NextBefore(page) \in MailId
    OBVIOUS
  <2> PICK A : A = {s.activity : s \in page}
    OBVIOUS
  <2>1. A \in SUBSET Nat /\ A # {} /\ A \subseteq MailId
    BY <1>1 DEF Shown, MailId
  <2> QED BY <2>1, MinIsLeast DEF NextBefore
<1> PICK kept : kept = {s \in shown : \A t \in page : t.id # s.id} \cup page
  OBVIOUS
<1> PICK before : before = IF states # page THEN NextBefore(page) ELSE 0
  OBVIOUS
<1> PICK more : more = (states # page)
  OBVIOUS
<1>3. InboxPage(states, shown) = [shown |-> kept, before |-> before, more |-> more]
  BY Zenon DEF InboxPage
<1>4. kept \in SUBSET Shown /\ before \in MailId \cup {0} /\ more \in BOOLEAN
  BY <1>1, <1>2
<1> QED BY <1>3, <1>4 DEF Inbox

-----------------------------------------------------------------------------
(* Every step *)

RowSteps == \A k \in DOMAIN mail : RowStep(mail[k], mail'[k])

\* Some steps leave the messages alone.
LEMMA SameRows == MailTypeOK /\ UNCHANGED mail => RowSteps
BY Domains, SameRow DEF RowSteps

\* What a request does.
LEMMA HandlerKeeps ==
  ASSUME MailInv, NEW h \in Handler,
         Write(h) \/ Go(h) \/ GiveUp(h) \/ \E u \in Person : Read(h, u) \/ Delete(h, u) \/ Restore(h, u)
  PROVE  MailInv' /\ RowSteps
<1>a. MailTypeOK /\ \A k \in DOMAIN mail : mail[k] \in Mail
  BY Domains DEF MailInv
<1>1. CASE Write(h) \/ \E u \in Person : Read(h, u) \/ Delete(h, u) \/ Restore(h, u)
  BY <1>1, <1>a, WriteKeeps, AskKeeps, SameRows
<1>2. CASE InsertMail(h)
  BY <1>2, <1>a, InsertKeeps, SameRow DEF RowSteps
<1>3. CASE CommitMail(h)
  BY <1>3, CommitKeeps, CommitWrites DEF RowSteps, Rewrites
<1>4. CASE MarkRead(h) \/ MarkDeleted(h) \/ MarkRestored(h)
  <2>1. Rewrites /\ SentSame
    BY <1>4, ReadWrites, DeleteWrites, RestoreWrites
  <2>2. Done(h) /\ UNCHANGED <<working, today, missed, inbox>> /\ steady' \subseteq steady
    BY <1>4 DEF MarkRead, MarkDeleted, MarkRestored, Unchanged
  <2> QED BY <2>1, <2>2, EndKeeps DEF RowSteps, Rewrites
<1>5. CASE GiveUp(h)
  <2>1. Done(h) /\ UNCHANGED <<mail, working, today, missed, inbox, steady>>
    BY <1>5 DEF GiveUp, mailTables
  <2> QED BY <1>a, <2>1, SameMail, EndKeeps DEF RowSteps, Rewrites
<1> QED BY <1>1, <1>2, <1>3, <1>4, <1>5 DEF Go

\* What else happens.
LEMMA WorldKeeps ==
  ASSUME MailInv, NEW u \in Person, Recall(u) \/ Move(u) \/ NextDay \/ Scroll
  PROVE  MailInv' /\ RowSteps
<1>a. /\ MailTypeOK /\ working \subseteq Person /\ today \in Day /\ inbox \in Inbox
      /\ steady \subseteq Shown
  BY DEF MailInv, MailTypeOK
<1>b. ReceiptsOfMembers
  BY DEF MailInv
<1>1. CASE Recall(u)
  <2>1. PICK k \in Sent : RecallMail(u, k)
    BY <1>1 DEF Recall
  <2>2. Rewrites /\ SentSame
    BY <2>1, RecallWrites
  <2>3. UNCHANGED <<working, today, handling, missed, inbox>> /\ steady' \subseteq steady
    BY <2>1 DEF RecallMail, Unchanged
  <2>4. ReceiptsOfMembers'
    BY <2>2, <2>3, ReceiptsStay DEF SentSame
  <2> QED BY <1>a, <2>2, <2>3, <2>4, OtherKeeps DEF RowSteps, Rewrites
<1>2. CASE Leave(u)
  <2>1. /\ Rewrites /\ SentSame
        /\ \A k \in Sent : u \in mail[k].to => u \in mail'[k].excluded
    BY <1>2, LeaveWrites
  <2>2. working' = working \ {u} /\ UNCHANGED <<today, handling, missed, inbox, steady>>
    BY <1>2 DEF Leave
  <2>3. ReceiptsOfMembers'
    <3>1. DOMAIN mail' = DOMAIN mail /\ \A k \in DOMAIN mail : RowStep(mail[k], mail'[k])
      BY <2>1 DEF Rewrites
    <3>2. Sent' = Sent
      BY <2>1, <3>1 DEF Sent, SentSame
    <3> SUFFICES ASSUME NEW k \in Sent, NEW v \in mail'[k].to, v \notin mail'[k].excluded
                 PROVE  v \in working' \/ <<k, v>> \in missed'
      BY <3>2 DEF ReceiptsOfMembers
    <3>3. v \in mail[k].to /\ v \notin mail[k].excluded
      BY <1>a, <3>1, Domains DEF RowStep
    <3>4. v # u
      BY <2>1, <3>3
    <3> QED BY <1>b, <2>2, <3>3, <3>4 DEF ReceiptsOfMembers
  <2> QED BY <1>a, <2>1, <2>2, <2>3, OtherKeeps DEF RowSteps, Rewrites
<1>3. CASE Return(u) \/ NextDay \/ Scroll
  <2>1. UNCHANGED <<mail, handling, missed>> /\ working \subseteq working'
    BY <1>3 DEF Return, NextDay, Scroll, Load, LoadMore, mailTables
  <2>2. Rewrites /\ SentSame
    BY <1>a, <2>1, SameMail
  <2>3. ReceiptsOfMembers'
    BY <2>1, <2>2, ReceiptsStay DEF SentSame
  <2>4. working' \subseteq Person /\ today' \in Day /\ inbox' \in Inbox /\ steady' \subseteq Shown
    <3>1. CASE Return(u)
      BY <1>a, <3>1 DEF Return
    <3>2. CASE NextDay
      BY <1>a, <3>2, MessagesAssumption DEF NextDay, mailTables, Day
    <3>3. CASE Load
      <4>1. InboxStates(Reader) \subseteq Shown
        BY <1>a, StatesShown, MessagesAssumption
      <4>2. InboxPage(InboxStates(Reader), {}) \in Inbox
        BY <4>1, InboxPageShown
      <4> QED BY <1>a, <3>3, <4>1, <4>2 DEF Load, mailTables
    <3>4. CASE LoadMore
      <4> PICK states : states = {s \in InboxStates(Reader) : s.activity < inbox.before}
        OBVIOUS
      <4>1. states \subseteq Shown /\ inbox.shown \subseteq Shown
        BY <1>a, StatesShown, MessagesAssumption DEF Inbox
      <4>2. InboxPage(states, inbox.shown) \in Inbox
        BY <4>1, InboxPageShown
      <4> QED BY <1>a, <3>4, <4>2 DEF LoadMore, mailTables
    <3> QED BY <1>3, <3>1, <3>2, <3>3, <3>4 DEF Scroll
  <2> QED BY <2>1, <2>2, <2>3, <2>4, OtherKeeps DEF RowSteps, Rewrites
<1> QED BY <1>1, <1>2, <1>3 DEF Move

\* In a new cinema nobody has written.
LEMMA InitMailInv == MessagesInit => MailInv
<1> SUFFICES ASSUME MessagesInit PROVE MailInv
  OBVIOUS
<1>1. /\ mail = <<>> /\ DOMAIN mail = {} /\ Len(mail) = 0 /\ mail \in Seq(Mail) /\ Sent = {}
      /\ working = Person /\ today = 0 /\ missed = {} /\ steady = {}
      /\ handling = [h \in Handler |-> NotHandling]
      /\ inbox = [shown |-> {}, before |-> 0, more |-> FALSE]
  BY DEF MessagesInit, Sent
<1>2. inbox \in Inbox
  BY <1>1 DEF Inbox
<1>3. today \in Day /\ Len(mail) <= MaxMail
  BY <1>1, MessagesAssumption DEF Day
<1>4. \A h \in Handler : handling[h].op = "none"
  BY <1>1 DEF NotHandling
<1>5. MailTypeOK
  BY <1>1, <1>2, <1>3 DEF MailTypeOK
<1> QED BY <1>1, <1>4, <1>5 DEF MailInv, Knows, OwnIds, ReceiptsOfMembers

\* MailInv is inductive, and no step changes what a row says for good.
LEMMA MailInvInductive ==
  MailInv /\ [MessagesNext]_mailVars => MailInv' /\ RowSteps
<1> SUFFICES ASSUME MailInv, [MessagesNext]_mailVars PROVE MailInv' /\ RowSteps
  OBVIOUS
<1>1. CASE \E h \in Handler :
             \/ Write(h) \/ Go(h) \/ GiveUp(h)
             \/ \E u \in Person : Read(h, u) \/ Delete(h, u) \/ Restore(h, u)
  BY <1>1, HandlerKeeps
<1>2. CASE (\E u \in Person : Recall(u) \/ Move(u)) \/ NextDay \/ Scroll
  <2>1. PICK u \in Person : Recall(u) \/ Move(u) \/ NextDay \/ Scroll
    BY <1>2, MessagesAssumption
  <2> QED BY <2>1, WorldKeeps
<1>3. CASE UNCHANGED mailVars
  <2>1. RowSteps
    BY <1>3, SameRows DEF mailVars, MailInv
  <2>2. MailInv'
    BY <1>3 DEF mailVars, MailInv, MailTypeOK, RowInside, Members, Sent, Knows, Creates,
                OwnIds, ReceiptsOfMembers
  <2> QED BY <2>1, <2>2
<1> QED BY <1>1, <1>2, <1>3 DEF MessagesNext

\* The invariant of the messages holds throughout.
LEMMA MailInvAlways == MessagesSpec => []MailInv
<1>1. MailInv /\ [MessagesNext]_mailVars => MailInv'
  BY MailInvInductive
<1> QED BY InitMailInv, <1>1, PTL DEF MessagesSpec

\* A person deletes and restores with requests of his own.
LEMMA DaysAreOwn ==
  ASSUME MailInv, MessagesNext, NEW k \in Sent, NEW u \in mail[k].to,
         mail'[k].deleted[u] # mail[k].deleted[u]
  PROVE  \E h \in Handler :
           /\ handling[h] # NotHandling /\ handling'[h] = NotHandling
           /\ handling[h].op = IF mail[k].deleted[u] = Never THEN "delete" ELSE "restore"
           /\ handling[h].by = u /\ k \in Conversation(handling[h].id)
           /\ mail'[k].deleted[u] = IF mail[k].deleted[u] = Never THEN today ELSE Never
<1> PICK row : row = mail[k]
  OBVIOUS
<1> PICK new : new = mail'[k]
  OBVIOUS
<1>a. /\ MailTypeOK /\ k \in DOMAIN mail /\ row \in Mail /\ u \in Person
      /\ DOMAIN mail = 1 .. Len(mail) /\ Len(mail) \in Nat
      /\ mail \in Seq(Mail)
  <2>1. MailTypeOK /\ k \in DOMAIN mail /\ row \in Mail
    BY Domains DEF MailInv
  <2> QED BY <2>1, Domains DEF Mail, MailTypeOK
<1>b. new.deleted[u] # row.deleted[u]
  OBVIOUS
<1>1. new # row
  BY <1>b
<1>2. CASE \E h \in Handler :
             \/ Write(h) \/ GiveUp(h)
             \/ \E v \in Person : Read(h, v) \/ Delete(h, v) \/ Restore(h, v)
  <2>1. UNCHANGED mail
    BY <1>2 DEF Write, WriteMail, Broadcast, Answer, GiveUp, Read, ReadMail, Delete,
       DeleteMail, Restore, RestoreMail, mailTables
  <2> QED BY <1>1, <2>1
<1>3. CASE (\E v \in Person : Return(v)) \/ NextDay \/ Scroll
  <2>1. UNCHANGED mail
    BY <1>3 DEF Return, NextDay, Scroll, Load, LoadMore, mailTables
  <2> QED BY <1>1, <2>1
<1>4. CASE \E v \in Person : Recall(v) \/ Leave(v)
  <2>1. \/ new = row
        \/ new = [row EXCEPT !.recalled = TRUE]
        \/ \E v \in Person : new = [row EXCEPT !.excluded = @ \cup {v}]
    BY <1>a, <1>4 DEF Recall, RecallMail, Leave
  <2>2. new.deleted = row.deleted
    BY <1>a, <2>1 DEF Mail
  <2> QED BY <1>b, <2>2
<1>5. ASSUME NEW h \in Handler, InsertMail(h) PROVE new = row
  BY <1>a, <1>5 DEF InsertMail
<1>6. ASSUME NEW h \in Handler, CommitMail(h) \/ MarkRead(h) PROVE new.deleted = row.deleted
  <2>1. \/ new = row
        \/ new = [row EXCEPT !.sent = TRUE]
        \/ new = [row EXCEPT !.read = @ \cup {handling[h].by}]
    BY <1>a, <1>6 DEF CommitMail, MarkRead
  <2> QED BY <1>a, <2>1 DEF Mail
<1>7. CASE \E h \in Handler : MarkDeleted(h)
  <2>1. PICK h \in Handler : MarkDeleted(h)
    BY <1>7
  <2> PICK r : r = handling[h]
    OBVIOUS
  <2>2. \/ new = row \/ new = [row EXCEPT !.senderDeleted = today]
        \/ k \in Removed(r.by, r.id) /\ new = [row EXCEPT !.deleted[r.by] = today]
    BY <1>a, <2>1 DEF MarkDeleted
  <2>3. /\ k \in Removed(r.by, r.id) /\ new = [row EXCEPT !.deleted[r.by] = today]
    BY <1>a, <1>b, <2>2 DEF Mail
  <2>4. r.by = u /\ new.deleted[u] = today
    BY <1>a, <1>b, <2>3 DEF Mail
  <2>5. k \in Conversation(r.id) /\ row.deleted[u] = Never
    BY <2>3, <2>4 DEF Removed
  <2>6. r.op = "delete" /\ r # NotHandling /\ handling'[h] = NotHandling
    BY <1>a, <2>1 DEF MarkDeleted, Done, MailTypeOK, NotHandling
  <2> QED BY <2>4, <2>5, <2>6
<1>8. CASE \E h \in Handler : MarkRestored(h)
  <2>1. PICK h \in Handler : MarkRestored(h)
    BY <1>8
  <2> PICK r : r = handling[h]
    OBVIOUS
  <2>2. \/ new = row \/ new = [row EXCEPT !.senderDeleted = Never]
        \/ k \in Restored(r.by, r.id) /\ new = [row EXCEPT !.deleted[r.by] = Never]
    BY <1>a, <2>1 DEF MarkRestored
  <2>3. /\ k \in Restored(r.by, r.id) /\ new = [row EXCEPT !.deleted[r.by] = Never]
    BY <1>a, <1>b, <2>2 DEF Mail
  <2>4. r.by = u /\ new.deleted[u] = Never
    BY <1>a, <1>b, <2>3 DEF Mail
  <2>5. k \in Conversation(r.id) /\ row.deleted[u] # Never
    BY <2>3, <2>4 DEF Restored
  <2>6. r.op = "restore" /\ r # NotHandling /\ handling'[h] = NotHandling
    BY <1>a, <2>1 DEF MarkRestored, Done, MailTypeOK, NotHandling
  <2> QED BY <2>4, <2>5, <2>6
<1> QED BY <1>b, <1>1, <1>2, <1>3, <1>4, <1>5, <1>6, <1>7, <1>8
DEF MessagesNext, Go, Move

-----------------------------------------------------------------------------
(* The inbox as it is scrolled.  A conversation that did not change since the *)
(* inbox was loaded is shown as it was then, if it was reached.                *)

ScrollInv ==
  /\ steady \subseteq InboxStates(Reader)
  /\ \A t \in inbox.shown : t.id \in Sent /\ mail[t.id].about = t.about
  /\ \A s \in steady, t \in inbox.shown : t.about = s.about => t = s
  /\ \A s \in steady : s.activity >= inbox.before => s \in inbox.shown

\* A conversation is listed with one of its messages.
LEMMA StateNamesMail ==
  ASSUME MailTypeOK, NEW u \in Person, NEW s \in InboxStates(u)
  PROVE  s.id \in Sent /\ mail[s.id].about = s.about
<1>1. PICK k \in Kept(u) :
        s = [id |-> LastReceived(u, k), about |-> mail[k].about, activity |-> Activity(u, k)]
  BY DEF InboxStates
<1> PICK S : S = Conversation(k) \cap Kept(u)
  OBVIOUS
<1>2. k \in Sent /\ Sent \subseteq MailId
  BY <1>1, Domains DEF Kept, Received
<1>3. S \in SUBSET (0 .. MaxMail) /\ S # {} /\ MaxMail \in Nat
  <2>1. k \in S /\ S \subseteq Sent
    BY <1>2 DEF Conversation
  <2>2. MailId \subseteq 0 .. MaxMail /\ MaxMail \in Nat
    BY MessagesAssumption DEF MailId
  <2> QED BY <1>2, <2>1, <2>2
<1>4. s.id \in S
  BY <1>1, <1>3, MaxIsGreatest DEF LastReceived
<1> QED BY <1>1, <1>4 DEF Conversation

\* A conversation is listed once.
LEMMA OneStateEach ==
  ASSUME NEW u \in Person, NEW s \in InboxStates(u), NEW t \in InboxStates(u), s.about = t.about
  PROVE  s = t
<1>1. PICK j \in Kept(u) :
        s = [id |-> LastReceived(u, j), about |-> mail[j].about, activity |-> Activity(u, j)]
  BY DEF InboxStates
<1>2. PICK k \in Kept(u) :
        t = [id |-> LastReceived(u, k), about |-> mail[k].about, activity |-> Activity(u, k)]
  BY DEF InboxStates
<1>3. Conversation(j) = Conversation(k)
  BY <1>1, <1>2 DEF Conversation
<1>4. LastReceived(u, j) = LastReceived(u, k) /\ Activity(u, j) = Activity(u, k)
  BY <1>3 DEF LastReceived, Activity
<1> QED BY <1>1, <1>2, <1>4

\* What the inbox is read from stays, where no row that is sent changes in what is
\* read.
LEMMA SameStates ==
  ASSUME MailTypeOK, Sent' = Sent, NEW u \in Person,
         \A k \in Sent : /\ mail'[k].from = mail[k].from /\ mail'[k].to = mail[k].to
                         /\ mail'[k].about = mail[k].about
                         /\ mail'[k].recalled = mail[k].recalled
                         /\ mail'[k].senderDeleted = mail[k].senderDeleted
                         /\ mail'[k].deleted = mail[k].deleted
  PROVE  InboxStates(u)' = InboxStates(u)
<1>1. Kept(u)' = Kept(u) /\ Kept(u) \subseteq Sent
  BY DEF Kept, Received
<1>2. \A k \in Sent : Conversation(k)' = Conversation(k) /\ Conversation(k) \subseteq Sent
  BY DEF Conversation
<1>3. \A k \in Sent : Visible(u, k)' <=> Visible(u, k)
  BY DEF Visible
<1>4. ASSUME NEW k \in Kept(u)
      PROVE  LastReceived(u, k)' = LastReceived(u, k) /\ Activity(u, k)' = Activity(u, k)
  <2>1. {j \in Conversation(k) : ~mail[j].recalled /\ Visible(u, j)}'
          = {j \in Conversation(k) : ~mail[j].recalled /\ Visible(u, j)}
    BY <1>1, <1>2, <1>3
  <2> QED BY <1>1, <1>2, <2>1 DEF LastReceived, Activity
<1> QED BY <1>1, <1>4 DEF InboxStates

\* A page reaches down to where the next one begins.
LEMMA PageReaches ==
  ASSUME NEW states \in SUBSET Shown, IsFiniteSet(states), NEW shown,
         NEW s \in states, s.activity >= InboxPage(states, shown).before
  PROVE  s \in Page(states)
<1> PICK page : page = Page(states)
  OBVIOUS
<1>1. page \subseteq states /\ page # {}
  BY PageIsNotEmpty DEF Page
<1> SUFFICES ASSUME states # page PROVE s \in page
  OBVIOUS
<1> PICK A : A = {t.activity : t \in page}
  OBVIOUS
<1>2. InboxPage(states, shown).before = Min(A)
  BY DEF InboxPage, NextBefore
<1>3. A \in SUBSET Nat /\ A # {}
  BY <1>1 DEF Shown, MailId
<1>4. PICK t \in page : t.activity = Min(A)
  BY <1>3, MinIsLeast
<1>5. s.activity >= t.activity /\ s.activity \in Int /\ t.activity \in Int
      /\ \A x \in states : x.activity \in Int
  BY <1>1, <1>2, <1>4 DEF Shown, MailId
<1> PICK Above : Above = {x \in states : x.activity > s.activity}
  OBVIOUS
<1> PICK Higher : Higher = {x \in states : x.activity > t.activity}
  OBVIOUS
<1>6. Above \subseteq Higher
  BY <1>5
<1>7. IsFiniteSet(Higher)
  BY FS_Subset
<1>8. /\ Cardinality(Above) <= Cardinality(Higher)
      /\ Cardinality(Above) \in Nat /\ Cardinality(Higher) \in Nat
  BY <1>6, <1>7, FS_Subset, FS_CardinalityType
<1>9. Cardinality(Higher) < PageSize
  BY <1>4 DEF Page
<1> QED BY <1>8, <1>9, MessagesAssumption DEF Page

\* There are finitely many conversations.
LEMMA StatesFinite ==
  ASSUME MailTypeOK, NEW u \in Person PROVE IsFiniteSet(InboxStates(u))
<1> DEFINE state(k) == [id |-> LastReceived(u, k), about |-> mail[k].about,
                        activity |-> Activity(u, k)]
<1>1. IsFiniteSet(MailId)
  BY FS_Interval, MessagesAssumption DEF MailId
<1>2. Kept(u) \subseteq MailId
  BY Domains DEF Kept, Received
<1>3. IsFiniteSet(Kept(u))
  BY <1>1, <1>2, FS_Subset
<1> PICK K : K = Kept(u)
  OBVIOUS
<1> PICK f : f = [k \in K |-> state(k)]
  OBVIOUS
<1> PICK T : T = InboxStates(u)
  OBVIOUS
<1>4. f \in Surjection(K, T)
  BY DEF InboxStates, Surjection
<1> QED BY <1>3, <1>4, FS_Surjection

\* A step that leaves the browser alone, and keeps of the conversations that did
\* not change those that still do not.
LEMMA ScrollKeeps ==
  ASSUME MailInv, ScrollInv, RowSteps, Sent \subseteq Sent', UNCHANGED inbox,
         steady' \subseteq steady, steady' \subseteq InboxStates(Reader)'
  PROVE  ScrollInv'
<1>1. ASSUME NEW t \in inbox.shown PROVE t.id \in Sent' /\ mail'[t.id].about = t.about
  <2>1. t.id \in Sent /\ t.id \in DOMAIN mail /\ mail[t.id].about = t.about
    BY Domains DEF MailInv, ScrollInv
  <2> QED BY <2>1 DEF RowSteps, RowStep
<1> QED BY <1>1 DEF ScrollInv

\* A page is read.
LEMMA PageScrolls ==
  ASSUME MailInv, UNCHANGED mail, NEW shown \in SUBSET Shown, NEW below,
         \A t \in shown : t.id \in Sent /\ mail[t.id].about = t.about,
         steady' \subseteq InboxStates(Reader),
         \A s \in steady', t \in shown : t.about = s.about => t = s,
         \A s \in steady' : s \in below \/ s \in shown,
         below \subseteq InboxStates(Reader),
         inbox' = InboxPage(below, shown)
  PROVE  ScrollInv'
<1> PICK states : states = InboxStates(Reader)
  OBVIOUS
<1> PICK page : page = Page(below)
  OBVIOUS
<1>a. MailTypeOK /\ Reader \in Person
  BY MessagesAssumption DEF MailInv
<1>1. InboxStates(Reader)' = states /\ Sent' = Sent
  BY DEF InboxStates, Kept, Received, Sent, LastReceived, Activity, Conversation, Visible
<1>2. inbox'.shown = {s \in shown : \A t \in page : t.id # s.id} \cup page
  BY DEF InboxPage
<1>3. page \subseteq below /\ below \subseteq states /\ states \subseteq Shown
      /\ IsFiniteSet(below)
  BY <1>a, StatesShown, StatesFinite, FS_Subset DEF Page
<1>4. \A t \in states : t.id \in Sent /\ mail[t.id].about = t.about
  BY <1>a, StateNamesMail
<1>5. \A s, t \in states : s.about = t.about => s = t
  BY <1>a, OneStateEach
<1>6. \A t \in inbox'.shown : t.id \in Sent /\ mail[t.id].about = t.about
  BY <1>2, <1>3, <1>4
<1>7. \A s \in steady', t \in inbox'.shown : t.about = s.about => t = s
  BY <1>2, <1>3, <1>5
<1>8. ASSUME NEW s \in steady', s.activity >= inbox'.before PROVE s \in inbox'.shown
  <2>1. CASE s \in below
    BY <1>2, <1>3, <1>8, <2>1, PageReaches
  <2>2. CASE s \in shown
    <3>1. \A t \in page : t.id = s.id => t = s
      BY <1>3, <1>4, <1>5
    <3> QED BY <1>2, <2>2, <3>1
  <2> QED BY <2>1, <2>2
<1> QED BY <1>1, <1>6, <1>7, <1>8 DEF ScrollInv

\* Requests and the rest of the world, while nobody scrolls.
LEMMA OthersScroll ==
  ASSUME MailInv, ScrollInv, MailInv', RowSteps,
         \/ \E h \in Handler :
              Write(h) \/ Go(h) \/ GiveUp(h)
              \/ \E u \in Person : Read(h, u) \/ Delete(h, u) \/ Restore(h, u)
         \/ \E u \in Person : Recall(u) \/ Move(u)
         \/ NextDay \/ UNCHANGED mailVars
  PROVE  ScrollInv'
<1>a. MailTypeOK /\ Reader \in Person /\ steady \subseteq InboxStates(Reader)
      /\ \A k \in Sent : k \in DOMAIN mail
  BY MessagesAssumption, Domains DEF MailInv, ScrollInv
<1>1. ASSUME UNCHANGED <<mail, inbox, steady>> PROVE ScrollInv'
  <2>1. InboxStates(Reader)' = InboxStates(Reader) /\ Sent' = Sent
    BY <1>1 DEF InboxStates, Kept, Received, Sent, LastReceived, Activity, Conversation,
       Visible
  <2> QED BY <1>1, <2>1 DEF ScrollInv
<1>2. ASSUME Rewrites, Unchanged, UNCHANGED inbox PROVE ScrollInv'
  <2>1. Sent \subseteq Sent'
    BY <1>2, InsideStays
  <2>2. steady' \subseteq steady /\ steady' \subseteq InboxStates(Reader)'
    BY <1>2 DEF Unchanged
  <2> QED BY <1>2, <2>1, <2>2, ScrollKeeps
<1>3. ASSUME NEW h \in Handler, InsertMail(h) PROVE ScrollInv'
  <2>1. Sent' = Sent /\ \A k \in DOMAIN mail : mail'[k] = mail[k]
    BY <1>3, InsertKeeps
  <2>2. InboxStates(Reader)' = InboxStates(Reader)
    BY <1>a, <2>1, SameStates
  <2>3. UNCHANGED <<inbox, steady>>
    BY <1>3 DEF InsertMail
  <2> QED BY <1>a, <2>1, <2>2, <2>3, ScrollKeeps
<1>4. ASSUME NEW u \in Person, Leave(u) PROVE ScrollInv'
  <2>1. Rewrites /\ SentSame
    BY <1>4, LeaveWrites
  <2>2. Sent' = Sent
    BY <2>1 DEF Rewrites, SentSame, Sent
  <2>3. ASSUME NEW k \in Sent
        PROVE  /\ mail'[k].from = mail[k].from /\ mail'[k].to = mail[k].to
               /\ mail'[k].about = mail[k].about
               /\ mail'[k].recalled = mail[k].recalled
               /\ mail'[k].senderDeleted = mail[k].senderDeleted
               /\ mail'[k].deleted = mail[k].deleted
    <3>1. mail'[k] = mail[k] \/ mail'[k] = [mail[k] EXCEPT !.excluded = @ \cup {u}]
      BY <1>a, <1>4 DEF Leave
    <3>2. mail[k] \in Mail
      BY <1>a, Domains
    <3> QED BY <3>1, <3>2 DEF Mail
  <2>4. InboxStates(Reader)' = InboxStates(Reader)
    BY <1>a, <2>2, <2>3, SameStates
  <2>5. UNCHANGED <<inbox, steady>>
    BY <1>4 DEF Leave
  <2> QED BY <1>a, <2>2, <2>4, <2>5, ScrollKeeps
<1>5. ASSUME NEW h \in Handler, Go(h) PROVE ScrollInv'
  <2>1. CASE InsertMail(h)
    BY <1>3, <2>1
  <2>2. CASE CommitMail(h) \/ MarkRead(h) \/ MarkDeleted(h) \/ MarkRestored(h)
    <3>1. Rewrites
      BY <2>2, CommitWrites, ReadWrites, DeleteWrites, RestoreWrites
    <3>2. Unchanged /\ UNCHANGED inbox
      BY <2>2 DEF CommitMail, MarkRead, MarkDeleted, MarkRestored
    <3> QED BY <1>2, <3>1, <3>2
  <2> QED BY <1>5, <2>1, <2>2 DEF Go
<1>6. ASSUME NEW h \in Handler,
             \/ Write(h) \/ GiveUp(h)
             \/ \E u \in Person : Read(h, u) \/ Delete(h, u) \/ Restore(h, u)
      PROVE  UNCHANGED <<mail, inbox, steady>>
  BY <1>6 DEF Write, WriteMail, Broadcast, Answer, GiveUp, Read, ReadMail, Delete, DeleteMail,
     Restore, RestoreMail, mailTables
<1>7. ASSUME NEW u \in Person, Recall(u) PROVE ScrollInv'
  <2>1. PICK k \in Sent : RecallMail(u, k)
    BY <1>7 DEF Recall
  <2>2. Rewrites
    BY <2>1, RecallWrites
  <2>3. Unchanged /\ UNCHANGED inbox
    BY <2>1 DEF RecallMail
  <2> QED BY <1>2, <2>2, <2>3
<1>8. ASSUME NEW u \in Person, Move(u) PROVE ScrollInv'
  <2>1. CASE Return(u)
    BY <1>1, <2>1 DEF Return
  <2> QED BY <1>4, <1>8, <2>1 DEF Move
<1>9. NextDay \/ UNCHANGED mailVars => UNCHANGED <<mail, inbox, steady>>
  BY DEF NextDay, mailVars, mailTables
<1> QED BY <1>1, <1>5, <1>6, <1>7, <1>8, <1>9

\* Scrolling.
LEMMA ScrollScrolls ==
  ASSUME MailInv, ScrollInv, Scroll PROVE ScrollInv'
<1>a. MailTypeOK /\ inbox \in Inbox
  BY DEF MailInv, MailTypeOK
<1>1. CASE Load
  <2> PICK states : states = InboxStates(Reader)
    OBVIOUS
  <2>1. inbox' = InboxPage(states, {}) /\ steady' = states /\ UNCHANGED mail
    BY <1>1 DEF Load, mailTables
  <2>2. ({} \in SUBSET Shown) /\ \A s \in steady' : s \in states
    BY <2>1
  <2> QED BY <2>1, <2>2, PageScrolls
<1>2. CASE LoadMore
  <2> PICK below : below = {s \in InboxStates(Reader) : s.activity < inbox.before}
    OBVIOUS
  <2>1. inbox' = InboxPage(below, inbox.shown) /\ UNCHANGED <<mail, steady>>
    BY <1>2 DEF LoadMore, mailTables
  <2>2. inbox.shown \in SUBSET Shown /\ inbox.before \in Int
    BY <1>a DEF Inbox, MailId
  <2>3. ASSUME NEW s \in steady PROVE s \in below \/ s \in inbox.shown
    <3>1. s \in InboxStates(Reader) /\ s \in Shown
      BY <1>a DEF ScrollInv, MailTypeOK
    <3>2. s.activity \in Int
      BY <3>1 DEF Shown, MailId
    <3> QED BY <2>2, <3>1, <3>2 DEF ScrollInv
  <2>4. below \subseteq InboxStates(Reader) /\ steady' \subseteq InboxStates(Reader)
    BY <2>1 DEF ScrollInv
  <2>5. /\ \A t \in inbox.shown : t.id \in Sent /\ mail[t.id].about = t.about
        /\ \A s \in steady', t \in inbox.shown : t.about = s.about => t = s
    BY <2>1 DEF ScrollInv
  <2> QED BY <2>1, <2>2, <2>3, <2>4, <2>5, PageScrolls
<1> QED BY <1>1, <1>2 DEF Scroll

-----------------------------------------------------------------------------

\* The messages keep their types, however many there are and whatever happens.
THEOREM MailTypeCorrect == MessagesSpec => []MailTypeOK
<1>1. MailInv => MailTypeOK
  BY DEF MailInv
<1> QED BY MailInvAlways, <1>1, PTL

\* No answer leaves its conversation: createReply takes the persons of the
\* message it answers, which takes them from the one before.
THEOREM AnswersStay == MessagesSpec => []AnswersStayInside
<1>1. MailInv => AnswersStayInside
  BY Domains DEF MailInv, AnswersStayInside, RowInside, Members
<1> QED BY MailInvAlways, <1>1, PTL

\* Who left the cinema is in no receipt, but for the messages being written then.
THEOREM ReceiptsCountMembers == MessagesSpec => []ReceiptsOfMembers
<1>1. MailInv => ReceiptsOfMembers
  BY DEF MailInv
<1> QED BY MailInvAlways, <1>1, PTL

\* A recipient has deleted a message since the first of his deletions of the
\* conversation, and until he restores it: nobody else moves that day, and no
\* request of his own that was on its way moves it either.
THEOREM DeletionsAreOwn == MessagesSpec => OwnDeletionsOnly
<1>1. MailInv /\ [MessagesNext]_mailVars =>
        [\A k \in Sent : \A u \in mail[k].to :
           LET before == mail[k].deleted[u]
               after == mail'[k].deleted[u]
           IN after # before =>
                \E h \in Handler :
                  /\ handling[h] # NotHandling /\ handling'[h] = NotHandling
                  /\ handling[h].op = IF before = Never THEN "delete" ELSE "restore"
                  /\ handling[h].by = u /\ k \in Conversation(handling[h].id)
                  /\ after = IF before = Never THEN today ELSE Never]_mailVars
  BY DaysAreOwn
<1> QED BY MailInvAlways, <1>1, PTL DEF MessagesSpec, OwnDeletionsOnly

\* What is deleted past its retention stays deleted.
THEOREM DeletedForGood == MessagesSpec => GoneForGood
<1>1. MailInv /\ [MessagesNext]_mailVars =>
        [\A k \in Sent : \A u \in mail[k].to :
           mail[k].deleted[u] # Never /\ ~Recoverable(mail[k].deleted[u])
             => mail'[k].deleted[u] = mail[k].deleted[u]]_mailVars
  BY MailInvInductive, Domains DEF MailInv, RowSteps, RowStep
<1> QED BY MailInvAlways, <1>1, PTL DEF MessagesSpec, GoneForGood

\* The inbox shows each conversation that did not change exactly once, as far down
\* as it was scrolled: a page is read below the last message of the one before,
\* and replaces what it shows again.
THEOREM InboxIsComplete == MessagesSpec => []InboxComplete
<1>1. MessagesInit => ScrollInv
  BY DEF MessagesInit, ScrollInv
<1>2. MailInv /\ MailInv' /\ ScrollInv /\ [MessagesNext]_mailVars => ScrollInv'
  <2> SUFFICES ASSUME MailInv, MailInv', ScrollInv, [MessagesNext]_mailVars PROVE ScrollInv'
    OBVIOUS
  <2>1. RowSteps
    BY MailInvInductive
  <2> QED BY <2>1, OthersScroll, ScrollScrolls DEF MessagesNext
<1>3. ScrollInv => InboxComplete
  <2> SUFFICES ASSUME ScrollInv, NEW s \in steady, s.activity >= inbox.before
               PROVE  Cardinality({t \in inbox.shown : t.about = s.about}) = 1
    BY DEF InboxComplete
  <2>1. {t \in inbox.shown : t.about = s.about} = {s}
    BY DEF ScrollInv
  <2> QED BY <2>1, FS_Singleton
<1> QED BY <1>1, <1>2, <1>3, MailInvAlways, PTL DEF MessagesSpec
=============================================================================
