--------------------------- MODULE Notifications ---------------------------
(***************************************************************************)
(* The notification service: messages from the broker become delivery rows *)
(* and mails, with push messages beside them, and a poller repeats failed   *)
(* sends (notification-service-go/internal).                               *)
(*                                                                         *)
(* Consumer workers, the goroutine of a first attempt and the poller run    *)
(* side by side.  A worker's steps are: persist the row, start the attempt, *)
(* acknowledge.  An attempt's steps are: read the row, claim it, send, mark.*)
(* The broker redelivers what was never acknowledged; the mail server may   *)
(* refuse for good or for now, or accept and lose its answer.               *)
(***************************************************************************)
EXTENDS Integers, Sequences, FiniteSets

CONSTANTS
  Message,        \* what the queue delivers, with Shape[m]
  Shape,          \* [key, type, email, client, template]
  Attempt,        \* the goroutines of first attempts; the poller is one more
  Poller,
  MaxRetries,
  MaxRows,        \* bound: delivery rows
  NotifyScenarios \* [msgs, may, budget]

ASSUME NotifyAssumption ==
  /\ MaxRetries \in Nat /\ MaxRows \in Nat
  /\ Shape \in [Message -> [key : STRING, type : STRING, email : BOOLEAN, client : BOOLEAN, template : BOOLEAN]]

VARIABLES
  nenv,
  msg,       \* each message: queued, taken by a worker, gone
  rows,      \* delivery rows, in the order they were created
  att,       \* where each attempt stands
  device,    \* the device token a client registered
  sent,      \* history: mails that left per row, pushes per message
  nfaults

nvars == <<nenv, msg, rows, att, device, sent, nfaults>>

DeliveryStatus == {"PENDING", "PROCESSING", "RETRY_SCHEDULED", "SUCCEEDED", "FAILED"}
Resting == [at |-> "idle"]
Runner == Attempt \cup {Poller}
--------------------------------------------------------------------------
NMay(f) == f \in nenv.may
NFail(f) == NMay(f) /\ nfaults < nenv.budget /\ nfaults' = nfaults + 1
NNoFail == UNCHANGED nfaults

NotifyInit ==
  /\ nenv \in NotifyScenarios
  /\ msg = [m \in Message |-> IF m \in nenv.msgs THEN "queued" ELSE "gone"]
  /\ rows = <<>>
  /\ att = [w \in Runner |-> Resting]
  /\ device = FALSE
  /\ sent = [mail |-> [i \in 1 .. MaxRows |-> 0], push |-> [m \in Message |-> 0]]
  /\ nfaults = 0

\* The routing key decides: ignored, unknown or a notification type.
IgnoredRoutingKeys == {"ignored"}
ResolveNotificationType(m) == IF Shape[m].key = "known" THEN {Shape[m].type} ELSE {}
IsPushOnlyNotificationType(type) == type \in {"PRICE_ALERT_TRIGGERED", "ORDER"}
Validate(m) == Shape[m].email

\* The template's text; a mail also needs a recipient.
ResolveTemplates(m) == Shape[m].template
Resolve(m) == Shape[m].email /\ ResolveTemplates(m)

Row(m, st) == [m |-> m, st |-> st, tries |-> 0, due |-> FALSE]
NewPendingDelivery(m) == Row(m, "PENDING")
NewFailedAudit(m) == Row(m, "FAILED")

\* The registry of devices: an upsert in place, a delete that may find nothing.
Upsert == device' = TRUE
DeleteByClientId == device' = FALSE

registerToken ==
  /\ ~device /\ Upsert
  /\ UNCHANGED <<nenv, msg, rows, att, sent, nfaults>>
deregisterToken ==
  /\ device /\ DeleteByClientId
  /\ UNCHANGED <<nenv, msg, rows, att, sent, nfaults>>

\* A push is tried once; whatever fails only skips it.
FindByClientId(m) == Shape[m].client /\ device
SendData(m) == [sent EXCEPT !.push[m] = @ + 1]

sendVerificationPush(m) == SendData(m)
sendOrderPush(m) == SendData(m)
sendPriceAlertPush(m) == SendData(m)

tryPushDelivery(m, type) ==
  sent' = CASE ~FindByClientId(m) -> sent
            [] FindByClientId(m) /\ type = "VERIFICATION_OTP" -> sendVerificationPush(m)
            [] FindByClientId(m) /\ type = "PRICE_ALERT_TRIGGERED" -> sendPriceAlertPush(m)
            [] FindByClientId(m) /\ type = "ORDER" -> sendOrderPush(m)
NoPush == UNCHANGED sent

Go(m, where) == msg' = [msg EXCEPT ![m] = where]

\* The test endpoint pushes to whatever device is registered; no row, no message.
testPush == device /\ UNCHANGED nvars
--------------------------------------------------------------------------
\* A push-only type needs its template, not a recipient; one with a
\* recipient goes on to the mail.
handlePushOnlyNotification(m, type) ==
  IF ResolveTemplates(m)
  THEN tryPushDelivery(m, type) /\ Go(m, IF Shape[m].email THEN "create" ELSE "done")
  ELSE NoPush /\ Go(m, "refused")

HandleIncoming(m, type) ==
  IF IsPushOnlyNotificationType(type) THEN handlePushOnlyNotification(m, type)
  ELSE /\ IF type = "VERIFICATION_OTP" THEN tryPushDelivery(m, type) ELSE NoPush
       /\ Go(m, IF Resolve(m) THEN "create" ELSE "refused")

\* A worker takes a message; one that is refused is not put back.
Handle(m) ==
  LET type == ResolveNotificationType(m) IN
  /\ msg[m] = "queued"
  /\ \/ Shape[m].key \in IgnoredRoutingKeys /\ Go(m, "done") /\ NoPush
     \/ Shape[m].key \notin IgnoredRoutingKeys /\ type = {} /\ Go(m, "audit") /\ NoPush
     \/ /\ Shape[m].key \notin IgnoredRoutingKeys
        /\ \E t \in type :
             IF Validate(m) \/ IsPushOnlyNotificationType(t) THEN HandleIncoming(m, t)
             ELSE Go(m, "refused") /\ NoPush
  /\ UNCHANGED <<nenv, rows, att, device, nfaults>>

\* Create, then the goroutine of the first attempt; PersistFailedAudit for
\* an unknown key.  A failed insert refuses the message: it is lost.
Create(m) ==
  /\ msg[m] = "create" /\ Len(rows) < MaxRows
  /\ \/ /\ NNoFail /\ rows' = Append(rows, NewPendingDelivery(m))
        /\ \E w \in Attempt : att[w] = Resting
             /\ att' = [att EXCEPT ![w] = [at |-> "load", i |-> Len(rows) + 1]]
        /\ msg' = [msg EXCEPT ![m] = "done"]
     \/ NFail("db") /\ msg' = [msg EXCEPT ![m] = "refused"] /\ UNCHANGED <<rows, att>>
  /\ UNCHANGED <<nenv, device, sent>>

PersistFailedAudit(m) == Append(rows, NewFailedAudit(m))
PersistUnsupportedAudit(m) ==
  /\ msg[m] = "audit" /\ Len(rows) < MaxRows
  /\ \/ NNoFail /\ rows' = PersistFailedAudit(m) /\ msg' = [msg EXCEPT ![m] = "done"]
     \/ NFail("db") /\ msg' = [msg EXCEPT ![m] = "refused"] /\ UNCHANGED rows
  /\ UNCHANGED <<nenv, att, device, sent>>

\* process: Ack what was handled, Nack without requeue what was refused; an
\* acknowledgement that is lost brings the message again.
process(m) ==
  /\ msg[m] \in {"done", "refused"}
  /\ \/ NNoFail /\ msg' = [msg EXCEPT ![m] = "gone"]
     \/ NFail("ack") /\ msg' = [msg EXCEPT ![m] = "queued"]
  /\ UNCHANGED <<nenv, rows, att, device, sent>>

--------------------------------------------------------------------------
\* AttemptDelivery.  A PROCESSING row passes the first test and fails the
\* second, the claim.
IsEligibleForAttempt(r) ==
  /\ r.st \notin {"SUCCEEDED", "FAILED"} /\ r.tries < MaxRetries
  /\ r.st = "RETRY_SCHEDULED" => r.due

FindByDeliveryID(i) == rows[i]

LoadDelivery(w) ==
  /\ att[w].at = "load"
  /\ att' = [att EXCEPT ![w] = IF IsEligibleForAttempt(FindByDeliveryID(att[w].i))
                               THEN [@ EXCEPT !.at = "claim"] ELSE Resting]
  /\ UNCHANGED <<nenv, msg, rows, device, sent, nfaults>>

Claims(r) == r.st \in {"PENDING", "RETRY_SCHEDULED"} /\ r.tries < MaxRetries

MarkProcessing(w) ==
  LET i == att[w].i IN
  /\ att[w].at = "claim"
  /\ \/ /\ Claims(rows[i]) /\ NNoFail
        /\ rows' = [rows EXCEPT ![i].st = "PROCESSING"]
        /\ att' = [att EXCEPT ![w].at = "send"]
     \/ ~Claims(rows[i]) /\ NNoFail /\ att' = [att EXCEPT ![w] = Resting] /\ UNCHANGED rows
     \/ NFail("db") /\ att' = [att EXCEPT ![w] = Resting] /\ UNCHANGED rows
  /\ UNCHANGED <<nenv, msg, device, sent>>

\* The mail server accepts, refuses for now or for good, or accepts and the
\* connection breaks before its answer, which IsRetryable takes for a refusal.
SendEmail(w) ==
  LET i == att[w].i IN
  /\ att[w].at = "send"
  /\ \E r \in {"ok", "temp", "perm", "ghost"} :
       /\ IF r = "ok" THEN NNoFail ELSE NFail(r)
       /\ sent' = IF r \in {"ok", "ghost"} THEN [sent EXCEPT !.mail[i] = @ + 1] ELSE sent
       /\ att' = [att EXCEPT ![w].at = IF r = "ok" THEN "ok" ELSE IF r = "perm" THEN "perm" ELSE "temp"]
  /\ UNCHANGED <<nenv, msg, rows, device>>

IsRetryable(w) == att[w].at = "temp"

SucceededRow(r) == [r EXCEPT !.st = "SUCCEEDED", !.tries = @ + 1]
RefusedRow(r, again) ==
  [r EXCEPT !.st = IF again THEN "RETRY_SCHEDULED" ELSE "FAILED", !.tries = @ + 1, !.due = FALSE]

MarkSucceeded(w) ==
  /\ att[w].at = "ok"
  /\ \/ NNoFail /\ rows' = [rows EXCEPT ![att[w].i] = SucceededRow(@)]
     \/ NFail("db") /\ UNCHANGED rows
  /\ att' = [att EXCEPT ![w] = Resting]
  /\ UNCHANGED <<nenv, msg, device, sent>>

\* Mutant: the attempt being marked is counted twice.
RetriesLeftOffByOne(r) == r.tries + 2 < MaxRetries

RetriesLeft(r) == r.tries + 1 < MaxRetries

MarkFailedOrRetry(w) ==
  LET i == att[w].i  again == IsRetryable(w) /\ RetriesLeft(rows[i]) IN
  /\ att[w].at \in {"temp", "perm"}
  /\ \/ NNoFail /\ rows' = [rows EXCEPT ![i] = RefusedRow(@, again)]
     \/ NFail("db") /\ UNCHANGED rows
  /\ att' = [att EXCEPT ![w] = Resting]
  /\ UNCHANGED <<nenv, msg, device, sent>>

AttemptDelivery(w) ==
  LoadDelivery(w) \/ MarkProcessing(w) \/ SendEmail(w) \/ MarkSucceeded(w) \/ MarkFailedOrRetry(w)

\* A retry's time comes; the poller works through what is due, one by one.
RetryDue(i) ==
  /\ rows[i].st = "RETRY_SCHEDULED" /\ ~rows[i].due
  /\ rows' = [rows EXCEPT ![i].due = TRUE]
  /\ UNCHANGED <<nenv, msg, att, device, sent, nfaults>>

FindDueRetries ==
  {i \in 1 .. Len(rows) : rows[i].st = "RETRY_SCHEDULED" /\ rows[i].due /\ rows[i].tries < MaxRetries}

processDueRetries ==
  /\ att[Poller] = Resting
  /\ \E i \in FindDueRetries : att' = [att EXCEPT ![Poller] = [at |-> "load", i |-> i]]
  /\ UNCHANGED <<nenv, msg, rows, device, sent, nfaults>>

\* The process dies and restarts: attempts are forgotten, unacknowledged
\* messages come again.
NotifyCrash ==
  /\ NFail("crash")
  /\ att' = [w \in Runner |-> Resting]
  /\ msg' = [m \in Message |-> IF msg[m] = "gone" THEN "gone" ELSE "queued"]
  /\ UNCHANGED <<nenv, rows, device, sent>>

WorkStep ==
  \/ \E m \in Message : Handle(m) \/ Create(m) \/ PersistUnsupportedAudit(m) \/ process(m)
  \/ \E w \in Runner : AttemptDelivery(w)
  \/ \E i \in 1 .. Len(rows) : RetryDue(i)
  \/ processDueRetries

NotifyNext == WorkStep \/ registerToken \/ deregisterToken \/ testPush \/ NotifyCrash

NotifySpec == NotifyInit /\ [][NotifyNext]_nvars
NotifyFairness == WF_nvars(WorkStep)
--------------------------------------------------------------------------
\* Types of the messages, the delivery rows and the attempts.
NotifyTypeOK ==
  /\ msg \in [Message -> {"queued", "create", "audit", "done", "refused", "gone"}]
  /\ \A i \in 1 .. Len(rows) :
       rows[i].m \in Message /\ rows[i].st \in DeliveryStatus /\ rows[i].tries \in 0 .. MaxRetries
  /\ \A w \in Runner : att[w].at \in {"idle", "load", "claim", "send", "ok", "temp", "perm"}

Owners(i) == {w \in Runner : att[w] # Resting /\ att[w].i = i
                             /\ att[w].at \in {"send", "ok", "temp", "perm"}}

\* A row is sent by at most one attempt at a time and its mail leaves at most
\* once, unless the mail server's answer was lost; SUCCEEDED means it left,
\* FAILED that it was refused for good or often enough; and a message makes
\* one row and one push, unless it was redelivered.
DeliveredOnce ==
  \A i \in 1 .. Len(rows) :
    /\ Cardinality(Owners(i)) <= 1
    /\ Owners(i) # {} => rows[i].st = "PROCESSING"
    /\ ~NMay("ghost") => sent.mail[i] <= 1
    /\ rows[i].st = "SUCCEEDED" => sent.mail[i] >= 1
    /\ rows[i].st = "FAILED" /\ ~NMay("ghost") => sent.mail[i] = 0
    /\ rows[i].st = "FAILED" /\ ResolveNotificationType(rows[i].m) # {} =>
         rows[i].tries = MaxRetries \/ NMay("perm")
    /\ ~NMay("ack") /\ ~NMay("crash") =>
         /\ \A j \in 1 .. Len(rows) : rows[i].m = rows[j].m => i = j
         /\ sent.push[rows[i].m] <= 1

\* Every message that needs a mail is decided in the end, sent or failed: no
\* message is left without its row, and no row undecided for good.  Neither a
\* failed statement nor a crash is among the faults.
AllDecided ==
  nenv.may \cap {"db", "crash"} = {} =>
    /\ \A m \in Message : msg[m] # "create"
    /\ \A i \in 1 .. Len(rows) : rows[i].st \in {"SUCCEEDED", "FAILED"}
MailsSettle == []<>AllDecided
--------------------------------------------------------------------------
(* The inductive invariant behind DeliveredOnce. *)

Delivery == [m : Message, st : DeliveryStatus, tries : 0 .. MaxRetries, due : BOOLEAN]
Stand == {Resting} \cup [at : {"load", "claim", "send", "ok", "temp", "perm"}, i : 1 .. MaxRows]
Owns(w) == att[w].at \in {"send", "ok", "temp", "perm"}

MailTypes ==
  /\ msg \in [Message -> {"queued", "create", "audit", "done", "refused", "gone"}]
  /\ rows \in Seq(Delivery) /\ Len(rows) <= MaxRows
  /\ att \in [Runner -> Stand]
  /\ \A w \in Runner : att[w].at # "idle" => att[w].i <= Len(rows)
  /\ sent \in [mail : [1 .. MaxRows -> Nat], push : [Message -> Nat]]

\* The claim gives a row to one attempt, which has a try left.
Claimed ==
  /\ \A w \in Runner : Owns(w) => rows[att[w].i].st = "PROCESSING"
  /\ \A v, w \in Runner : Owns(v) /\ Owns(w) /\ att[v].i = att[w].i => v = w
  /\ \A i \in 1 .. Len(rows) : rows[i].st = "PROCESSING" => rows[i].tries < MaxRetries

\* What has left, by the row's status and where its attempt stands.
Counted ==
  /\ \A i \in 1 .. MaxRows : i > Len(rows) => sent.mail[i] = 0
  /\ \A w \in Runner : att[w].at = "ok" => sent.mail[att[w].i] >= 1
  /\ \A i \in 1 .. Len(rows) : rows[i].st = "SUCCEEDED" => sent.mail[i] >= 1
  /\ ~NMay("ghost") =>
       /\ \A i \in 1 .. Len(rows) :
            sent.mail[i] <= 1 /\ (rows[i].st \notin {"PROCESSING", "SUCCEEDED"} => sent.mail[i] = 0)
       /\ \A w \in Runner : att[w].at \in {"send", "temp", "perm"} => sent.mail[att[w].i] = 0

\* Why a row has failed.
Explained ==
  /\ \A w \in Runner : att[w].at = "perm" => NMay("perm")
  /\ \A m \in Message : msg[m] = "audit" => ResolveNotificationType(m) = {}
  /\ \A i \in 1 .. Len(rows) : rows[i].st = "FAILED" =>
       ResolveNotificationType(rows[i].m) = {} \/ rows[i].tries = MaxRetries \/ NMay("perm")

\* A message that is never delivered again has its row and its push behind it.
Single ==
  ~NMay("ack") /\ ~NMay("crash") =>
    /\ \A i \in 1 .. Len(rows) : msg[rows[i].m] \in {"done", "gone"}
    /\ \A i, j \in 1 .. Len(rows) : rows[i].m = rows[j].m => i = j
    /\ \A m \in Message : sent.push[m] <= 1 /\ (msg[m] = "queued" => sent.push[m] = 0)

MailInv == MailTypes /\ Claimed /\ Counted /\ Explained /\ Single
==========================================================================
