------------------------ MODULE NotificationsProofs ------------------------
(***************************************************************************)
(* A mail leaves once, proved for every number of messages, workers, rows   *)
(* and retries: MailInv of Notifications is inductive under every fault,    *)
(* redelivery and crash, and implies DeliveredOnce.                        *)
(***************************************************************************)
EXTENDS Notifications, FiniteSetTheorems, TLAPS

USE NotifyAssumption

\* An attempt that does not rest has a row.
LEMMA AtRow ==
  ASSUME MailTypes, NEW w \in Runner, att[w].at # "idle"
  PROVE  /\ att[w] \in [at : {"load", "claim", "send", "ok", "temp", "perm"}, i : 1 .. MaxRows]
         /\ att[w].i \in 1 .. MaxRows /\ att[w].i \in 1 .. Len(rows)
         /\ rows[att[w].i] \in Delivery
<1>1. Resting.at = "idle"
  BY DEF Resting
<1>2. att[w] \in Stand
  BY DEF MailTypes
<1>3. att[w] \in [at : {"load", "claim", "send", "ok", "temp", "perm"}, i : 1 .. MaxRows]
  BY <1>1, <1>2 DEF Stand
<1>4. att[w].i \in 1 .. MaxRows
  BY <1>3
<1>5. Len(rows) \in Nat /\ att[w].i \in 1 .. Len(rows)
  BY <1>4 DEF MailTypes
<1>6. rows[att[w].i] \in Delivery
  BY <1>5 DEF MailTypes
<1> QED BY <1>3, <1>4, <1>5, <1>6

\* Rows are deliveries of messages.
LEMMA RowFacts ==
  ASSUME MailTypes, NEW i \in 1 .. Len(rows)
  PROVE  /\ rows[i] \in Delivery /\ rows[i].m \in Message /\ rows[i].st \in DeliveryStatus
         /\ rows[i].tries \in 0 .. MaxRetries /\ i \in 1 .. MaxRows
<1>1. rows[i] \in Delivery /\ i \in 1 .. MaxRows
  BY DEF MailTypes
<1> QED BY <1>1 DEF Delivery

\* An attempt moves.
LEMMA AttUpdate ==
  ASSUME MailTypes, NEW w \in Runner, NEW x \in Stand, att' = [att EXCEPT ![w] = x]
  PROVE  att' \in [Runner -> Stand] /\ att'[w] = x /\ \A v \in Runner : v # w => att'[v] = att[v]
  BY DEF MailTypes

\* An attempt goes on with its row.
LEMMA AttGoes ==
  ASSUME MailTypes, NEW w \in Runner, att[w].at # "idle", NEW a \in {"claim", "send", "ok", "temp", "perm"},
         att' = [att EXCEPT ![w].at = a]
  PROVE  /\ att' \in [Runner -> Stand] /\ att'[w].at = a /\ att'[w].i = att[w].i
         /\ \A v \in Runner : v # w => att'[v] = att[v]
<1>1. att[w] \in [at : {"load", "claim", "send", "ok", "temp", "perm"}, i : 1 .. MaxRows]
  BY AtRow
<1> DEFINE x == [att[w] EXCEPT !.at = a]
<1>2. x \in [at : {"load", "claim", "send", "ok", "temp", "perm"}, i : 1 .. MaxRows] /\ x.at = a /\ x.i = att[w].i
  BY <1>1
<1>3. x \in Stand
  BY <1>2 DEF Stand
<1>4. att' = [att EXCEPT ![w] = x]
  OBVIOUS
<1> HIDE DEF x
<1> QED BY <1>2, <1>3, <1>4, AttUpdate

\* A row changes.
LEMMA RowUpdate ==
  ASSUME MailTypes, NEW i \in 1 .. Len(rows), NEW d \in Delivery, rows' = [rows EXCEPT ![i] = d]
  PROVE  /\ rows' \in Seq(Delivery) /\ Len(rows') = Len(rows) /\ rows'[i] = d
         /\ \A j \in 1 .. Len(rows) : j # i => rows'[j] = rows[j]
  BY DEF MailTypes

\* A row is inserted.
LEMMA RowAdded ==
  ASSUME MailTypes, Len(rows) < MaxRows, NEW d \in Delivery, rows' = Append(rows, d)
  PROVE  /\ rows' \in Seq(Delivery) /\ Len(rows') = Len(rows) + 1 /\ Len(rows') <= MaxRows
         /\ rows'[Len(rows) + 1] = d /\ Len(rows) \in Nat
         /\ \A j \in 1 .. Len(rows) : j \in 1 .. Len(rows') /\ rows'[j] = rows[j]
         /\ \A j \in 1 .. Len(rows') : j \in 1 .. Len(rows) \/ j = Len(rows) + 1
  BY DEF MailTypes

-----------------------------------------------------------------------------
(* The first state. *)

\* Nothing has been sent and nobody works.
LEMMA MailStart == NotifyInit => MailInv
<1> SUFFICES ASSUME NotifyInit PROVE MailInv
  OBVIOUS
<1>1. rows = <<>> /\ Len(rows) = 0 /\ \A w \in Runner : att[w] = Resting
  BY DEF NotifyInit
<1>2. \A w \in Runner : att[w].at = "idle"
  BY <1>1 DEF Resting
<1>3. MailTypes
  BY <1>1, <1>2 DEF MailTypes, NotifyInit, Stand
<1>4. Claimed
  BY <1>1, <1>2 DEF Claimed, Owns
<1>5. Counted
  BY <1>1, <1>2 DEF Counted, NotifyInit
<1>6. Explained
  BY <1>1, <1>2 DEF Explained, NotifyInit
<1>7. Single
  BY <1>1, <1>2 DEF Single, NotifyInit
<1> QED BY <1>3, <1>4, <1>5, <1>6, <1>7 DEF MailInv

-----------------------------------------------------------------------------
(* Messages. *)

\* A push leaves, or none.
LEMMA PushFacts ==
  ASSUME MailTypes, NEW m \in Message,
         (\E type \in {"VERIFICATION_OTP", "PRICE_ALERT_TRIGGERED", "ORDER"} : tryPushDelivery(m, type)) \/ NoPush
  PROVE  /\ sent' \in [mail : [1 .. MaxRows -> Nat], push : [Message -> Nat]]
         /\ sent'.mail = sent.mail /\ sent'.push[m] <= sent.push[m] + 1
         /\ \A x \in Message : x # m => sent'.push[x] = sent.push[x]
<1> DEFINE one == [sent EXCEPT !.push[m] = @ + 1]
<1>1. sent \in [mail : [1 .. MaxRows -> Nat], push : [Message -> Nat]]
  BY DEF MailTypes
<1>2. sent' = sent \/ sent' = one
  BY DEF tryPushDelivery, NoPush, SendData, sendVerificationPush, sendOrderPush, sendPriceAlertPush, FindByClientId
<1>3. CASE sent' = sent
  BY <1>1, <1>3
<1>4. CASE sent' = one
  <2> DEFINE p == [sent.push EXCEPT ![m] = @ + 1]
  <2>1. sent.push \in [Message -> Nat] /\ sent.mail \in [1 .. MaxRows -> Nat]
    BY <1>1
  <2>2. p \in [Message -> Nat] /\ p[m] = sent.push[m] + 1 /\ \A x \in Message : x # m => p[x] = sent.push[x]
    BY <2>1
  <2>3. sent' = [sent EXCEPT !.push = p]
    BY <1>4
  <2> HIDE DEF p
  <2>4. sent'.push = p /\ sent'.mail = sent.mail /\ sent' \in [mail : [1 .. MaxRows -> Nat], push : [Message -> Nat]]
    BY <1>1, <2>2, <2>3
  <2> QED BY <2>1, <2>2, <2>4
<1> QED BY <1>2, <1>3, <1>4

\* What Handle does to a message.
LEMMA HandleFacts ==
  ASSUME MailTypes, NEW m \in Message, Handle(m)
  PROVE  /\ msg' \in [Message -> {"queued", "create", "audit", "done", "refused", "gone"}]
         /\ msg[m] = "queued" /\ msg'[m] \in {"create", "audit", "done", "refused"}
         /\ msg'[m] = "audit" => ResolveNotificationType(m) = {}
         /\ \A x \in Message : x # m => msg'[x] = msg[x]
         /\ sent' \in [mail : [1 .. MaxRows -> Nat], push : [Message -> Nat]]
         /\ sent'.mail = sent.mail /\ sent'.push[m] <= sent.push[m] + 1
         /\ \A x \in Message : x # m => sent'.push[x] = sent.push[x]
<1>1. msg \in [Message -> {"queued", "create", "audit", "done", "refused", "gone"}] /\ msg[m] = "queued"
  BY DEF MailTypes, Handle
<1>2. \A a \in {"create", "audit", "done", "refused"} : Go(m, a) =>
        /\ msg' \in [Message -> {"queued", "create", "audit", "done", "refused", "gone"}]
        /\ msg'[m] = a /\ \A x \in Message : x # m => msg'[x] = msg[x]
  BY <1>1 DEF Go
<1>3. \A t : (IF Validate(m) \/ IsPushOnlyNotificationType(t) THEN HandleIncoming(m, t)
              ELSE Go(m, "refused") /\ NoPush) =>
        /\ (\E type \in {"VERIFICATION_OTP", "PRICE_ALERT_TRIGGERED", "ORDER"} : tryPushDelivery(m, type)) \/ NoPush
        /\ \E a \in {"create", "done", "refused"} : Go(m, a)
  BY DEF HandleIncoming, handlePushOnlyNotification, IsPushOnlyNotificationType
<1>4. /\ (\E type \in {"VERIFICATION_OTP", "PRICE_ALERT_TRIGGERED", "ORDER"} : tryPushDelivery(m, type)) \/ NoPush
      /\ \/ \E a \in {"create", "done", "refused"} : Go(m, a)
         \/ ResolveNotificationType(m) = {} /\ Go(m, "audit")
  BY <1>3 DEF Handle
<1>5. /\ sent' \in [mail : [1 .. MaxRows -> Nat], push : [Message -> Nat]]
      /\ sent'.mail = sent.mail /\ sent'.push[m] <= sent.push[m] + 1
      /\ \A x \in Message : x # m => sent'.push[x] = sent.push[x]
  BY <1>4, PushFacts
<1>6. CASE \E a \in {"create", "done", "refused"} : Go(m, a)
  BY <1>1, <1>2, <1>5, <1>6
<1>7. CASE ResolveNotificationType(m) = {} /\ Go(m, "audit")
  BY <1>1, <1>2, <1>5, <1>7
<1> QED BY <1>4, <1>6, <1>7

\* A worker takes a message.
LEMMA HandleKeeps ==
  ASSUME MailInv, NEW m \in Message, Handle(m) PROVE MailInv'
<1>1. MailTypes /\ Claimed /\ Counted /\ Explained /\ Single
  BY DEF MailInv
<1>2. UNCHANGED <<nenv, rows, att>>
  BY DEF Handle
<1>3. /\ msg' \in [Message -> {"queued", "create", "audit", "done", "refused", "gone"}]
      /\ msg[m] = "queued" /\ msg'[m] \in {"create", "audit", "done", "refused"}
      /\ msg'[m] = "audit" => ResolveNotificationType(m) = {}
      /\ \A x \in Message : x # m => msg'[x] = msg[x]
      /\ sent' \in [mail : [1 .. MaxRows -> Nat], push : [Message -> Nat]]
      /\ sent'.mail = sent.mail /\ sent'.push[m] <= sent.push[m] + 1
      /\ \A x \in Message : x # m => sent'.push[x] = sent.push[x]
  BY <1>1, HandleFacts
<1>4. MailTypes'
  BY <1>1, <1>2, <1>3 DEF MailTypes
<1>5. Claimed'
  BY <1>1, <1>2 DEF Claimed, Owns
<1>6. Counted'
  BY <1>1, <1>2, <1>3 DEF Counted, NMay
<1>7. Explained'
  <2>1. \A x \in Message : ResolveNotificationType(x)' = ResolveNotificationType(x)
    BY DEF ResolveNotificationType
  <2>2. \A x \in Message : msg'[x] = "audit" => ResolveNotificationType(x) = {}
    BY <1>1, <1>3 DEF Explained
  <2> QED BY <1>1, <1>2, <2>2 DEF Explained, NMay, ResolveNotificationType
<1>8. Single'
  <2> SUFFICES ASSUME ~NMay("ack"), ~NMay("crash")
               PROVE  /\ \A i \in 1 .. Len(rows) : msg'[rows[i].m] \in {"done", "gone"}
                      /\ \A i, j \in 1 .. Len(rows) : rows[i].m = rows[j].m => i = j
                      /\ \A x \in Message : sent'.push[x] <= 1 /\ (msg'[x] = "queued" => sent'.push[x] = 0)
    BY <1>2 DEF Single, NMay
  <2>1. \A i \in 1 .. Len(rows) : rows[i].m \in Message /\ msg[rows[i].m] \in {"done", "gone"}
    BY <1>1, RowFacts DEF Single
  <2>2. \A i \in 1 .. Len(rows) : msg'[rows[i].m] \in {"done", "gone"}
    BY <1>3, <2>1
  <2>3. sent.push[m] = 0
    BY <1>1, <1>3 DEF Single
  <2>4. \A x \in Message : sent.push[x] <= 1 /\ (msg[x] = "queued" => sent.push[x] = 0)
    BY <1>1 DEF Single
  <2>5. \A x \in Message : sent'.push[x] <= 1 /\ (msg'[x] = "queued" => sent'.push[x] = 0)
    <3>1. sent'.push[m] <= 1
      <4>1. sent'.push \in [Message -> Nat]
        BY <1>3
      <4> QED BY <1>3, <2>3, <4>1
    <3> QED BY <1>3, <2>4, <3>1
  <2> QED BY <1>1, <2>2, <2>5 DEF Single
<1> QED BY <1>4, <1>5, <1>6, <1>7, <1>8 DEF MailInv

\* A message is acknowledged, or its acknowledgement is lost.
LEMMA ProcessKeeps ==
  ASSUME MailInv, NEW m \in Message, process(m) PROVE MailInv'
<1>1. MailTypes /\ Claimed /\ Counted /\ Explained /\ Single
  BY DEF MailInv
<1>2. UNCHANGED <<nenv, rows, att, sent>>
  BY DEF process
<1>3. PICK a \in {"gone", "queued"} : msg' = [msg EXCEPT ![m] = a] /\ (a = "queued" => NMay("ack"))
  BY DEF process, NFail
<1>4. /\ msg' \in [Message -> {"queued", "create", "audit", "done", "refused", "gone"}]
      /\ msg'[m] = a /\ \A x \in Message : x # m => msg'[x] = msg[x]
  BY <1>1, <1>3 DEF MailTypes
<1>5. MailTypes' /\ Claimed' /\ Counted'
  BY <1>1, <1>2, <1>4 DEF MailTypes, Claimed, Owns, Counted, NMay
<1>6. Explained'
  BY <1>1, <1>2, <1>4 DEF Explained, NMay, ResolveNotificationType
<1>7. Single'
  <2> SUFFICES ASSUME ~NMay("ack"), ~NMay("crash")
               PROVE  /\ \A i \in 1 .. Len(rows) : msg'[rows[i].m] \in {"done", "gone"}
                      /\ \A x \in Message : msg'[x] = "queued" => sent.push[x] = 0
    BY <1>1, <1>2 DEF Single, NMay
  <2>1. a = "gone"
    BY <1>3
  <2>2. \A i \in 1 .. Len(rows) : rows[i].m \in Message /\ msg[rows[i].m] \in {"done", "gone"}
    BY <1>1, RowFacts DEF Single
  <2> QED BY <1>1, <1>4, <2>1, <2>2 DEF Single
<1> QED BY <1>5, <1>6, <1>7 DEF MailInv

\* A row d for message m is inserted, with nothing sent yet; a pending one gets
\* the attempt w.
LEMMA InsertKeeps ==
  ASSUME MailInv, NEW m \in Message, msg[m] \in {"create", "audit"}, Len(rows) < MaxRows,
         NEW d \in Delivery, d.m = m, d.st \in {"PENDING", "FAILED"},
         d.st = "FAILED" => ResolveNotificationType(m) = {},
         rows' = Append(rows, d), msg' = [msg EXCEPT ![m] = "done"], UNCHANGED <<nenv, sent>>,
         \/ UNCHANGED att
         \/ \E w \in Attempt : att[w] = Resting /\ att' = [att EXCEPT ![w] = [at |-> "load", i |-> Len(rows) + 1]]
  PROVE  MailInv'
<1>1. MailTypes /\ Claimed /\ Counted /\ Explained /\ Single
  BY DEF MailInv
<1>2. /\ rows' \in Seq(Delivery) /\ Len(rows') = Len(rows) + 1 /\ Len(rows') <= MaxRows
      /\ rows'[Len(rows) + 1] = d /\ Len(rows) \in Nat
      /\ \A j \in 1 .. Len(rows) : j \in 1 .. Len(rows') /\ rows'[j] = rows[j]
      /\ \A j \in 1 .. Len(rows') : j \in 1 .. Len(rows) \/ j = Len(rows) + 1
  BY <1>1, RowAdded
<1>3. /\ msg' \in [Message -> {"queued", "create", "audit", "done", "refused", "gone"}]
      /\ msg'[m] = "done" /\ \A x \in Message : x # m => msg'[x] = msg[x]
  BY <1>1 DEF MailTypes
<1>4. /\ att' \in [Runner -> Stand]
      /\ \A v \in Runner : att'[v] = att[v] \/ (att'[v].at = "load" /\ att'[v].i = Len(rows) + 1)
  <2>1. CASE UNCHANGED att
    BY <1>1, <2>1 DEF MailTypes
  <2>2. CASE \E w \in Attempt : att[w] = Resting /\ att' = [att EXCEPT ![w] = [at |-> "load", i |-> Len(rows) + 1]]
    <3>1. PICK w \in Attempt : att' = [att EXCEPT ![w] = [at |-> "load", i |-> Len(rows) + 1]]
      BY <2>2
    <3> DEFINE x == [at |-> "load", i |-> Len(rows) + 1]
    <3>2. Len(rows) + 1 \in 1 .. MaxRows
      BY <1>2
    <3>3. x \in Stand /\ x.at = "load" /\ x.i = Len(rows) + 1
      BY <3>2 DEF Stand
    <3>4. w \in Runner /\ att' = [att EXCEPT ![w] = x]
      BY <3>1 DEF Runner
    <3> HIDE DEF x
    <3> QED BY <1>1, <3>3, <3>4, AttUpdate
  <2> QED BY <2>1, <2>2
<1>5. \A v \in Runner : att[v].at # "idle" => att[v].i \in 1 .. Len(rows)
  BY <1>1, AtRow
<1>6. MailTypes'
  <2>1. \A v \in Runner : att'[v].at # "idle" => att'[v].i <= Len(rows')
    BY <1>2, <1>4, <1>5
  <2> QED BY <1>1, <1>2, <1>3, <1>4, <2>1 DEF MailTypes
<1>7. Claimed'
  <2>1. \A v \in Runner : Owns(v)' => Owns(v) /\ att'[v] = att[v] /\ att[v].i \in 1 .. Len(rows)
    BY <1>4, <1>5 DEF Owns
  <2>2. \A v \in Runner : Owns(v)' => rows'[att'[v].i].st = "PROCESSING"
    BY <1>1, <1>2, <2>1 DEF Claimed
  <2>3. \A v, w \in Runner : Owns(v)' /\ Owns(w)' /\ att'[v].i = att'[w].i => v = w
    BY <1>1, <2>1 DEF Claimed
  <2>4. \A i \in 1 .. Len(rows') : rows'[i].st = "PROCESSING" => rows'[i].tries < MaxRetries
    BY <1>1, <1>2 DEF Claimed
  <2> QED BY <2>2, <2>3, <2>4 DEF Claimed
<1>8. Counted'
  <2>1. \A v \in Runner : att'[v].at \in {"send", "ok", "temp", "perm"} => att'[v] = att[v]
    BY <1>4
  <2>2. Len(rows) + 1 \in 1 .. MaxRows /\ sent.mail[Len(rows) + 1] = 0
    BY <1>1, <1>2 DEF Counted
  <2>3. \A i \in 1 .. MaxRows : i > Len(rows') => sent.mail[i] = 0
    BY <1>1, <1>2 DEF Counted
  <2>4. \A i \in 1 .. Len(rows') : rows'[i].st = "SUCCEEDED" => sent.mail[i] >= 1
    BY <1>1, <1>2 DEF Counted
  <2>5. ASSUME ~NMay("ghost"), NEW i \in 1 .. Len(rows')
        PROVE  sent.mail[i] <= 1 /\ (rows'[i].st \notin {"PROCESSING", "SUCCEEDED"} => sent.mail[i] = 0)
    BY <1>1, <1>2, <2>2, <2>5 DEF Counted
  <2> QED BY <1>1, <2>1, <2>3, <2>4, <2>5 DEF Counted, NMay
<1>9. Explained'
  <2>1. \A v \in Runner : att'[v].at = "perm" => NMay("perm")
    BY <1>1, <1>4 DEF Explained
  <2>2. \A x \in Message : msg'[x] = "audit" => ResolveNotificationType(x) = {}
    BY <1>1, <1>3 DEF Explained
  <2>3. \A i \in 1 .. Len(rows') : rows'[i].st = "FAILED" =>
          ResolveNotificationType(rows'[i].m) = {} \/ rows'[i].tries = MaxRetries \/ NMay("perm")
    BY <1>1, <1>2 DEF Explained
  <2> QED BY <2>1, <2>2, <2>3 DEF Explained, NMay, ResolveNotificationType
<1>10. Single'
  <2> SUFFICES ASSUME ~NMay("ack"), ~NMay("crash")
               PROVE  /\ \A i \in 1 .. Len(rows') : msg'[rows'[i].m] \in {"done", "gone"}
                      /\ \A i, j \in 1 .. Len(rows') : rows'[i].m = rows'[j].m => i = j
                      /\ \A x \in Message : sent.push[x] <= 1 /\ (msg'[x] = "queued" => sent.push[x] = 0)
    BY DEF Single, NMay
  <2>1. \A i \in 1 .. Len(rows) : rows[i].m \in Message /\ msg[rows[i].m] \in {"done", "gone"} /\ rows[i].m # m
    BY <1>1, RowFacts DEF Single
  <2>2. \A i \in 1 .. Len(rows') : msg'[rows'[i].m] \in {"done", "gone"}
    BY <1>2, <1>3, <2>1
  <2>3. \A i, j \in 1 .. Len(rows') : rows'[i].m = rows'[j].m => i = j
    <3>1. \A i, j \in 1 .. Len(rows) : rows[i].m = rows[j].m => i = j
      BY <1>1 DEF Single
    <3> QED BY <1>2, <2>1, <3>1
  <2>4. \A x \in Message : sent.push[x] <= 1 /\ (msg'[x] = "queued" => sent.push[x] = 0)
    BY <1>1, <1>3 DEF Single
  <2> QED BY <2>2, <2>3, <2>4
<1> QED BY <1>6, <1>7, <1>8, <1>9, <1>10 DEF MailInv

\* An insert that fails refuses the message.
LEMMA RefuseKeeps ==
  ASSUME MailInv, NEW m \in Message, msg[m] \in {"create", "audit"},
         msg' = [msg EXCEPT ![m] = "refused"], UNCHANGED <<nenv, rows, att, sent>>
  PROVE  MailInv'
<1>1. MailTypes /\ Claimed /\ Counted /\ Explained /\ Single
  BY DEF MailInv
<1>2. /\ msg' \in [Message -> {"queued", "create", "audit", "done", "refused", "gone"}]
      /\ msg'[m] = "refused" /\ \A x \in Message : x # m => msg'[x] = msg[x]
  BY <1>1 DEF MailTypes
<1>3. MailTypes' /\ Claimed' /\ Counted'
  BY <1>1, <1>2 DEF MailTypes, Claimed, Owns, Counted, NMay
<1>4. Explained'
  BY <1>1, <1>2 DEF Explained, NMay, ResolveNotificationType
<1>5. Single'
  <2>1. \A i \in 1 .. Len(rows) : rows[i].m \in Message
    BY <1>1, RowFacts
  <2> QED BY <1>1, <1>2, <2>1 DEF Single, NMay
<1> QED BY <1>3, <1>4, <1>5 DEF MailInv

\* A worker stores what it took.
LEMMA CreateKeeps ==
  ASSUME MailInv, NEW m \in Message, Create(m) \/ PersistUnsupportedAudit(m) PROVE MailInv'
<1>1. MailTypes /\ Explained
  BY DEF MailInv
<1>2. CASE Create(m)
  <2> DEFINE d == NewPendingDelivery(m)
  <2>1. d \in Delivery /\ d.m = m /\ d.st = "PENDING"
    BY DEF NewPendingDelivery, Row, Delivery, DeliveryStatus
  <2> HIDE DEF d
  <2>3. CASE msg' = [msg EXCEPT ![m] = "refused"] /\ UNCHANGED <<rows, att>>
    BY <1>2, <2>3, RefuseKeeps DEF Create
  <2>4. CASE /\ rows' = Append(rows, d) /\ msg' = [msg EXCEPT ![m] = "done"]
             /\ \E w \in Attempt : att[w] = Resting /\ att' = [att EXCEPT ![w] = [at |-> "load", i |-> Len(rows) + 1]]
    <3>1. msg[m] = "create" /\ Len(rows) < MaxRows /\ UNCHANGED <<nenv, sent>>
      BY <1>2 DEF Create
    <3> QED BY <2>1, <2>4, <3>1, InsertKeeps
  <2> QED BY <1>2, <2>3, <2>4 DEF Create, d
<1>3. CASE PersistUnsupportedAudit(m)
  <2> DEFINE d == NewFailedAudit(m)
  <2>1. d \in Delivery /\ d.m = m /\ d.st = "FAILED"
    BY DEF NewFailedAudit, Row, Delivery, DeliveryStatus
  <2>2. ResolveNotificationType(m) = {}
    BY <1>1, <1>3 DEF Explained, PersistUnsupportedAudit
  <2> HIDE DEF d
  <2>3. CASE msg' = [msg EXCEPT ![m] = "refused"] /\ UNCHANGED rows
    BY <1>3, <2>3, RefuseKeeps DEF PersistUnsupportedAudit
  <2>4. CASE rows' = Append(rows, d) /\ msg' = [msg EXCEPT ![m] = "done"]
    <3>1. msg[m] = "audit" /\ Len(rows) < MaxRows /\ UNCHANGED <<nenv, att, sent>>
      BY <1>3 DEF PersistUnsupportedAudit
    <3> QED BY <2>1, <2>2, <2>4, <3>1, InsertKeeps
  <2> QED BY <1>3, <2>3, <2>4 DEF PersistUnsupportedAudit, PersistFailedAudit, d
<1> QED BY <1>2, <1>3

-----------------------------------------------------------------------------
(* Attempts. *)

\* An attempt begins, ends or gives up without touching a row.
LEMMA AttOnlyKeeps ==
  ASSUME MailInv, NEW w \in Runner, NEW x \in Stand, x.at \in {"idle", "load", "claim"},
         x.at # "idle" => x.i <= Len(rows),
         att' = [att EXCEPT ![w] = x], UNCHANGED <<nenv, msg, rows, sent>>
  PROVE  MailInv'
<1>1. MailTypes /\ Claimed /\ Counted /\ Explained /\ Single
  BY DEF MailInv
<1>2. att' \in [Runner -> Stand] /\ att'[w] = x /\ \A v \in Runner : v # w => att'[v] = att[v]
  BY <1>1, AttUpdate
<1>3. MailTypes'
  BY <1>1, <1>2 DEF MailTypes
<1>4. \A v \in Runner : att'[v].at \in {"send", "ok", "temp", "perm"} => att'[v] = att[v]
  BY <1>2
<1>5. Claimed'
  BY <1>1, <1>4 DEF Claimed, Owns
<1>6. Counted'
  BY <1>1, <1>4 DEF Counted, NMay
<1>7. Explained'
  BY <1>1, <1>4 DEF Explained, NMay, ResolveNotificationType
<1>8. Single'
  BY <1>1 DEF Single, NMay
<1> QED BY <1>3, <1>5, <1>6, <1>7, <1>8 DEF MailInv

\* ... and so does a rest.
LEMMA RestKeeps ==
  ASSUME MailInv, NEW w \in Runner, att' = [att EXCEPT ![w] = Resting], UNCHANGED <<nenv, msg, rows, sent>>
  PROVE  MailInv'
<1>1. Resting \in Stand /\ Resting.at = "idle"
  BY DEF Resting, Stand
<1> QED BY <1>1, AttOnlyKeeps

\* The first attempt and the poller read a row.
LEMMA LoadKeeps ==
  ASSUME MailInv, NEW w \in Runner, LoadDelivery(w) PROVE MailInv'
<1>1. att[w].at = "load" /\ UNCHANGED <<nenv, msg, rows, sent>>
  BY DEF LoadDelivery
<1>2. CASE att' = [att EXCEPT ![w] = Resting]
  BY <1>1, <1>2, RestKeeps
<1>3. CASE att' = [att EXCEPT ![w] = [att[w] EXCEPT !.at = "claim"]]
  <2> DEFINE x == [att[w] EXCEPT !.at = "claim"]
  <2>1. /\ att[w] \in [at : {"load", "claim", "send", "ok", "temp", "perm"}, i : 1 .. MaxRows]
        /\ att[w].i \in 1 .. Len(rows)
    BY <1>1, AtRow DEF MailInv
  <2>2. x \in Stand /\ x.at = "claim" /\ x.i = att[w].i
    BY <2>1 DEF Stand
  <2>3. att' = [att EXCEPT ![w] = x]
    BY <1>3
  <2> HIDE DEF x
  <2>4. x.i <= Len(rows) /\ x.at \in {"idle", "load", "claim"}
    BY <2>1, <2>2
  <2> QED BY <1>1, <2>2, <2>3, <2>4, AttOnlyKeeps
<1> QED BY <1>2, <1>3 DEF LoadDelivery

\* The poller picks a row whose time has come.
LEMMA PollKeeps ==
  ASSUME MailInv, processDueRetries PROVE MailInv'
<1>1. PICK i \in 1 .. Len(rows) : att' = [att EXCEPT ![Poller] = [at |-> "load", i |-> i]]
  BY DEF processDueRetries, FindDueRetries
<1> DEFINE x == [at |-> "load", i |-> i]
<1>2. i \in 1 .. MaxRows
  BY RowFacts DEF MailInv
<1>3. x \in Stand /\ x.at = "load" /\ x.i = i
  BY <1>2 DEF Stand
<1>4. Poller \in Runner /\ att' = [att EXCEPT ![Poller] = x] /\ UNCHANGED <<nenv, msg, rows, sent>>
  BY <1>1 DEF Runner, processDueRetries
<1>5. i <= Len(rows)
  OBVIOUS
<1> HIDE DEF x
<1>6. x.at \in {"idle", "load", "claim"} /\ x.i <= Len(rows)
  BY <1>3, <1>5
<1> QED BY <1>3, <1>4, <1>6, AttOnlyKeeps

\* The claim: the conditional update to PROCESSING.
LEMMA ClaimKeeps ==
  ASSUME MailInv, NEW w \in Runner, MarkProcessing(w) PROVE MailInv'
<1>1. MailTypes /\ Claimed /\ Counted /\ Explained /\ Single
  BY DEF MailInv
<1>2. att[w].at = "claim" /\ UNCHANGED <<nenv, msg, sent>>
  BY DEF MarkProcessing
<1>3. CASE att' = [att EXCEPT ![w] = Resting] /\ UNCHANGED rows
  BY <1>2, <1>3, RestKeeps
<1>4. CASE /\ Claims(rows[att[w].i]) /\ rows' = [rows EXCEPT ![att[w].i].st = "PROCESSING"]
           /\ att' = [att EXCEPT ![w].at = "send"]
  <2> DEFINE i == att[w].i
  <2> DEFINE d == [rows[i] EXCEPT !.st = "PROCESSING"]
  <2>1. i \in 1 .. Len(rows) /\ i \in 1 .. MaxRows /\ rows[i] \in Delivery
    BY <1>1, <1>2, AtRow
  <2>2. d \in Delivery /\ d.st = "PROCESSING" /\ d.m = rows[i].m /\ d.tries = rows[i].tries
    BY <2>1 DEF Delivery, DeliveryStatus
  <2>3. rows' = [rows EXCEPT ![i] = d]
    BY <1>4
  <2>4. rows[i].st \in {"PENDING", "RETRY_SCHEDULED"} /\ rows[i].tries < MaxRetries
    BY <1>4 DEF Claims
  <2>5. /\ att' \in [Runner -> Stand] /\ att'[w].at = "send" /\ att'[w].i = i
        /\ \A v \in Runner : v # w => att'[v] = att[v]
    BY <1>1, <1>2, <1>4, AttGoes
  <2> HIDE DEF i, d
  <2>6. /\ rows' \in Seq(Delivery) /\ Len(rows') = Len(rows) /\ rows'[i] = d
        /\ \A j \in 1 .. Len(rows) : j # i => rows'[j] = rows[j]
    BY <1>1, <2>1, <2>2, <2>3, RowUpdate
  <2>7. \A j \in 1 .. Len(rows) : rows'[j].m = rows[j].m
    BY <2>2, <2>6
  <2>8. MailTypes'
    <3>1. \A v \in Runner : att'[v].at # "idle" => att'[v].i <= Len(rows')
      <4>1. att'[w].i <= Len(rows')
        BY <2>1, <2>5, <2>6
      <4>2. \A v \in Runner : v # w /\ att'[v].at # "idle" => att'[v].i <= Len(rows')
        BY <1>1, <2>5, <2>6 DEF MailTypes
      <4> QED BY <4>1, <4>2
    <3> QED BY <1>1, <1>2, <2>5, <2>6, <3>1 DEF MailTypes
  <2>9. \A v \in Runner : v # w /\ Owns(v) => att[v].i \in 1 .. Len(rows) /\ att[v].i # i
    <3>1. \A v \in Runner : Owns(v) => att[v].at # "idle"
      BY DEF Owns
    <3>2. \A v \in Runner : Owns(v) => att[v].i \in 1 .. Len(rows)
      BY <1>1, <3>1, AtRow
    <3> QED BY <1>1, <2>4, <3>2 DEF Claimed
  <2>10. \A v \in Runner : v # w => (Owns(v)' <=> Owns(v))
    BY <2>5 DEF Owns
  <2>11. Claimed'
    <3>1. \A v \in Runner : Owns(v)' => rows'[att'[v].i].st = "PROCESSING"
      BY <1>1, <2>2, <2>5, <2>6, <2>9, <2>10 DEF Claimed
    <3>2. \A v, u \in Runner : Owns(v)' /\ Owns(u)' /\ att'[v].i = att'[u].i => v = u
      BY <1>1, <2>5, <2>9, <2>10 DEF Claimed
    <3>3. \A j \in 1 .. Len(rows') : rows'[j].st = "PROCESSING" => rows'[j].tries < MaxRetries
      BY <1>1, <2>2, <2>4, <2>6 DEF Claimed
    <3> QED BY <3>1, <3>2, <3>3 DEF Claimed
  <2>12. Counted'
    <3>1. \A j \in 1 .. MaxRows : j > Len(rows') => sent.mail[j] = 0
      BY <1>1, <2>6 DEF Counted
    <3>2. \A v \in Runner : att'[v].at = "ok" => sent.mail[att'[v].i] >= 1
      BY <1>1, <2>5 DEF Counted
    <3>3. \A j \in 1 .. Len(rows') : rows'[j].st = "SUCCEEDED" => sent.mail[j] >= 1
      BY <1>1, <2>2, <2>6 DEF Counted
    <3>4. ASSUME ~NMay("ghost")
          PROVE  /\ \A j \in 1 .. Len(rows') :
                      sent.mail[j] <= 1 /\ (rows'[j].st \notin {"PROCESSING", "SUCCEEDED"} => sent.mail[j] = 0)
                 /\ \A v \in Runner : att'[v].at \in {"send", "temp", "perm"} => sent.mail[att'[v].i] = 0
      <4>1. sent.mail[i] = 0
        BY <1>1, <2>1, <2>4, <3>4 DEF Counted
      <4> QED BY <1>1, <2>2, <2>5, <2>6, <3>4, <4>1 DEF Counted
    <3> QED BY <1>2, <3>1, <3>2, <3>3, <3>4 DEF Counted, NMay
  <2>13. Explained'
    <3>1. \A v \in Runner : att'[v].at = "perm" => NMay("perm")
      BY <1>1, <2>5 DEF Explained
    <3>2. \A j \in 1 .. Len(rows') : rows'[j].st = "FAILED" =>
            ResolveNotificationType(rows'[j].m) = {} \/ rows'[j].tries = MaxRetries \/ NMay("perm")
      BY <1>1, <2>2, <2>6 DEF Explained
    <3> QED BY <1>1, <1>2, <3>1, <3>2 DEF Explained, NMay, ResolveNotificationType
  <2>14. Single'
    BY <1>1, <1>2, <2>6, <2>7 DEF Single, NMay
  <2> QED BY <2>8, <2>11, <2>12, <2>13, <2>14 DEF MailInv
<1> QED BY <1>3, <1>4 DEF MarkProcessing

\* The mail server's answer.
LEMMA SendKeeps ==
  ASSUME MailInv, NEW w \in Runner, SendEmail(w) PROVE MailInv'
<1>1. MailTypes /\ Claimed /\ Counted /\ Explained /\ Single
  BY DEF MailInv
<1>2. att[w].at = "send" /\ UNCHANGED <<nenv, msg, rows>>
  BY DEF SendEmail
<1> DEFINE i == att[w].i
<1>3. i \in 1 .. Len(rows) /\ i \in 1 .. MaxRows
  BY <1>1, <1>2, AtRow
<1>4. PICK r \in {"ok", "temp", "perm", "ghost"} :
        /\ r # "ok" => NMay(r)
        /\ sent' = IF r \in {"ok", "ghost"} THEN [sent EXCEPT !.mail[i] = @ + 1] ELSE sent
        /\ att' = [att EXCEPT ![w].at = IF r = "ok" THEN "ok" ELSE IF r = "perm" THEN "perm" ELSE "temp"]
  BY DEF SendEmail, NFail
<1> DEFINE a == IF r = "ok" THEN "ok" ELSE IF r = "perm" THEN "perm" ELSE "temp"
<1>5. a \in {"claim", "send", "ok", "temp", "perm"} /\ att' = [att EXCEPT ![w].at = a]
  BY <1>4
<1>6. a # "send" /\ a # "claim" /\ (a = "ok" <=> r = "ok") /\ (a = "perm" <=> r = "perm")
  OBVIOUS
<1> HIDE DEF a
<1>7. /\ att' \in [Runner -> Stand] /\ att'[w].at = a /\ att'[w].i = i
      /\ \A v \in Runner : v # w => att'[v] = att[v]
  BY <1>1, <1>2, <1>5, AttGoes
<1> HIDE DEF i
<1>8. /\ sent' \in [mail : [1 .. MaxRows -> Nat], push : [Message -> Nat]]
      /\ sent'.push = sent.push /\ \A j \in 1 .. MaxRows : j # i => sent'.mail[j] = sent.mail[j]
      /\ sent'.mail[i] = IF r \in {"ok", "ghost"} THEN sent.mail[i] + 1 ELSE sent.mail[i]
  <2>1. sent \in [mail : [1 .. MaxRows -> Nat], push : [Message -> Nat]]
    BY <1>1 DEF MailTypes
  <2>2. CASE r \notin {"ok", "ghost"}
    BY <1>4, <2>1, <2>2
  <2>3. CASE r \in {"ok", "ghost"}
    <3> DEFINE p == [sent.mail EXCEPT ![i] = @ + 1]
    <3>1. sent.mail \in [1 .. MaxRows -> Nat]
      BY <2>1
    <3>2. p \in [1 .. MaxRows -> Nat] /\ p[i] = sent.mail[i] + 1 /\ \A j \in 1 .. MaxRows : j # i => p[j] = sent.mail[j]
      BY <1>3, <3>1
    <3>3. sent' = [sent EXCEPT !.mail = p]
      BY <1>4, <2>3
    <3> HIDE DEF p
    <3>4. sent'.mail = p /\ sent'.push = sent.push /\ sent' \in [mail : [1 .. MaxRows -> Nat], push : [Message -> Nat]]
      BY <2>1, <3>2, <3>3
    <3> QED BY <2>3, <3>2, <3>4
  <2> QED BY <2>2, <2>3
<1>9. \A j \in 1 .. MaxRows : sent.mail[j] \in Nat /\ sent'.mail[j] \in Nat
  BY <1>1, <1>8 DEF MailTypes
<1>10. MailTypes'
  <2>1. \A v \in Runner : att'[v].at # "idle" => att'[v].i <= Len(rows)
    BY <1>1, <1>3, <1>7 DEF MailTypes
  <2> QED BY <1>1, <1>2, <1>7, <1>8, <2>1 DEF MailTypes
<1>11. \A v \in Runner : Owns(v)' <=> Owns(v)
  BY <1>2, <1>5, <1>6, <1>7 DEF Owns
<1>12. \A v \in Runner : att'[v].i = att[v].i
  BY <1>7 DEF i
<1>13. Claimed'
  BY <1>1, <1>2, <1>11, <1>12 DEF Claimed
<1>14. \A v \in Runner : v # w /\ Owns(v) => att[v].i \in 1 .. MaxRows /\ att[v].i # i
  <2>1. \A v \in Runner : Owns(v) => att[v].at # "idle"
    BY DEF Owns
  <2>2. \A v \in Runner : Owns(v) => att[v].i \in 1 .. MaxRows
    BY <1>1, <2>1, AtRow
  <2> QED BY <1>1, <1>2, <2>2 DEF Claimed, Owns, i
<1>15. Counted'
  <2>1. ASSUME NEW j \in 1 .. MaxRows, j > Len(rows) PROVE sent'.mail[j] = 0
    <3>1. j # i
      BY <1>3, <2>1
    <3>2. sent.mail[j] = 0
      BY <1>1, <2>1 DEF Counted
    <3> QED BY <1>8, <3>1, <3>2
  <2>2. ASSUME NEW v \in Runner, att'[v].at = "ok" PROVE sent'.mail[att'[v].i] >= 1
    <3>1. CASE v = w
      <4>1. r = "ok"
        BY <1>6, <1>7, <2>2, <3>1
      <4> QED BY <1>3, <1>7, <1>8, <1>9, <3>1, <4>1
    <3>2. CASE v # w
      <4>1. att'[v] = att[v] /\ att[v].at = "ok"
        BY <1>7, <2>2, <3>2
      <4>2. att[v].i \in 1 .. MaxRows /\ att[v].i # i
        BY <1>14, <3>2, <4>1 DEF Owns
      <4>3. sent.mail[att[v].i] >= 1
        BY <1>1, <4>1 DEF Counted
      <4> QED BY <1>8, <4>1, <4>2, <4>3
    <3> QED BY <3>1, <3>2
  <2>3. \A j \in 1 .. Len(rows) : j \in 1 .. MaxRows
    BY <1>1, RowFacts
  <2>4. \A j \in 1 .. MaxRows : sent'.mail[j] >= sent.mail[j]
    <3>1. sent'.mail[i] >= sent.mail[i]
      BY <1>3, <1>8, <1>9
    <3>2. \A j \in 1 .. MaxRows : j # i => sent'.mail[j] >= sent.mail[j]
      BY <1>8, <1>9
    <3> QED BY <3>1, <3>2
  <2>5. \A j \in 1 .. Len(rows) : rows[j].st = "SUCCEEDED" => sent'.mail[j] >= 1
    BY <1>1, <1>9, <2>3, <2>4 DEF Counted
  <2>6. ASSUME ~NMay("ghost")
        PROVE  /\ \A j \in 1 .. Len(rows) :
                    sent'.mail[j] <= 1 /\ (rows[j].st \notin {"PROCESSING", "SUCCEEDED"} => sent'.mail[j] = 0)
               /\ \A v \in Runner : att'[v].at \in {"send", "temp", "perm"} => sent'.mail[att'[v].i] = 0
    <3>1. sent.mail[i] = 0 /\ rows[i].st = "PROCESSING"
      BY <1>1, <1>2, <2>6 DEF Counted, Claimed, Owns, i
    <3>2. r # "ghost"
      BY <1>4, <2>6
    <3>3. sent'.mail[i] <= 1 /\ (a # "ok" => sent'.mail[i] = 0)
      BY <1>6, <1>8, <3>1, <3>2
    <3>4. \A j \in 1 .. Len(rows) :
            sent'.mail[j] <= 1 /\ (rows[j].st \notin {"PROCESSING", "SUCCEEDED"} => sent'.mail[j] = 0)
      BY <1>1, <1>8, <2>3, <2>6, <3>1, <3>3 DEF Counted
    <3>5. ASSUME NEW v \in Runner, att'[v].at \in {"send", "temp", "perm"} PROVE sent'.mail[att'[v].i] = 0
      <4>1. CASE v = w
        <5>1. a # "ok"
          BY <1>7, <3>5, <4>1
        <5> QED BY <1>7, <3>3, <4>1, <5>1
      <4>2. CASE v # w
        <5>1. att'[v] = att[v] /\ att[v].at \in {"send", "temp", "perm"}
          BY <1>7, <3>5, <4>2
        <5>2. att[v].i \in 1 .. MaxRows /\ att[v].i # i
          BY <1>14, <4>2, <5>1 DEF Owns
        <5>3. sent.mail[att[v].i] = 0
          BY <1>1, <2>6, <5>1 DEF Counted
        <5> QED BY <1>8, <5>1, <5>2, <5>3
      <4> QED BY <4>1, <4>2
    <3> QED BY <3>4, <3>5
  <2> QED BY <1>2, <2>1, <2>2, <2>5, <2>6 DEF Counted, NMay
<1>16. Explained'
  <2>1. \A v \in Runner : att'[v].at = "perm" => NMay("perm")
    BY <1>1, <1>4, <1>6, <1>7 DEF Explained
  <2> QED BY <1>1, <1>2, <2>1 DEF Explained, NMay, ResolveNotificationType
<1>17. Single'
  BY <1>1, <1>2, <1>8 DEF Single, NMay
<1> QED BY <1>10, <1>13, <1>15, <1>16, <1>17 DEF MailInv

\* An attempt writes the outcome d into its row and ends.
LEMMA MarkKeeps ==
  ASSUME MailInv, NEW w \in Runner, Owns(w), NEW d \in Delivery, d.m = rows[att[w].i].m,
         \/ d.st = "SUCCEEDED" /\ att[w].at = "ok"
         \/ d.st \in {"RETRY_SCHEDULED", "FAILED"} /\ att[w].at \in {"temp", "perm"},
         d.st = "FAILED" => d.tries = MaxRetries \/ NMay("perm"),
         rows' = [rows EXCEPT ![att[w].i] = d], att' = [att EXCEPT ![w] = Resting],
         UNCHANGED <<nenv, msg, sent>>
  PROVE  MailInv'
<1>1. MailTypes /\ Claimed /\ Counted /\ Explained /\ Single
  BY DEF MailInv
<1> DEFINE i == att[w].i
<1>2. i \in 1 .. Len(rows) /\ i \in 1 .. MaxRows
  BY <1>1, AtRow DEF Owns
<1>3. /\ rows' \in Seq(Delivery) /\ Len(rows') = Len(rows) /\ rows'[i] = d
      /\ \A j \in 1 .. Len(rows) : j # i => rows'[j] = rows[j]
  BY <1>1, <1>2, RowUpdate
<1>4. Resting \in Stand /\ Resting.at = "idle"
  BY DEF Resting, Stand
<1>5. att' \in [Runner -> Stand] /\ att'[w].at = "idle" /\ \A v \in Runner : v # w => att'[v] = att[v]
  BY <1>1, <1>4, AttUpdate
<1>6. \A j \in 1 .. Len(rows) : rows'[j].m = rows[j].m
  BY <1>3
<1>7. \A v \in Runner : Owns(v)' => v # w /\ Owns(v) /\ att'[v] = att[v] /\ att[v].i \in 1 .. Len(rows) /\ att[v].i # i
  <2>1. \A v \in Runner : Owns(v)' => v # w /\ Owns(v) /\ att'[v] = att[v]
    BY <1>5 DEF Owns
  <2>2. \A v \in Runner : Owns(v) => att[v].at # "idle"
    BY DEF Owns
  <2>3. \A v \in Runner : Owns(v) => att[v].i \in 1 .. Len(rows)
    BY <1>1, <2>2, AtRow
  <2> QED BY <1>1, <2>1, <2>3 DEF Claimed
<1> HIDE DEF i
<1>8. MailTypes'
  <2>1. \A v \in Runner : att'[v].at # "idle" => att'[v].i <= Len(rows')
    BY <1>1, <1>3, <1>5 DEF MailTypes
  <2> QED BY <1>1, <1>3, <1>5, <2>1 DEF MailTypes
<1>9. Claimed'
  <2>1. \A v \in Runner : Owns(v)' => rows'[att'[v].i].st = "PROCESSING"
    BY <1>1, <1>3, <1>7 DEF Claimed
  <2>2. \A v, u \in Runner : Owns(v)' /\ Owns(u)' /\ att'[v].i = att'[u].i => v = u
    BY <1>1, <1>7 DEF Claimed
  <2>3. \A j \in 1 .. Len(rows') : rows'[j].st = "PROCESSING" => rows'[j].tries < MaxRetries
    BY <1>1, <1>3 DEF Claimed
  <2> QED BY <2>1, <2>2, <2>3 DEF Claimed
<1>10. Counted'
  <2>1. \A j \in 1 .. MaxRows : j > Len(rows') => sent.mail[j] = 0
    BY <1>1, <1>3 DEF Counted
  <2>2. \A v \in Runner : att'[v].at = "ok" => sent.mail[att'[v].i] >= 1
    BY <1>1, <1>5 DEF Counted
  <2>3. \A j \in 1 .. Len(rows') : rows'[j].st = "SUCCEEDED" => sent.mail[j] >= 1
    <3>1. rows'[i].st = "SUCCEEDED" => sent.mail[i] >= 1
      BY <1>1, <1>3 DEF Counted, i
    <3> QED BY <1>1, <1>3, <3>1 DEF Counted
  <2>4. ASSUME ~NMay("ghost")
        PROVE  /\ \A j \in 1 .. Len(rows') :
                    sent.mail[j] <= 1 /\ (rows'[j].st \notin {"PROCESSING", "SUCCEEDED"} => sent.mail[j] = 0)
               /\ \A v \in Runner : att'[v].at \in {"send", "temp", "perm"} => sent.mail[att'[v].i] = 0
    <3>1. rows'[i].st # "SUCCEEDED" => sent.mail[i] = 0
      BY <1>1, <1>3, <2>4 DEF Counted, i
    <3>2. \A j \in 1 .. Len(rows') :
            sent.mail[j] <= 1 /\ (rows'[j].st \notin {"PROCESSING", "SUCCEEDED"} => sent.mail[j] = 0)
      BY <1>1, <1>3, <2>4, <3>1 DEF Counted
    <3>3. \A v \in Runner : att'[v].at \in {"send", "temp", "perm"} => sent.mail[att'[v].i] = 0
      BY <1>1, <1>5, <2>4 DEF Counted
    <3> QED BY <3>2, <3>3
  <2> QED BY <2>1, <2>2, <2>3, <2>4 DEF Counted, NMay
<1>11. Explained'
  <2>1. \A v \in Runner : att'[v].at = "perm" => NMay("perm")
    BY <1>1, <1>5 DEF Explained
  <2>2. \A j \in 1 .. Len(rows') : rows'[j].st = "FAILED" =>
          ResolveNotificationType(rows'[j].m) = {} \/ rows'[j].tries = MaxRetries \/ NMay("perm")
    BY <1>1, <1>3 DEF Explained
  <2> QED BY <1>1, <2>1, <2>2 DEF Explained, NMay, ResolveNotificationType
<1>12. Single'
  BY <1>1, <1>3, <1>6 DEF Single, NMay
<1> QED BY <1>8, <1>9, <1>10, <1>11, <1>12 DEF MailInv

\* The outcome of a mail that was accepted.
LEMMA SucceededKeeps ==
  ASSUME MailInv, NEW w \in Runner, MarkSucceeded(w) PROVE MailInv'
<1>1. att[w].at = "ok" /\ att' = [att EXCEPT ![w] = Resting] /\ UNCHANGED <<nenv, msg, sent>>
  BY DEF MarkSucceeded
<1>2. CASE UNCHANGED rows
  BY <1>1, <1>2, RestKeeps
<1>3. CASE rows' = [rows EXCEPT ![att[w].i] = SucceededRow(@)]
  <2> DEFINE i == att[w].i
  <2> DEFINE d == SucceededRow(rows[i])
  <2>1. i \in 1 .. Len(rows) /\ rows[i] \in Delivery
    BY <1>1, AtRow DEF MailInv
  <2>2. Owns(w)
    BY <1>1 DEF Owns
  <2>3. rows[i].tries < MaxRetries
    BY <2>1, <2>2 DEF MailInv, Claimed
  <2>4. rows[i].tries + 1 \in 0 .. MaxRetries
    BY <2>1, <2>3 DEF Delivery
  <2>5. d \in Delivery /\ d.m = rows[i].m /\ d.st = "SUCCEEDED"
    BY <2>1, <2>4 DEF Delivery, DeliveryStatus, SucceededRow
  <2>6. rows' = [rows EXCEPT ![i] = d]
    BY <1>3
  <2> HIDE DEF d
  <2> QED BY <1>1, <2>2, <2>5, <2>6, MarkKeeps
<1> QED BY <1>2, <1>3 DEF MarkSucceeded

\* The outcome of one that was refused: a retry while there are any left.
LEMMA FailedKeeps ==
  ASSUME MailInv, NEW w \in Runner, MarkFailedOrRetry(w) PROVE MailInv'
<1>1. att[w].at \in {"temp", "perm"} /\ att' = [att EXCEPT ![w] = Resting] /\ UNCHANGED <<nenv, msg, sent>>
  BY DEF MarkFailedOrRetry
<1> DEFINE i == att[w].i
<1> DEFINE again == IsRetryable(w) /\ RetriesLeft(rows[i])
<1> DEFINE d == RefusedRow(rows[i], again)
<1>2. CASE UNCHANGED rows
  BY <1>1, <1>2, RestKeeps
<1>3. CASE rows' = [rows EXCEPT ![i] = d]
  <2>1. i \in 1 .. Len(rows) /\ rows[i] \in Delivery
    BY <1>1, AtRow DEF MailInv
  <2>2. Owns(w)
    BY <1>1 DEF Owns
  <2>3. rows[i].tries < MaxRetries
    BY <2>1, <2>2 DEF MailInv, Claimed
  <2>4. rows[i].tries + 1 \in 0 .. MaxRetries /\ rows[i].tries \in Nat
    BY <2>1, <2>3 DEF Delivery
  <2>5. ~again => rows[i].tries + 1 = MaxRetries \/ NMay("perm")
    <3>1. CASE att[w].at = "perm"
      BY <3>1 DEF MailInv, Explained
    <3>2. CASE att[w].at = "temp"
      BY <2>3, <2>4, <3>2 DEF IsRetryable, RetriesLeft
    <3> QED BY <1>1, <3>1, <3>2
  <2>6. /\ d \in Delivery /\ d.m = rows[i].m /\ d.tries = rows[i].tries + 1
        /\ d.st = IF again THEN "RETRY_SCHEDULED" ELSE "FAILED"
    BY <2>1, <2>4 DEF Delivery, DeliveryStatus, RefusedRow
  <2> HIDE DEF d, again
  <2>7. d.st \in {"RETRY_SCHEDULED", "FAILED"} /\ (d.st = "FAILED" => d.tries = MaxRetries \/ NMay("perm"))
    BY <2>5, <2>6
  <2> QED BY <1>1, <1>3, <2>2, <2>6, <2>7, MarkKeeps
<1>4. UNCHANGED rows \/ rows' = [rows EXCEPT ![i] = d]
  BY DEF MarkFailedOrRetry
<1> QED BY <1>2, <1>3, <1>4

\* A retry's time comes.
LEMMA DueKeeps ==
  ASSUME MailInv, NEW i \in 1 .. Len(rows), RetryDue(i) PROVE MailInv'
<1>1. MailTypes /\ Claimed /\ Counted /\ Explained /\ Single
  BY DEF MailInv
<1>2. UNCHANGED <<nenv, msg, att, sent>> /\ rows' = [rows EXCEPT ![i].due = TRUE]
  BY DEF RetryDue
<1> DEFINE d == [rows[i] EXCEPT !.due = TRUE]
<1>3. rows[i] \in Delivery
  BY <1>1, RowFacts
<1>4. d \in Delivery /\ d.m = rows[i].m /\ d.st = rows[i].st /\ d.tries = rows[i].tries
  BY <1>3 DEF Delivery
<1>5. rows' = [rows EXCEPT ![i] = d]
  BY <1>2
<1> HIDE DEF d
<1>6. /\ rows' \in Seq(Delivery) /\ Len(rows') = Len(rows) /\ rows'[i] = d
      /\ \A j \in 1 .. Len(rows) : j # i => rows'[j] = rows[j]
  BY <1>1, <1>4, <1>5, RowUpdate
<1>7. \A j \in 1 .. Len(rows) : rows'[j].m = rows[j].m /\ rows'[j].st = rows[j].st /\ rows'[j].tries = rows[j].tries
  BY <1>4, <1>6
<1>8. MailTypes'
  BY <1>1, <1>2, <1>6 DEF MailTypes
<1>9. Claimed'
  <2>1. \A v \in Runner : Owns(v) => att[v].at # "idle"
    BY DEF Owns
  <2>2. \A v \in Runner : Owns(v) => att[v].i \in 1 .. Len(rows)
    BY <1>1, <2>1, AtRow
  <2> QED BY <1>1, <1>2, <1>6, <1>7, <2>2 DEF Claimed, Owns
<1>10. Counted'
  BY <1>1, <1>2, <1>6, <1>7 DEF Counted, NMay
<1>11. Explained'
  <2>1. \A j \in 1 .. Len(rows') : rows'[j].st = "FAILED" =>
          ResolveNotificationType(rows'[j].m) = {} \/ rows'[j].tries = MaxRetries \/ NMay("perm")
    BY <1>1, <1>6, <1>7 DEF Explained
  <2> QED BY <1>1, <1>2, <2>1 DEF Explained, NMay, ResolveNotificationType
<1>12. Single'
  BY <1>1, <1>2, <1>6, <1>7 DEF Single, NMay
<1> QED BY <1>8, <1>9, <1>10, <1>11, <1>12 DEF MailInv

\* The process dies: attempts are forgotten, messages come again.
LEMMA CrashKeeps ==
  ASSUME MailInv, NotifyCrash PROVE MailInv'
<1>1. MailTypes /\ Claimed /\ Counted /\ Explained /\ Single
  BY DEF MailInv
<1>2. NMay("crash") /\ UNCHANGED <<nenv, rows, sent>>
  BY DEF NotifyCrash, NFail
<1>3. Resting \in Stand /\ Resting.at = "idle"
  BY DEF Resting, Stand
<1>4. att' \in [Runner -> Stand] /\ \A v \in Runner : att'[v].at = "idle"
  BY <1>3 DEF NotifyCrash
<1>5. /\ msg' \in [Message -> {"queued", "create", "audit", "done", "refused", "gone"}]
      /\ \A m \in Message : msg'[m] # "audit"
  BY DEF NotifyCrash
<1>6. MailTypes'
  BY <1>1, <1>2, <1>4, <1>5 DEF MailTypes
<1>7. Claimed'
  BY <1>1, <1>2, <1>4 DEF Claimed, Owns
<1>8. Counted'
  BY <1>1, <1>2, <1>4 DEF Counted, NMay
<1>9. Explained'
  BY <1>1, <1>2, <1>4, <1>5 DEF Explained, NMay, ResolveNotificationType
<1>10. Single'
  BY <1>2 DEF Single, NMay
<1> QED BY <1>6, <1>7, <1>8, <1>9, <1>10 DEF MailInv

-----------------------------------------------------------------------------
(* The service. *)

\* Nothing of the invariant is touched.
LEMMA RestOfService ==
  ASSUME MailInv, UNCHANGED <<nenv, msg, rows, att, sent>> PROVE MailInv'
<1>1. MailTypes /\ Claimed /\ Counted /\ Explained /\ Single
  BY DEF MailInv
<1>2. MailTypes' /\ Claimed' /\ Counted'
  BY <1>1 DEF MailTypes, Claimed, Owns, Counted, NMay
<1>3. Explained' /\ Single'
  BY <1>1 DEF Explained, ResolveNotificationType, Single, NMay
<1> QED BY <1>2, <1>3 DEF MailInv

\* Every step keeps the invariant.
LEMMA MailNext == MailInv /\ [NotifyNext]_nvars => MailInv'
<1> SUFFICES ASSUME MailInv, [NotifyNext]_nvars PROVE MailInv'
  OBVIOUS
<1>1. CASE \E m \in Message : Handle(m) \/ Create(m) \/ PersistUnsupportedAudit(m) \/ process(m)
  BY <1>1, HandleKeeps, CreateKeeps, ProcessKeeps
<1>2. CASE \E w \in Runner : AttemptDelivery(w)
  BY <1>2, LoadKeeps, ClaimKeeps, SendKeeps, SucceededKeeps, FailedKeeps DEF AttemptDelivery
<1>3. CASE \E i \in 1 .. Len(rows) : RetryDue(i)
  BY <1>3, DueKeeps
<1>4. CASE processDueRetries
  BY <1>4, PollKeeps
<1>5. CASE NotifyCrash
  BY <1>5, CrashKeeps
<1>6. CASE registerToken \/ deregisterToken \/ testPush \/ UNCHANGED nvars
  BY <1>6, RestOfService DEF registerToken, deregisterToken, testPush, nvars
<1> QED BY <1>1, <1>2, <1>3, <1>4, <1>5, <1>6 DEF NotifyNext, WorkStep

\* The invariant says what DeliveredOnce says.
LEMMA MailInvDelivers == MailInv => DeliveredOnce
<1> SUFFICES ASSUME MailInv, NEW i \in 1 .. Len(rows)
             PROVE  /\ Cardinality(Owners(i)) <= 1
                    /\ Owners(i) # {} => rows[i].st = "PROCESSING"
                    /\ ~NMay("ghost") => sent.mail[i] <= 1
                    /\ rows[i].st = "SUCCEEDED" => sent.mail[i] >= 1
                    /\ rows[i].st = "FAILED" /\ ~NMay("ghost") => sent.mail[i] = 0
                    /\ rows[i].st = "FAILED" /\ ResolveNotificationType(rows[i].m) # {} =>
                         rows[i].tries = MaxRetries \/ NMay("perm")
                    /\ ~NMay("ack") /\ ~NMay("crash") =>
                         /\ \A j \in 1 .. Len(rows) : rows[i].m = rows[j].m => i = j
                         /\ sent.push[rows[i].m] <= 1
  BY DEF DeliveredOnce
<1>1. MailTypes /\ Claimed /\ Counted /\ Explained /\ Single
  BY DEF MailInv
<1>2. \A w \in Owners(i) : w \in Runner /\ Owns(w) /\ att[w].i = i
  BY DEF Owners, Owns
<1>3. Cardinality(Owners(i)) <= 1
  <2>1. CASE Owners(i) = {}
    BY <2>1, FS_EmptySet
  <2>2. CASE Owners(i) # {}
    <3>1. PICK w \in Owners(i) : TRUE
      BY <2>2
    <3>2. \A v \in Owners(i) : v = w
      BY <1>1, <1>2, <3>1 DEF Claimed
    <3>3. Owners(i) = {w}
      BY <3>1, <3>2
    <3>4. Cardinality({w}) = 1
      BY FS_Singleton
    <3> QED BY <3>3, <3>4
  <2> QED BY <2>1, <2>2
<1>4. Owners(i) # {} => rows[i].st = "PROCESSING"
  BY <1>1, <1>2 DEF Claimed
<1>5. /\ ~NMay("ghost") => sent.mail[i] <= 1
      /\ rows[i].st = "SUCCEEDED" => sent.mail[i] >= 1
      /\ rows[i].st = "FAILED" /\ ~NMay("ghost") => sent.mail[i] = 0
  BY <1>1 DEF Counted
<1>6. rows[i].st = "FAILED" /\ ResolveNotificationType(rows[i].m) # {} => rows[i].tries = MaxRetries \/ NMay("perm")
  BY <1>1 DEF Explained
<1>7. ~NMay("ack") /\ ~NMay("crash") =>
        /\ \A j \in 1 .. Len(rows) : rows[i].m = rows[j].m => i = j
        /\ sent.push[rows[i].m] <= 1
  BY <1>1, RowFacts DEF Single
<1> QED BY <1>3, <1>4, <1>5, <1>6, <1>7

\* The notification service keeps its types, whatever is redelivered or lost.
THEOREM MailTypesHold == NotifySpec => []NotifyTypeOK
<1>1. MailInv => NotifyTypeOK
  <2> SUFFICES ASSUME MailInv PROVE NotifyTypeOK
    OBVIOUS
  <2>1. MailTypes
    BY DEF MailInv
  <2>2. \A i \in 1 .. Len(rows) :
          rows[i].m \in Message /\ rows[i].st \in DeliveryStatus /\ rows[i].tries \in 0 .. MaxRetries
    BY <2>1, RowFacts
  <2>3. \A w \in Runner : att[w].at \in {"idle", "load", "claim", "send", "ok", "temp", "perm"}
    BY <2>1, AtRow
  <2> QED BY <2>1, <2>2, <2>3 DEF NotifyTypeOK, MailTypes
<1> QED BY <1>1, MailStart, MailNext, PTL DEF NotifySpec

\* However workers, first attempts and the poller overlap, and whatever is
\* redelivered, refused, lost or cut off by a crash: a row has one attempt at a
\* time that sends it, its mail leaves once unless the mail server's answer was
\* lost, its status says whether it left, and a message that is delivered once
\* has one row and one push (MarkProcessing, MarkSucceeded, MarkFailedOrRetry).
THEOREM DeliverySafety == NotifySpec => []DeliveredOnce
  BY MailStart, MailNext, MailInvDelivers, PTL DEF NotifySpec

=============================================================================
