----------------------------- MODULE Notification -----------------------------
(***************************************************************************)
(* The notification service (services/notification): one mail per          *)
(* customer-facing event.  The mail is handed to the channel before the    *)
(* transaction that records it, marks the event as processed and writes    *)
(* commerce.notification.sent to the outbox, for a mail the channel        *)
(* refused too: the event has no status (notification.proto).              *)
(***************************************************************************)
EXTENDS Naturals, FiniteSets, Access

CONSTANTS Mailers,     \* consumer goroutines
          MaxMails,    \* bound on mails for one record
          SendMayFail  \* whether the channel reports errors (LogChannel never does)

VARIABLES notices,    \* records on the topics this service reads
          nProcessed, \* processed_events of this service
          sending,    \* the record each consumer has in hand, and how Send went
          mails,      \* how often a record's mail was handed to the channel
          noted,      \* the notifications recorded: record and status
          announced   \* how often notification.sent was written of a record

notVars == <<nProcessed, sending, mails, noted, announced>>

(* consumer.Topics and domain.templates: what the service has a text for.  *)
MailKinds == {"order_created", "order_confirmed", "order_cancelled", "order_fulfilled",
              "shipment_shipped", "shipment_delivered"}

NotTypeOK ==
    /\ nProcessed \subseteq notices
    /\ \A m \in Mailers : sending[m] \subseteq notices \X {"SENT", "FAILED"} /\ Cardinality(sending[m]) <= 1
    /\ \A x \in noted : x[1] \in notices \/ x[1].kind = "test"

NotInit ==
    /\ nProcessed = {} /\ noted = {}
    /\ sending = [m \in Mailers |-> {}]
    /\ mails = [n \in {} |-> 0] /\ announced = [n \in {} |-> 0]

Mailed(n) == IF n \in DOMAIN mails THEN mails[n] ELSE 0
Announced(n) == IF n \in DOMAIN announced THEN announced[n] ELSE 0

(* Store.Record's insert into the outbox.                                  *)
Announce(n) ==
    announced' = [k \in DOMAIN announced \cup {n} |-> IF k = n THEN Announced(n) + 1 ELSE announced[k]]

(* Mutant: a mail the channel refused is recorded as sent.                 *)
SendNoticeAlwaysSent(m, n) ==
    /\ n \in notices /\ n.kind \in MailKinds /\ sending[m] = {} /\ Mailed(n) < MaxMails
    /\ sending' = [sending EXCEPT ![m] = {<<n, "SENT">>}]
    /\ \/ mails' = [k \in DOMAIN mails \cup {n} |-> IF k = n THEN Mailed(n) + 1 ELSE mails[k]]
       \/ SendMayFail /\ UNCHANGED mails
    /\ UNCHANGED <<nProcessed, noted, announced>>

(* consumer.Handler up to and including Channel.Send: whether the record   *)
(* was processed before is not looked at yet.                              *)
SendNotice(m, n) ==
    /\ n \in notices /\ n.kind \in MailKinds /\ sending[m] = {} /\ Mailed(n) < MaxMails
    /\ \/ /\ mails' = [k \in DOMAIN mails \cup {n} |-> IF k = n THEN Mailed(n) + 1 ELSE mails[k]]
          /\ sending' = [sending EXCEPT ![m] = {<<n, "SENT">>}]
       \/ SendMayFail /\ sending' = [sending EXCEPT ![m] = {<<n, "FAILED">>}] /\ UNCHANGED mails
    /\ UNCHANGED <<nProcessed, noted, announced>>

(* Store.Record, one transaction: an event processed before is skipped, of *)
(* any other the entry and the outbox row are written, SENT or FAILED.     *)
RecordNotice(m) ==
    /\ sending[m] # {} /\ sending' = [sending EXCEPT ![m] = {}]
    /\ \E x \in sending[m] :
         \/ x[1] \in nProcessed /\ UNCHANGED <<nProcessed, noted, announced>>
         \/ /\ x[1] \notin nProcessed /\ nProcessed' = nProcessed \cup {x[1]}
            /\ noted' = noted \cup {x} /\ Announce(x[1])
    /\ UNCHANGED mails

(* The transaction fails, or the process stops before it: what was in hand *)
(* is given up.                                                            *)
RecordNoticeFails(m) ==
    /\ sending[m] # {} /\ sending' = [sending EXCEPT ![m] = {}]
    /\ UNCHANGED <<nProcessed, mails, noted, announced>>

(* grpcsvc.SendTest: a test mail to the caller, recorded and announced     *)
(* without an event.                                                       *)
SendTest ==
    LET test == [kind |-> "test"] IN
    /\ \/ noted' = noted \cup {<<test, "SENT">>}
       \/ SendMayFail /\ noted' = noted \cup {<<test, "FAILED">>}
    /\ Announce(test)
    /\ UNCHANGED <<nProcessed, sending, mails>>

-----------------------------------------------------------------------------
(* What the customer's list says is true of the channel: one entry per     *)
(* event however often it is delivered, and one marked SENT was handed to  *)
(* the channel; whoever reads notification.sent hears of each entry once,  *)
(* of a FAILED one as of a SENT one (Handler, Record).                     *)
NotedTruthfully ==
    LET ofEvents == {x \in noted : x[1].kind # "test"} IN
    /\ \A x, y \in ofEvents : x[1] = y[1] => x = y
    /\ \A x \in ofEvents : (x[2] = "SENT" => Mailed(x[1]) > 0) /\ Announced(x[1]) = 1
    /\ {x[1] : x \in ofEvents} = nProcessed
    /\ DOMAIN announced = {x[1] : x \in noted}

(* Handler's comment: one notification per event, idempotent via the       *)
(* store's processed_events row.                                           *)
MailedOnce == \A n \in DOMAIN mails : mails[n] <= 1
=============================================================================
