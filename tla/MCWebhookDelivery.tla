------------------------- MODULE MCWebhookDelivery -------------------------
(* Small instances of WebhookDelivery for TLC. *)
EXTENDS WebhookDelivery

CONSTANTS w1, d1, d2

\* All deliveries belong to one webhook.
OneWebhook == [d \in Deliveries |-> w1]

\* Either one delivery, with any two of a manual call, a fault and an edit; or
\* two of them behind a batch of one, with a call or a fault.  The call is for
\* d1: the deliveries are alike.
OneDelivery ==
    /\ calls' + faults' + edits' <= 2
    /\ \A d \in Deliveries \ {d1} : delivery'[d].status = "none" /\ task'[DispatchTask(d)] = NoTask
TwoDeliveries ==
    /\ edits' = 0 /\ calls' + faults' <= 1
    /\ \A c \in Clients : task'[ClientTask(c)].d \in {d1, None}

\* The scope limits nothing that Fairness speaks of.
MCSpec == Init /\ [][Next /\ (OneDelivery \/ TwoDeliveries)]_vars /\ Fairness
=============================================================================
