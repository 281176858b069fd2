------------------------- MODULE MCWebhookDelivery -------------------------
EXTENDS WebhookDelivery, TLC

CONSTANTS w1, w2, e1, e2

\* One webhook subscribes to both events, the other one to the first.
Subscriptions == e1 :> {w1, w2} @@ e2 :> {w1}
=============================================================================
