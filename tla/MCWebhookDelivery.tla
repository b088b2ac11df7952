--------------------------- MODULE MCWebhookDelivery ---------------------------
(* Model checking of WebhookDelivery: rows, workers, webhooks and URLs are *)
(* interchangeable.                                                        *)
EXTENDS WebhookDelivery, TLC

Symmetry == Permutations(Delivery) \cup Permutations(Worker) \cup Permutations(Webhook)
              \cup Permutations(Url)
=============================================================================
