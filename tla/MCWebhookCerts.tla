--------------------------- MODULE MCWebhookCerts ----------------------------
EXTENDS WebhookCerts

\* The pods are interchangeable, so one of them may be taken as the first leader.
FirstLeaderInit == ServeInit /\ leader = CHOOSE p \in Pods : TRUE
FirstLeaderFairSpec == FirstLeaderInit /\ [][ServeNext]_vars /\ ServeFairness
=============================================================================
