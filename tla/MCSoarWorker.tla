--------------------------- MODULE MCSoarWorker ---------------------------
(* Instances of SoarWorker for TLC.                                        *)
EXTENDS SoarWorker

CONSTANTS k1

OneKind == {k1}
MCKindOf == [a \in Alerts |-> k1]

\* The first alert is critical, the others are of medium severity.
MCSeverityOf == [a \in Alerts |-> IF a = 1 THEN "critical" ELSE "medium"]
MCTagsOf == [a \in Alerts |-> {"attack"}]

\* The webhook retries once and takes every alert that is tagged; Jira is
\* fire-and-forget (a negative number counts as zero) and takes the severe ones;
\* Slack is configured and not enabled.
Webhook ==
  [enabled |-> TRUE, cooldown_sec |-> <<>>, severity_min |-> "none", tags_filter |-> {"attack"},
   max_retries |-> <<1>>, extra |-> [url |-> "good", template |-> "good"]]
Jira ==
  [enabled |-> TRUE, cooldown_sec |-> <<0>>, severity_min |-> "high", tags_filter |-> {},
   max_retries |-> <<-1>>,
   extra |-> [k \in {"api_url", "project_key", "email", "api_token"} |-> "good"]]
Slack == [Webhook EXCEPT !.enabled = FALSE, !.extra = [webhook_url |-> "absent"]]

TwoBackends ==
  [b \in {"generic_webhook", "jira", "slack"} |->
     IF b = "jira" THEN Jira ELSE IF b = "slack" THEN Slack ELSE Webhook]
OneBackend == [b \in {"generic_webhook"} |-> Webhook]
--------------------------------------------------------------------------
(* The backends agree: over every block and every course of a call, deliver *)
(* refuses without sending unless all its settings are good, and otherwise  *)
(* a 2xx or 3xx is a success, a 4xx final, and a 5xx or network error open. *)

Settings ==
  [generic_webhook |-> {"url", "template"}, slack |-> {"webhook_url"},
   discord |-> {"webhook_url"}, pagerduty |-> {"routing_key"},
   thehive |-> {"api_url", "api_key"},
   jira |-> {"api_url", "project_key", "email", "api_token"}]

ASSUME BackendsAgree ==
  \A b \in DOMAIN Settings : \A x \in [Settings[b] -> {"absent", "bad", "undefined", "good"}] :
    \A net \in Network :
      LET r == BackendDeliver(b, x, net)
          sends == /\ \A k \in Settings[b] : x[k] = "good"
                   /\ b = "generic_webhook" => net.host \in {"allowed", "public"}
      IN  /\ r.dead_lettered <=> ~sends \/ net.kind = "protocol" \/ net.code \in 400..499
          /\ Succeeded(r) <=> sends /\ net.kind = "status" /\ net.code < 400
=============================================================================
