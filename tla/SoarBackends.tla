--------------------------- MODULE SoarBackends ---------------------------
(***************************************************************************)
(* soar.toml as soar/config.py reads it, and one call of deliver() of each *)
(* of the six backends (soar/backends/*.py).  Nothing here has state: the  *)
(* worker (SoarWorker) calls these operators.                              *)
(*                                                                         *)
(* A key of a backend's own settings is "absent", "bad" or "good": good is *)
(* what the backend's _validate accepts.  What the network does during a   *)
(* call is a record [host, kind, code]: how the webhook's host resolves,   *)
(* and whether there is a response ("status", with its code), a timeout or *)
(* network error ("network"), or another httpx error ("protocol").         *)
(* Message bodies, which no decision depends on, are left out.             *)
(***************************************************************************)
EXTENDS Integers, Sequences

\* KNOWN_BACKENDS, also the order of the registry.
KnownBackends ==
  <<"generic_webhook", "slack", "discord", "pagerduty", "thehive", "jira">>

RegistryPosition(name) == CHOOSE i \in DOMAIN KnownBackends : KnownBackends[i] = name
--------------------------------------------------------------------------
(* load_config.  A number of the file is <<n>>, or <<>> when the key is    *)
(* missing or its value is not a number.                                   *)

CoerceInt(v, default) == IF v = <<>> THEN default ELSE v[1]
AtLeast(low, n) == IF n < low THEN low ELSE n

SeverityOrder == [info |-> 0, low |-> 1, medium |-> 2, high |-> 3, critical |-> 4]

SeverityRank(s) == IF s \in DOMAIN SeverityOrder THEN SeverityOrder[s] ELSE 0

\* An unknown severity ranks with info.
SeverityMeets(actual, minimum) == SeverityRank(actual) >= SeverityRank(minimum)

\* One [backends.<name>] block.
LoadBackend(block) ==
  [enabled      |-> block.enabled,
   cooldown_sec |-> AtLeast(0, CoerceInt(block.cooldown_sec, 60)),
   severity_min |-> IF block.severity_min \in DOMAIN SeverityOrder
                    THEN block.severity_min ELSE "low",
   tags_filter  |-> block.tags_filter,
   max_retries  |-> AtLeast(0, CoerceInt(block.max_retries, 5)),
   extra        |-> block.extra]

\* _enqueue_row's filters, up to the cooldown.
Accepts(cfg, severity, tags) ==
  /\ cfg.enabled
  /\ SeverityMeets(severity, cfg.severity_min)
  /\ cfg.tags_filter # {} => cfg.tags_filter \cap tags # {}
--------------------------------------------------------------------------
(* deliver.                                                                *)

Result(code, dead) == [status_code |-> code, dead_lettered |-> dead]

\* A call refused before anything is sent: _validate or the template failed.
Invalid == Result(0, TRUE)

\* What the worker makes of an exception that leaves deliver().
Raised == Result(0, TRUE)

\* The part the six backends share: one HTTP call, whose 4xx is final.
Sent(net) ==
  CASE net.kind = "status"   -> Result(net.code, net.code >= 400 /\ net.code < 500)
    [] net.kind = "network"  -> Result(0, FALSE)
    [] net.kind = "protocol" -> Raised

\* validate_webhook_url: an allowlisted host, or one none of whose addresses is
\* in a blocked range.  A host that does not resolve is refused like a blocked one.
ValidateWebhookUrl(host) == host \in {"allowed", "public"}

\* A template that is empty or does not parse fails _validate; one that names
\* an unknown variable ("undefined") fails to render.
GenericWebhookDeliver(extra, net) ==
  IF extra.url = "good" /\ ValidateWebhookUrl(net.host) /\ extra.template = "good"
  THEN Sent(net) ELSE Invalid

SlackDeliver(extra, net) == IF extra.webhook_url = "good" THEN Sent(net) ELSE Invalid

DiscordDeliver(extra, net) == IF extra.webhook_url = "good" THEN Sent(net) ELSE Invalid

PagerDutyDeliver(extra, net) == IF extra.routing_key = "good" THEN Sent(net) ELSE Invalid

TheHiveDeliver(extra, net) ==
  IF extra.api_url = "good" /\ extra.api_key = "good" THEN Sent(net) ELSE Invalid

JiraDeliver(extra, net) ==
  IF \A k \in {"api_url", "project_key", "email", "api_token"} : extra[k] = "good"
  THEN Sent(net) ELSE Invalid

BackendDeliver(name, extra, net) ==
  CASE name = "generic_webhook" -> GenericWebhookDeliver(extra, net)
    [] name = "slack"           -> SlackDeliver(extra, net)
    [] name = "discord"         -> DiscordDeliver(extra, net)
    [] name = "pagerduty"       -> PagerDutyDeliver(extra, net)
    [] name = "thehive"         -> TheHiveDeliver(extra, net)
    [] name = "jira"            -> JiraDeliver(extra, net)

\* What the network may do in one call.
Network ==
  [host : {"allowed", "public", "blocked", "unresolved"},
   kind : {"status"}, code : {200, 302, 404, 429, 503}]
  \cup
  [host : {"allowed", "public", "blocked", "unresolved"},
   kind : {"network", "protocol"}, code : {0}]
=============================================================================
