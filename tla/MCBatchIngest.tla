--------------------------- MODULE MCBatchIngest ---------------------------
(* Instances of BatchIngest for TLC.                                       *)
EXTENDS BatchIngest

CONSTANTS w1, c1, c2

\* Batches for the webhook and for the Logpush receiver.
MCKindOf == [r \in Requests |-> IF r \in {c1, c2} THEN "cloudflare" ELSE "webhook"]

Body(s, is) == [shape |-> s, items |-> is]

\* The translators meet the envelopes of their vendors and other shapes.
MCBodies ==
  {Body("ndjson", <<"good", "hollow", "bad">>), Body("events", <<"good", "bad", "good">>),
   Body("malformed", <<>>)}
  \cup {Body(s, <<"good", "hollow">>) : s \in {"splunk", "elastic", "sumo"}}

MCVendors == {"generic", "splunk_hec", "elastic_webhook", "sumo_logic"}
=============================================================================
