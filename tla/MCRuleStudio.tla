---------------------------- MODULE MCRuleStudio ----------------------------
(* Instances of RuleStudio for TLC.                                        *)
EXTENDS RuleStudio, TLC

CONSTANTS r1, r2, w1, w2

Doc(bs, os, ns, rs) ==
  [blocks |-> bs, known |-> TRUE, ors |-> os, nots |-> ns, required |-> rs, defects |-> {}]

Is(k, v) == [key |-> k, kind |-> "literal", value |-> v]
OneOf(k, vs) == [key |-> k, kind |-> "oneof", values |-> vs]
Contains(k, vs) == [key |-> k, kind |-> "contains", values |-> vs]
AtLeast(k, n) == [key |-> k, kind |-> "ge", value |-> n]
Below(k, n) == [key |-> k, kind |-> "lt", value |-> n]
BadRegex(k) == [key |-> k, kind |-> "badregex"]

Blocks ==
  [selection |-> <<AtLeast("status", 1)>>,
   f1 |-> <<OneOf("user", {1, 2})>>,
   f2 |-> <<Is("source", 1)>>,
   f3 |-> <<Contains("user", {2}), Below("status", 2)>>]

\* A rule with the longest pattern; a count that is no number; and one without
\* alternatives that compiles and cannot be shown.
Simple == Doc(Blocks, <<>>, <<"f3">>, {})
MCBodies ==
  {Doc(Blocks, <<"f1", "f2">>, <<"f3">>, {"user"}),
   [Simple EXCEPT !.defects = {"count"}],
   [Simple EXCEPT !.defects = {"answer"}]}

\* By hand also: alternatives only, with a pattern that is no regular expression
\* behind another key, and a scalar; a name that is no block; other defects.
MCHandWritten ==
  {Doc([Blocks EXCEPT !.f1 = Scalar, !.f2 = <<Is("source", 1), BadRegex("user")>>],
       <<"f2", "f1">>, <<>>, {}),
   Doc(Blocks, <<"f1">>, <<"f9">>, {}),
   [Simple EXCEPT !.defects = {"level", "count"}]}

MCEvents ==
  {[metadata |-> m, source |-> 1, raw |-> 2] :
     m \in {[status |-> 1], [status |-> 1, user |-> 2], [status |-> 2, user |-> 1],
            [user |-> 1], [status |-> NotANumber, user |-> 3], [status |-> 1, user |-> 3]}}
  \cup {[metadata |-> m, source |-> 2, raw |-> 2] :
     m \in {[status |-> 1, user |-> 2], [status |-> 1, user |-> 3]}}

WorkerSymmetry == Permutations({w1, w2})
=============================================================================
