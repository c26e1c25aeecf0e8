----------------------------- MODULE SigmaRule -----------------------------
(***************************************************************************)
(* The Sigma subset of rule_engine/sigma.py: what _compile accepts, what   *)
(* matches() answers for an event, and which files a walk of the rule      *)
(* directories loads.  Pure operators, used by RuleStudio.                 *)
(*                                                                         *)
(* A document is a record                                                  *)
(*   blocks    the named blocks of detection, selection among them         *)
(*   known     whether the condition is of one of the four patterns        *)
(*   ors       the names it lists in parentheses, in order                 *)
(*   nots      the name after "and not", if any                            *)
(*   required  required_fields                                             *)
(*   defects   what is wrong with the fields that are looked at            *)
(* and a block is the sequence of its keys, in the order of the file, with *)
(* what each expects.  Metadata values are numbers; NotANumber stands for  *)
(* the text that float() refuses.                                          *)
(***************************************************************************)
EXTENDS Naturals, Sequences, FiniteSets

IsDocument(d) ==
  /\ DOMAIN d = {"blocks", "known", "ors", "nots", "required", "defects"}
  /\ "selection" \in DOMAIN d.blocks
  /\ \A n \in DOMAIN d.blocks : DOMAIN d.blocks[n] \subseteq Nat
  /\ d.known \in BOOLEAN
  /\ d.ors \in Seq(STRING) /\ d.nots \in Seq(STRING)

NotANumber == 0

\* What a key may expect and only find out when it is reached: a pattern that
\* is no regular expression.  A scalar where a block is needed raises at once.
Raising == {"badregex", "scalar"}
Scalar == <<[key |-> "source", kind |-> "scalar"]>>

\* The first answer that is not the one the loop passes over.
First(answers, passed) ==
  LET ends == {i \in DOMAIN answers : answers[i] # passed} IN
  IF ends = {} THEN passed ELSE answers[CHOOSE i \in ends : \A j \in ends : i <= j]

\* metadata.get(key), with the source of the event as a second chance.
HasKey(e, k) == k \in DOMAIN e.metadata \/ k = "source"
Actual(e, k) == IF k \in DOMAIN e.metadata THEN e.metadata[k] ELSE e.source

\* One key of a selection.  The values a list, re:, startswith or endswith
\* accepts are given as a set; contains: looks into the raw line, too.
Meets(e, c) ==
  LET v == Actual(e, c.key) IN
  CASE c.kind = "literal"  -> v = c.value
    [] c.kind = "oneof"    -> v \in c.values
    [] c.kind = "contains" -> v \in c.values \/ e.raw \in c.values
    [] c.kind = "ge"       -> v # NotANumber /\ v >= c.value
    [] c.kind = "lt"       -> v # NotANumber /\ v < c.value
    [] c.kind \in Raising  -> FALSE

KeyAnswer(e, c) ==
  IF ~HasKey(e, c.key) THEN "no"
  ELSE IF c.kind \in Raising THEN "raises"
  ELSE IF Meets(e, c) THEN "yes" ELSE "no"

\* Mutant of MatchSelection: a key the event lacks is passed over.
MatchSelectionOpen(e, block) ==
  First([i \in DOMAIN block |->
           IF HasKey(e, block[i].key) THEN KeyAnswer(e, block[i]) ELSE "yes"], "yes")

\* _match_selection: key by key, up to the first that is not met or raises.
MatchSelection(e, block) ==
  First([i \in DOMAIN block |-> KeyAnswer(e, block[i])], "yes")

\* any(...): the first filter that matches or raises decides.
AnyOf(d, e) ==
  First([i \in DOMAIN d.ors |-> MatchSelection(e, d.blocks[d.ors[i]])], "no")

Names(d) == {d.ors[i] : i \in DOMAIN d.ors} \cup {d.nots[i] : i \in DOMAIN d.nots}

\* CompiledSigmaRule.matches: required fields, the unknown names of the
\* condition, the selection, the filter after "and not", the alternatives.
Matches(d, e) ==
  IF \/ \E k \in d.required : k \notin DOMAIN e.metadata
     \/ ~d.known
     \/ \E n \in Names(d) : n \notin DOMAIN d.blocks
  THEN "no"
  ELSE LET sel == MatchSelection(e, d.blocks["selection"])
           neg == IF d.nots = <<>> THEN "no" ELSE MatchSelection(e, d.blocks[d.nots[1]])
           alt == IF d.ors = <<>> THEN "yes" ELSE AnyOf(d, e)
       IN  CASE sel # "yes" -> sel
             [] sel = "yes" /\ neg = "raises" -> "raises"
             [] sel = "yes" /\ neg = "yes" -> "no"
             [] OTHER -> alt

\* What _compile looks at, in its order, and how each defect ends it: most
\* raise SigmaRuleLoadError, int() raises ValueError.
CompileChecks ==
  <<[field |-> "yaml", ends |-> "load_error"], [field |-> "mapping", ends |-> "load_error"],
    [field |-> "level", ends |-> "load_error"], [field |-> "detection", ends |-> "load_error"],
    [field |-> "selection", ends |-> "load_error"],
    [field |-> "count", ends |-> "value_error"],
    [field |-> "cooldown_sec", ends |-> "value_error"],
    [field |-> "action", ends |-> "load_error"],
    [field |-> "required_fields", ends |-> "load_error"]>>

Compile(d) ==
  First([i \in DOMAIN CompileChecks |->
           IF CompileChecks[i].field \in d.defects THEN CompileChecks[i].ends ELSE "ok"], "ok")

\* load_rules_from_dir over a set of files [dir, id, doc]: a file with a load
\* error is skipped, any other exception ends the walk.
LoadRaises(files) == \E f \in files : Compile(f.doc) = "value_error"
Loaded(files) == {f \in files : Compile(f.doc) = "ok"}

\* hunt/run replays stored events with four fields set to "" where they are
\* missing; NotANumber is that text as well.
HuntFields == {"source_ip", "user", "url", "status"}
HuntEvent(e) ==
  [e EXCEPT !.metadata = [k \in DOMAIN e.metadata \cup HuntFields |->
     IF k \in DOMAIN e.metadata THEN e.metadata[k] ELSE NotANumber]]

\* The meaning the patterns of ADR-010 have: a formula over the blocks.
Reference(d, e) ==
  LET Holds(n) == \A i \in DOMAIN d.blocks[n] :
                    HasKey(e, d.blocks[n][i].key) /\ Meets(e, d.blocks[n][i])
  IN  /\ d.required \subseteq DOMAIN e.metadata
      /\ d.known /\ Names(d) \subseteq DOMAIN d.blocks
      /\ Holds("selection")
      /\ d.ors # <<>> => \E i \in DOMAIN d.ors : Holds(d.ors[i])
      /\ d.nots # <<>> => ~Holds(d.nots[1])

\* A block that a condition names holds something that raises when reached.
MayRaise(d) ==
  \E n \in (Names(d) \cup {"selection"}) \cap DOMAIN d.blocks :
    \E i \in DOMAIN d.blocks[n] : d.blocks[n][i].kind \in Raising
=============================================================================
