----------------------------- MODULE RuleStudio -----------------------------
(***************************************************************************)
(* The rule studio (api/v1/rules_studio.py): rules created, updated and    *)
(* deleted as files under rules/custom, read by the test bench, the        *)
(* reload endpoint and hunt.  A handler never awaits, so within one server *)
(* process it runs to its end; handlers of several processes interleave    *)
(* between their file operations, a process may be killed at any of them,  *)
(* and an operator edits the directories by hand.                          *)
(*                                                                         *)
(* One extension (.yml) and one directory level stand for the two that are *)
(* walked and for the subdirectories.                                      *)
(***************************************************************************)
EXTENDS SigmaRule

CONSTANTS
  Processes,      \* server processes
  Ids,            \* rule ids
  Bodies,         \* documents that _build_yaml makes of POST and PUT bodies
  HandWritten,    \* documents an operator puts there by hand
  SampleEvents,   \* sample events
  MaxRequests,    \* bound: requests
  MaxFileFaults   \* bound: kills, failing writes, edits by hand

Dirs == {"builtin", "custom"}
Docs == Bodies \cup HandWritten

StudioConstants ==
  /\ Ids # {}
  /\ \A d \in Docs : IsDocument(d)
  /\ {MaxRequests, MaxFileFaults} \subseteq Nat

ASSUME StudioAssumption == StudioConstants

NoFile == [file |-> "none"]
Torn   == [file |-> "torn"]

VARIABLES
  disk,      \* what is at <dir>/<id>.yml
  temp,      \* the temporary file of each worker
  litter,    \* temporary files that killed workers left behind
  studioPc,  \* where each worker stands
  req, rule, \* and with which request and rule id
  body,      \* document of each request
  verdict,   \* answer of each request: open, accepted, rejected, lost
  shown,     \* history: the document in the answer
  writer,    \* history: request that wrote each custom file, 0 for none
  course,    \* history: a request before its rename, alone since, or crossed
             \* by another change of its file before it was answered
  reqs, fileFaults

studioVars == <<disk, temp, litter, studioPc, req, rule, body, verdict, shown, writer, course,
                reqs, fileFaults>>

Requests == 1..MaxRequests
NoRequest == 0

StudioTypeOK ==
  /\ disk \in [Dirs -> [Ids -> Docs \cup {NoFile, Torn}]]
  /\ temp \in [Processes -> Docs \cup {NoFile, Torn}]
  /\ litter \subseteq Docs \cup {Torn}
  /\ studioPc \in [Processes -> {"idle", "mkstemp", "write", "replace", "parse", "read", "unlink"}]
  /\ req \in [Processes -> 0..MaxRequests]
  /\ rule \in [Processes -> Ids]
  /\ body \in [Requests -> Docs \cup {NoFile}]
  /\ verdict \in [Requests -> {"open", "accepted", "rejected", "lost"}]
  /\ shown \in [Requests -> Docs \cup {NoFile, Torn}]
  /\ writer \in [Ids -> 0..MaxRequests]
  /\ course \in [Requests -> {"before", "alone", "crossed"}]
  /\ reqs \in 0..MaxRequests /\ fileFaults \in 0..MaxFileFaults

StudioInit ==
  /\ disk \in {[d \in Dirs |-> [i \in Ids |-> IF d = "builtin" THEN b[i] ELSE NoFile]] :
                 b \in [Ids -> HandWritten \cup {NoFile}]}
  /\ temp = [w \in Processes |-> NoFile]
  /\ litter = {}
  /\ studioPc = [w \in Processes |-> "idle"]
  /\ req = [w \in Processes |-> NoRequest]
  /\ rule = [w \in Processes |-> CHOOSE i \in Ids : TRUE]
  /\ body = [r \in Requests |-> NoFile]
  /\ verdict = [r \in Requests |-> "open"]
  /\ shown = [r \in Requests |-> NoFile]
  /\ writer = [i \in Ids |-> NoRequest]
  /\ course = [r \in Requests |-> "before"]
  /\ reqs = 0 /\ fileFaults = 0

FileFault == fileFaults < MaxFileFaults /\ fileFaults' = fileFaults + 1
Exists(d, i) == disk[d][i] # NoFile
Goto(w, l) == studioPc' = [studioPc EXCEPT ![w] = l]

Judge(w, v) ==
  /\ verdict' = [verdict EXCEPT ![req[w]] = v]
  /\ Goto(w, "idle")

\* A request arrives at an idle worker and goes to l, or is answered at once.
Arrive(w, i, d, l) ==
  /\ studioPc[w] = "idle" /\ reqs < MaxRequests
  /\ reqs' = reqs + 1
  /\ req' = [req EXCEPT ![w] = reqs + 1]
  /\ rule' = [rule EXCEPT ![w] = i]
  /\ body' = [body EXCEPT ![reqs + 1] = d]
  /\ verdict' = [verdict EXCEPT ![reqs + 1] = IF l = "idle" THEN "rejected" ELSE "open"]
  /\ Goto(w, l)
  /\ UNCHANGED <<disk, temp, litter, shown, writer, course, fileFaults>>

\* The courses once the custom file of i is changed under the others.
Crossing(others, i) ==
  [r \in Requests |->
     IF \E v \in others : studioPc[v] \in {"parse", "read"} /\ req[v] = r /\ rule[v] = i
     THEN "crossed" ELSE course[r]]
--------------------------------------------------------------------------
(* Create and update.                                                      *)

\* POST: 422 for an unsupported condition, 409 when the custom file is there.
Create(w) ==
  \E i \in Ids, d \in Bodies :
    Arrive(w, i, d, IF d.known /\ ~Exists("custom", i) THEN "mkstemp" ELSE "idle")

\* PUT: 409 for a built-in, 404 for no rule, 422 for the condition.
Update(w) ==
  \E i \in Ids, d \in Bodies :
    Arrive(w, i, d, IF d.known /\ Exists("custom", i) THEN "mkstemp" ELSE "idle")

\* _atomic_write_text: an empty file beside the target ...
MakeTemp(w) ==
  /\ studioPc[w] = "mkstemp"
  /\ temp' = [temp EXCEPT ![w] = Torn]
  /\ Goto(w, "write")
  /\ UNCHANGED <<disk, litter, req, rule, body, verdict, shown, writer, course, reqs, fileFaults>>

\* ... is written and flushed ...
WriteTemp(w) ==
  /\ studioPc[w] = "write"
  /\ temp' = [temp EXCEPT ![w] = body[req[w]]]
  /\ Goto(w, "replace")
  /\ UNCHANGED <<disk, litter, req, rule, body, verdict, shown, writer, course, reqs, fileFaults>>

\* ... or, when a call fails, removed, if the removal does not fail as well.
WriteRaises(w) ==
  /\ FileFault
  /\ studioPc[w] \in {"mkstemp", "write", "replace"}
  /\ litter' \in {litter, litter \cup ({temp[w]} \ {NoFile})}
  /\ temp' = [temp EXCEPT ![w] = NoFile]
  /\ Judge(w, "rejected")
  /\ UNCHANGED <<disk, req, rule, body, shown, writer, course, reqs>>

\* Mutant of Replace: the temporary file is linked, which keeps a file that
\* is there.
ReplaceLinks(w) ==
  /\ studioPc[w] = "replace"
  /\ disk' = IF Exists("custom", rule[w]) THEN disk
             ELSE [disk EXCEPT !["custom"][rule[w]] = temp[w]]
  /\ temp' = [temp EXCEPT ![w] = NoFile]
  /\ writer' = [writer EXCEPT ![rule[w]] = req[w]]
  /\ course' = [Crossing(Processes \ {w}, rule[w]) EXCEPT ![req[w]] = "alone"]
  /\ Goto(w, "parse")
  /\ UNCHANGED <<litter, req, rule, body, verdict, shown, reqs, fileFaults>>

\* os.replace.
Replace(w) ==
  /\ studioPc[w] = "replace"
  /\ disk' = [disk EXCEPT !["custom"][rule[w]] = temp[w]]
  /\ temp' = [temp EXCEPT ![w] = NoFile]
  /\ writer' = [writer EXCEPT ![rule[w]] = req[w]]
  /\ course' = [Crossing(Processes \ {w}, rule[w]) EXCEPT ![req[w]] = "alone"]
  /\ Goto(w, "parse")
  /\ UNCHANGED <<litter, req, rule, body, verdict, shown, reqs, fileFaults>>

\* parse_rule_file: a file that is gone is a load error; 422 for a load error,
\* 500 for any other.
ParseVerdict(d) == IF d = NoFile \/ Compile(d) # "ok" THEN "rejected" ELSE "ok"

\* The file, by then in place, goes through the loader.
Parse(w) ==
  /\ studioPc[w] = "parse"
  /\ IF ParseVerdict(disk["custom"][rule[w]]) = "ok"
       THEN Goto(w, "read") /\ UNCHANGED verdict
       ELSE Judge(w, "rejected")
  /\ UNCHANGED <<disk, temp, litter, req, rule, body, shown, writer, course, reqs, fileFaults>>

\* Mutant of Detail: the built-in before the custom file.
DetailBuiltinFirst(i) ==
  IF Exists("builtin", i) THEN disk["builtin"][i] ELSE disk["custom"][i]

\* _read_rule_detail: the custom file, else the built-in.
Detail(i) == IF Exists("custom", i) THEN disk["custom"][i] ELSE disk["builtin"][i]

\* What get_rule cannot show: it reads and converts the fields for itself, and
\* refuses some that _compile takes ("answer", such as a count of "").
Unshowable == {"yaml", "mapping", "level", "detection", "count", "cooldown_sec", "action", "answer"}

\* get_rule answers with what is there now: 404 when it is gone, 422 or 500
\* when it cannot be shown.
Answer(w) ==
  LET d == Detail(rule[w])
      v == IF d = NoFile THEN "rejected"
           ELSE IF d.defects \cap Unshowable # {} THEN "rejected" ELSE "accepted"
  IN  /\ studioPc[w] = "read"
      /\ Judge(w, v)
      /\ shown' = IF v = "accepted" THEN [shown EXCEPT ![req[w]] = d] ELSE shown
      /\ UNCHANGED <<disk, temp, litter, req, rule, body, writer, course, reqs, fileFaults>>

\* DELETE: 409 for a built-in, 404 for no rule ...
Delete(w) ==
  \E i \in Ids : Arrive(w, i, NoFile, IF Exists("custom", i) THEN "unlink" ELSE "idle")

\* ... else unlink, which fails when the file has gone in the meantime.
Unlink(w) ==
  /\ studioPc[w] = "unlink"
  /\ disk' = [disk EXCEPT !["custom"][rule[w]] = NoFile]
  /\ writer' = [writer EXCEPT ![rule[w]] = NoRequest]
  /\ course' = Crossing(Processes, rule[w])
  /\ Judge(w, IF Exists("custom", rule[w]) THEN "accepted" ELSE "rejected")
  /\ UNCHANGED <<temp, litter, req, rule, body, shown, reqs, fileFaults>>

\* Any other OSError is a 500 as well.
UnlinkRaises(w) ==
  /\ FileFault
  /\ studioPc[w] = "unlink"
  /\ Judge(w, "rejected")
  /\ UNCHANGED <<disk, temp, litter, req, rule, body, shown, writer, course, reqs>>
--------------------------------------------------------------------------
(* Around the API.                                                         *)

\* An operator edits a file by hand.
Edit ==
  /\ FileFault
  /\ \E dir \in Dirs, i \in Ids, d \in HandWritten \cup {NoFile} :
       /\ disk' = [disk EXCEPT ![dir][i] = d]
       /\ writer' = IF dir = "custom" THEN [writer EXCEPT ![i] = NoRequest] ELSE writer
       /\ course' = IF dir = "custom" THEN Crossing(Processes, i) ELSE course
  /\ UNCHANGED <<temp, litter, studioPc, req, rule, body, verdict, shown, reqs>>

\* A worker is killed; its temporary file stays.
Kill(w) ==
  /\ FileFault
  /\ studioPc[w] # "idle"
  /\ Judge(w, "lost")
  /\ litter' = litter \cup ({temp[w]} \ {NoFile})
  /\ temp' = [temp EXCEPT ![w] = NoFile]
  /\ UNCHANGED <<disk, req, rule, body, shown, writer, course, reqs>>

StudioNext ==
  \/ Edit
  \/ \E w \in Processes :
       \/ Create(w) \/ Update(w) \/ Delete(w)
       \/ MakeTemp(w) \/ WriteTemp(w) \/ WriteRaises(w) \/ Replace(w)
       \/ Parse(w) \/ Answer(w)
       \/ Unlink(w) \/ UnlinkRaises(w) \/ Kill(w)

StudioSpec == StudioInit /\ [][StudioNext]_studioVars
--------------------------------------------------------------------------
(* What the readers see.                                                   *)

Files(dirs) == {f \in [dir : dirs, id : Ids, doc : Docs \cup {Torn}] : disk[f.dir][f.id] = f.doc}

\* Mutant of Walked: the temporary files end in .yml.
WalkedTemp(dirs) ==
  Files(dirs) \cup {[dir |-> "custom", id |-> "temp", doc |-> t] :
                      t \in (litter \cup {temp[w] : w \in Processes}) \ {NoFile}}

\* rglob("*.yml"): a temporary file ends in .tmp and is passed over.
Walked(dirs) == Files(dirs)

\* POST {rule_id}/test: custom before built-in, the same loader and matcher.
Bench(i, e) ==
  LET d == Detail(i) IN
  IF d = NoFile THEN "refused"
  ELSE IF d.defects \cap {"yaml", "mapping"} # {} THEN "refused"
  ELSE IF Compile(d) = "ok" THEN Matches(d, e) ELSE Compile(d)

\* What fires in production.  The detector runner hands the rules_dir setting,
\* a str, to load_rules_from_dir, whose first call raises AttributeError: no
\* rule is loaded, whatever the directories hold.
EngineFires(e) == {}
--------------------------------------------------------------------------
(* Properties.                                                             *)

\* "a concurrent reader never sees a half-written file": whatever is killed or
\* fails while writing, each file a walk picks up is a whole document.
WholeFiles == \A f \in Walked(Dirs) : f.doc # Torn

\* "it REJECTS malformed input": a custom rule whose last writer was answered
\* with success is on disk as submitted and compiles, also when two workers
\* have written the same id at the same time.
AcceptedCompiles ==
  \A i \in Ids :
    writer[i] # NoRequest /\ verdict[writer[i]] = "accepted" =>
      /\ disk["custom"][i] = body[writer[i]]
      /\ Compile(disk["custom"][i]) = "ok"

\* create_rule and update_rule answer for the rule they wrote: unless its file
\* was changed once more before the answer, a rule is accepted exactly when it
\* compiles and can be shown, and the answer shows it - never the built-in it
\* overrides, the file that was there before, or the verdict on either.
AnswerIsOwn ==
  \A r \in Requests :
    course[r] = "alone" /\ verdict[r] \in {"accepted", "rejected"} =>
      /\ verdict[r] = "accepted" <=>
           Compile(body[r]) = "ok" /\ body[r].defects \cap Unshowable = {}
      /\ verdict[r] = "accepted" => shown[r] = body[r]

\* ADR-010: what matches() decides key by key and pattern by pattern is the
\* formula the condition stands for; it says yes only where every named filter
\* is known and every required field is there.  It raises only for a rule whose
\* condition names a block with something that raises.
MatchIsReference ==
  \A f \in Loaded(Walked(Dirs)), e \in SampleEvents :
    LET answer == Matches(f.doc, e) IN
    /\ answer # "raises" => (answer = "yes" <=> Reference(f.doc, e))
    /\ answer = "raises" => MayRaise(f.doc)
--------------------------------------------------------------------------
(* What the documentation says and TLC refutes.                            *)

\* "Round-trip through the runtime loader to catch any compile error before we
\* touch disk" (create_rule).  The file is in place before it is compiled and
\* stays there when it is rejected.
RejectedIsNotOnDisk ==
  \A i \in Ids : writer[i] # NoRequest => verdict[writer[i]] # "rejected"

\* What create_rule answers is the rule that was submitted, whoever else writes.
AnswerIsAlwaysOwn ==
  \A r \in Requests : verdict[r] = "accepted" /\ shown[r] # NoFile => shown[r] = body[r]

\* "one bad rule shouldn't take down the whole engine" (load_rules_from_dir).
\* A count that is no number raises ValueError out of the walk.
WalkSurvives == ~LoadRaises(Walked(Dirs))

\* "a rule that passes the bench will behave identically in production".  The
\* engine loads no rule.
BenchIsProduction ==
  \A i \in Ids, e \in SampleEvents :
    Bench(i, e) \in {"yes", "no"} => (Bench(i, e) = "yes" <=> i \in EngineFires(e))

\* "same matching, no alerts, no actions" (api/v1/hunt.py).  A hunt fills in
\* four fields, which required_fields and filters then find.
HuntIsLive ==
  \A f \in Loaded(Walked(Dirs)), e \in SampleEvents :
    (Matches(f.doc, HuntEvent(e)) = "yes") = (Matches(f.doc, e) = "yes")
=============================================================================
