---------------------------- MODULE Containment ----------------------------
(***************************************************************************)
(* The time-limited response actions of an agent: tarpit_ip and            *)
(* isolate_host (internal/response/kinds/ttl_actions.go) insert an nft     *)
(* rule and start a goroutine that removes it when the TTL has passed.     *)
(*                                                                         *)
(* Commands are handled one after the other by the read pump; the removing *)
(* goroutines run beside it and beside each other, and list the chain and  *)
(* delete from it in two nft calls.  A rule is named by the number of its  *)
(* command, which stands for its handle; nft insert puts a rule before the *)
(* others, so a chain is the set of its rules, listed from the highest     *)
(* number down.  The chains are kernel state, external to the agent, and   *)
(* survive it.  Targets are well-formed, and DryRun is off.                *)
(***************************************************************************)
EXTENDS Naturals

CONSTANTS
  Addresses,     \* targets of tarpit_ip
  HostIds,       \* targets of isolate_host
  PartOf,        \* pairs <<t, u>>: the text of t occurs in that of u, t # u
  TtlSecs,       \* ttl_sec of commands
  DefaultTtl,    \* TTL of a command that has none, per kind
  MaxTtl,        \* maxContainmentTTLSeconds
  MaxCommands,   \* bound: commands
  MaxTime,       \* bound: seconds
  MaxNftFaults   \* bound: failing nft calls, restarts

Kinds  == {"tarpit_ip", "isolate_host"}
Chains == {"input", "output"}
Targets == Addresses \cup HostIds

ContainmentConstants ==
  /\ Addresses \cap HostIds = {}
  /\ PartOf \subseteq Targets \X Targets /\ \A t \in Targets : <<t, t>> \notin PartOf
  /\ TtlSecs \subseteq Nat
  /\ DefaultTtl \in [Kinds -> Nat \ {0}]
  /\ {MaxTtl, MaxCommands, MaxTime, MaxNftFaults} \subseteq Nat

ASSUME ContainmentAssumption == ContainmentConstants

Commands == 1..MaxCommands

VARIABLES
  now,
  count,    \* commands handled
  cmd,      \* [kind, target, until, status] of each
  chain,    \* rules of each chain
  timer,    \* removeRuleAfter of each command
  listing,  \* what its nft list has printed
  clashed,  \* history: timers that found their rule deleted by another one
  nftFaults

ttlVars == <<now, count, cmd, chain, timer, listing, clashed, nftFaults>>

NoCommand == [kind |-> "none"]
Command == [kind : Kinds, target : Targets, until : 0..MaxTime, status : {"applied", "failed"}]

TtlTypeOK ==
  /\ now \in 0..MaxTime /\ count \in 0..MaxCommands /\ nftFaults \in 0..MaxNftFaults
  /\ cmd \in [Commands -> Command \cup {NoCommand}]
  /\ chain \in [Chains -> SUBSET Commands]
  /\ timer \in [Commands -> {"none", "waiting", "listed", "done", "lost"}]
  /\ listing \in [Commands -> SUBSET Commands]
  /\ clashed \subseteq Commands

TtlInit ==
  /\ now = 0 /\ count = 0 /\ nftFaults = 0
  /\ cmd = [n \in Commands |-> NoCommand]
  /\ chain = [c \in Chains |-> {}]
  /\ timer = [n \in Commands |-> "none"]
  /\ listing = [n \in Commands |-> {}]
  /\ clashed = {}

NftFault == nftFaults < MaxNftFaults /\ nftFaults' = nftFaults + 1

SecondPasses ==
  /\ now < MaxTime
  /\ now' = now + 1
  /\ UNCHANGED <<count, cmd, chain, timer, listing, clashed, nftFaults>>
--------------------------------------------------------------------------
(* Handle.                                                                 *)

\* A command without a TTL gets the default of its kind.
TtlOf(kind, sec) == IF sec = 0 THEN DefaultTtl[kind] ELSE sec

ChainOf(kind) == IF kind = "tarpit_ip" THEN "input" ELSE "output"
TargetsOf(kind) == IF kind = "isolate_host" THEN HostIds ELSE Addresses

\* The next command arrives and is answered.
Receive(kind, t, until, status) ==
  /\ count < MaxCommands
  /\ t \in TargetsOf(kind)
  /\ until <= MaxTime
  /\ count' = count + 1
  /\ cmd' = [cmd EXCEPT ![count + 1] =
               [kind |-> kind, target |-> t, until |-> until, status |-> status]]
  /\ UNCHANGED <<now, listing, clashed>>

\* tarpit_ip and isolate_host refuse a TTL beyond the maximum.
Refuse(kind, t, sec) ==
  /\ TtlOf(kind, sec) > MaxTtl
  /\ Receive(kind, t, 0, "failed")
  /\ UNCHANGED <<chain, timer, nftFaults>>

\* nft insert puts the rule before the others: it has the highest number.
Inserted(kind) == [chain EXCEPT ![ChainOf(kind)] = @ \cup {count + 1}]

\* The rule is inserted and its timer started.
InsertRule(kind, t, sec) ==
  /\ TtlOf(kind, sec) <= MaxTtl
  /\ Receive(kind, t, now + TtlOf(kind, sec), "applied")
  /\ chain' = Inserted(kind)
  /\ timer' = [timer EXCEPT ![count + 1] = "waiting"]
  /\ UNCHANGED <<nftFaults>>

TarpitIPWithTTL(t, sec)    == InsertRule("tarpit_ip", t, sec)
IsolateHostWithTTL(t, sec) == InsertRule("isolate_host", t, sec)

\* nft is missing, fails, or is killed by the time limit of the command when it has done
\* its work: the command fails, and no timer is started.
InsertFails(kind, t, sec) ==
  /\ NftFault
  /\ TtlOf(kind, sec) <= MaxTtl
  /\ Receive(kind, t, 0, "failed")
  /\ chain' \in {chain, Inserted(kind)}
  /\ UNCHANGED timer

HandleTtl ==
  \E t \in Targets, sec \in TtlSecs :
    \/ TarpitIPWithTTL(t, sec) \/ IsolateHostWithTTL(t, sec)
    \/ \E kind \in Kinds : Refuse(kind, t, sec) \/ InsertFails(kind, t, sec)
--------------------------------------------------------------------------
(* removeRuleAfter.                                                        *)

Due(n) == now >= cmd[n].until

RulesIn(n) == chain[ChainOf(cmd[n].kind)]

\* The timer fires, and the chain is listed.
List(n) ==
  /\ timer[n] = "waiting" /\ Due(n)
  /\ timer' = [timer EXCEPT ![n] = "listed"]
  /\ listing' = [listing EXCEPT ![n] = RulesIn(n)]
  /\ UNCHANGED <<now, count, cmd, chain, clashed, nftFaults>>

\* strings.Contains(line, comment): the rules of the same target, and those of
\* targets whose text has this one in it.
Mentions(n, m) ==
  \/ cmd[m].target = cmd[n].target
  \/ <<cmd[n].target, cmd[m].target>> \in PartOf

\* Mutant of Doomed: the loop goes on after a deletion.
DoomedAll(n) == {m \in listing[n] : Mentions(n, m)}

\* The first line with the comment, which is the newest such rule.
Doomed(n) ==
  {m \in listing[n] :
     /\ Mentions(n, m)
     /\ \A k \in listing[n] : k > m => ~Mentions(n, k)}

\* Mutant of Finish: the goroutine ends without having deleted anything.
FinishIdle(n) == UNCHANGED <<chain, clashed>>

\* nft delete by handle; a handle that is gone is an error, and the goroutine
\* ends all the same.
Finish(n) ==
  /\ chain' = [chain EXCEPT ![ChainOf(cmd[n].kind)] = @ \ Doomed(n)]
  /\ clashed' = IF Doomed(n) \subseteq RulesIn(n) THEN clashed ELSE clashed \cup {n}

Delete(n) ==
  /\ timer[n] = "listed"
  /\ Finish(n)
  /\ timer' = [timer EXCEPT ![n] = "done"]
  /\ listing' = [listing EXCEPT ![n] = {}]
  /\ UNCHANGED <<now, count, cmd, nftFaults>>

\* Either call fails or takes more than five seconds: the rule stays.
RemovalFails(n) ==
  /\ NftFault
  /\ \/ timer[n] = "waiting" /\ Due(n)
     \/ timer[n] = "listed"
  /\ timer' = [timer EXCEPT ![n] = "done"]
  /\ listing' = [listing EXCEPT ![n] = {}]
  /\ UNCHANGED <<now, count, cmd, chain, clashed>>

\* The timers live in the process, the rules in the kernel.
AgentStops ==
  /\ NftFault
  /\ timer' = [n \in Commands |-> IF timer[n] \in {"waiting", "listed"} THEN "lost" ELSE timer[n]]
  /\ listing' = [n \in Commands |-> {}]
  /\ UNCHANGED <<now, count, cmd, chain, clashed>>

Remove(n) == List(n) \/ Delete(n)

TtlNext ==
  \/ SecondPasses \/ HandleTtl \/ AgentStops
  \/ \E n \in Commands : Remove(n) \/ RemovalFails(n)

\* Time passes, timers fire, and the Go scheduler runs every goroutine.
TtlFairness == WF_ttlVars(SecondPasses) /\ \A n \in Commands : WF_ttlVars(Remove(n))

TtlSpec == TtlInit /\ [][TtlNext]_ttlVars
TtlFairSpec == TtlSpec /\ TtlFairness
--------------------------------------------------------------------------
(* Properties.                                                             *)

Ruled(t) == \E c \in Chains : \E m \in chain[c] : cmd[m].target = t

\* Addresses in whose text another one does not occur.
Unshadowed == {t \in Targets : \A u \in Targets : <<u, t>> \notin PartOf}

\* A target is contained for as long as any of its TTLs runs, although the
\* timer of a shorter one removes the rule of a longer one, and whatever fails
\* or restarts; what another address occurs in may lose its rule to the timer
\* of that one, but its chain is not empty.
ContainedWhileTtl ==
  \A n \in Commands :
    cmd[n] # NoCommand /\ cmd[n].status = "applied" /\ now < cmd[n].until =>
      /\ RulesIn(n) # {}
      /\ cmd[n].target \in Unshadowed => Ruled(cmd[n].target)

\* Targets whose text has nothing in common with another one's.
Apart == {t \in Targets : \A u \in Targets : <<u, t>> \notin PartOf /\ <<t, u>> \notin PartOf}

\* "the rule is removed when ttl expires": a target whose text has nothing in
\* common with another one's is free of rules in the end, however many
\* commands there were for it, unless a call failed, the agent restarted, or
\* two timers have picked the same rule.
ExpiredIsReleased ==
  \A t \in Apart : Ruled(t) ~> (~Ruled(t) \/ nftFaults > 0 \/ clashed # {})

\* What of that needs no fairness: under the same conditions, a target whose
\* timers have all ended has no rule.
DoneIsReleased ==
  nftFaults = 0 /\ clashed = {} =>
    \A t \in Apart :
      (\A n \in Commands :
         cmd[n] # NoCommand /\ cmd[n].target = t => timer[n] \in {"none", "done"})
        => ~Ruled(t)
--------------------------------------------------------------------------
(* What the comments say and TLC refutes.                                  *)

\* "Unlike block_ip, the rule is removed when ttl expires" (kinds.go): without
\* a fault, no rule is left when its timers have ended.  Two timers of one
\* target that list the chain before either deletes pick the same rule; and
\* the timer of 10.0.0.1 takes the rule of 10.0.0.10.
RemovedAtExpiry ==
  nftFaults = 0 =>
    \A t \in Targets :
      (\A n \in Commands : cmd[n] # NoCommand /\ cmd[n].target = t => timer[n] = "done")
        => ~Ruled(t)

\* The same timer ends the containment of 10.0.0.10 before its TTL.
AllContainedWhileTtl ==
  \A n \in Commands :
    cmd[n] # NoCommand /\ cmd[n].status = "applied" /\ now < cmd[n].until =>
      Ruled(cmd[n].target)
=============================================================================
