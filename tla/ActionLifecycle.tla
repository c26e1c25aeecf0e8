------------------------- MODULE ActionLifecycle -------------------------
(***************************************************************************)
(* What the server promises about one response action, whatever happens to *)
(* the connections, the processes and the agent: the life cycle in the     *)
(* header of detectors/action_service.py.  An action is written once, in   *)
(* state pending; a command frame takes it to dispatched; the agent's      *)
(* acknowledgement closes it as applied or failed; and it is closed as     *)
(* applied only if the agent carried it out: the function of its kind      *)
(* answered with success, which for a strict kind means that the action    *)
(* took effect on the host.                                                *)
(***************************************************************************)
CONSTANTS Actions,     \* the rows of the actions table
          Strict       \* the actions whose success means that they took effect

VARIABLES status,      \* status[a]: "absent" until the row is inserted
          everRun,     \* the actions an agent has carried out with success
          effect       \* those of them that took effect on their host

vars == <<status, everRun, effect>>

Status == {"absent", "pending", "dispatched", "applied", "failed"}

Init ==
  /\ status = [a \in Actions |-> "absent"]
  /\ everRun = {}
  /\ effect = {}

Move(a, from, to) ==
  /\ status[a] = from
  /\ status' = [status EXCEPT ![a] = to]
  /\ UNCHANGED <<everRun, effect>>

Create(a)   == Move(a, "absent", "pending")
Dispatch(a) == Move(a, "pending", "dispatched")
Fail(a)     == Move(a, "dispatched", "failed")
Apply(a)    == /\ a \in everRun
               /\ a \in Strict => a \in effect
               /\ Move(a, "dispatched", "applied")

\* The agent carries the action out.  Nothing ties this to the row's state:
\* the frame may arrive late, twice, or after the row was closed as failed.
Run(a) ==
  /\ status[a] # "absent"
  /\ everRun' = everRun \cup {a}
  /\ \/ effect' = effect \cup {a}
     \/ a \notin Strict /\ UNCHANGED effect
  /\ UNCHANGED status

Next == \E a \in Actions :
          Create(a) \/ Dispatch(a) \/ Fail(a) \/ Apply(a) \/ Run(a)

Spec == Init /\ [][Next]_vars
==========================================================================
