------------------------------ MODULE LabSession ------------------------------
(***************************************************************************)
(* A lab from reservation to release, as the central API runs it:          *)
(*   central/src/api/reservations_routes.py   the reservation handlers      *)
(*   central/src/api/lab_yaml_routes.py       the sandbox editor            *)
(*   central/src/api/admin_lab_controls_routes.py, services/sandbox_labs.py,*)
(*   services/lab_locks.py                    the admin's flags             *)
(*   central/src/services/collector.py        the calls to the vm-agent     *)
(*                                                                         *)
(* The handlers share one event loop, so a handler runs alone up to its    *)
(* await.  Two of them await the agent for minutes: the release of a       *)
(* modified sandbox (reset, then release) and the sandbox apply; each is   *)
(* split at the await.  The agent runs the operations of one lab under the *)
(* lab's lock, in any order; it goes on when the central stops waiting.    *)
(*                                                                         *)
(* Data abstraction.  What runs on a lab is the original or the edit of a  *)
(* user, the edit as soon as one node of it runs; SandboxAgent opens up the*)
(* agent's operations, with their failures and the admin's updates.        *)
(* Two operations that change a lab are a redeployment apart, so the       *)
(* answers about one lab arrive in the order the agent gives them.         *)
(***************************************************************************)
EXTENDS Reservations, Sequences

CONSTANTS
    Admins,        \* users whose role is admin
    Manages,       \* <<g, u>>: group-admin g can manage user u
    Original,      \* the topology the admin set up
    MaxAbandoned,  \* bound: operations whose callers timed out, at a time
    SandboxTurnedOff \* whether the admin may turn sandbox mode off

ASSUME SessionAssumption ==
    /\ Admins \subseteq Users
    /\ Manages \subseteq Users \X Users
    /\ Original \notin Users
    /\ MaxAbandoned \in Nat /\ SandboxTurnedOff \in BOOLEAN

VARIABLES
    enabled,  \* sandbox_labs "labs": sandbox mode is on
    modified, \* sandbox_labs "modified": a reset is due at release
    locked,   \* lab_locks
    call,     \* call[u]: the agent call that user u's handler awaits
    agent,    \* operations the agent has accepted and not finished
    answers,  \* answers[l]: finished operations whose handlers have not resumed
    deployed, \* deployed[l]: what runs on the agent
    lost      \* history: labs of which the central lost track

sandboxVars == <<enabled, modified, locked, call, agent, answers, deployed, lost>>
vars == <<res, now, sandboxVars>>

Kinds == {"reset", "apply"}
NoCall == [kind |-> "none"]
Call == [kind : Kinds \cup {"probe"}, lab : Labs]
Operation == [kind : Kinds, lab : Labs, user : Users, awaited : BOOLEAN]
Answer == [kind : Kinds, user : Users, ok : BOOLEAN, changed : BOOLEAN]

-----------------------------------------------------------------------------
(* Who may do what.                                                        *)

\* delete_lab_reservation: the owner, a group-admin for the users of the
\* group, an admin.
MayRelease(u, e) == u \in Admins \/ e.owner = u \/ <<u, e.owner>> \in Manages

\* The other handlers know owner and admin only.
MayManage(u, e) == u \in Admins \/ e.owner = u

\* _require_sandbox_editor: the reservation get_reservation returns is the
\* user's, or the user is an admin.
MayEdit(u, l) == u \in Admins \/ \E e \in LatestActive(l) : e.owner = u

\* _require_lock_override_for_non_admin
LockAllows(u, l) == u \in Admins \/ ~locked[l]

InFlight(l) == {u \in Users : call[u] # NoCall /\ call[u].lab = l}

-----------------------------------------------------------------------------
SessionInit ==
    /\ res = {} /\ now = 0
    /\ enabled \in [Labs -> BOOLEAN]
    /\ modified = [l \in Labs |-> FALSE]
    /\ locked = [l \in Labs |-> FALSE]
    /\ call = [u \in Users |-> NoCall]
    /\ agent = {}
    /\ answers = [l \in Labs |-> <<>>]
    /\ deployed = [l \in Labs |-> Original]
    /\ lost = {}

(* The handlers that never await the agent.                                *)

Reserve(u, l, s, h) == ReserveLab(u, l, s, h) /\ UNCHANGED sandboxVars

Cancel(u, l, i) ==
    /\ \E e \in ScheduledOn(l) : e.id = i /\ MayManage(u, e)
    /\ CancelScheduled(l, i)
    /\ UNCHANGED sandboxVars

Move(u, l, i, s, h) ==
    /\ \E e \in ScheduledOn(l) : e.id = i /\ MayManage(u, e)
    /\ UpdateScheduled(l, i, s, h)
    /\ UNCHANGED sandboxVars

Extend(u, l, a) ==
    /\ \E e \in LatestActive(l) : MayManage(u, e)
    /\ ExtendReservation(l, a)
    /\ UNCHANGED sandboxVars

\* delete_lab_reservation when no reset is due.
Release(u, l) ==
    /\ \E e \in LatestActive(l) : MayRelease(u, e)
    /\ ~(enabled[l] /\ modified[l])
    /\ ReleaseLab(l)
    /\ UNCHANGED sandboxVars

\* admin_toggle_sandbox_lab: turning the mode off forgets the modified flag.
SetEnabled(l, b) ==
    /\ b \/ SandboxTurnedOff
    /\ enabled' = [enabled EXCEPT ![l] = b]
    /\ modified' = [modified EXCEPT ![l] = @ /\ b]
    /\ lost' = IF ~b /\ (modified[l] \/ InFlight(l) # {}) THEN lost \cup {l} ELSE lost
    /\ UNCHANGED <<resVars, locked, call, agent, answers, deployed>>

\* admin_toggle_lab_lock
SetLocked(l, b) ==
    /\ locked' = [locked EXCEPT ![l] = b]
    /\ UNCHANGED <<resVars, enabled, modified, call, agent, answers, deployed, lost>>

-----------------------------------------------------------------------------
(* The handlers that await the agent.                                      *)

\* The handler's get_reservation has pruned the store when it suspends.
Suspend(u, kind, l) ==
    /\ call[u] = NoCall
    /\ call' = [call EXCEPT ![u] = [kind |-> kind, lab |-> l]]
    /\ agent' = agent \cup {[kind |-> kind, lab |-> l, user |-> u, awaited |-> TRUE]}
    /\ res' = Unexpired

\* delete_lab_reservation up to "await reset_sandbox_lab".
ReleaseWithResetMutant(u, l) ==
    /\ \E e \in LatestActive(l) : MayRelease(u, e)
    /\ enabled[l] /\ modified[l]
    /\ LockAllows(u, l)
    /\ Suspend(u, "reset", l)
    /\ modified' = [modified EXCEPT ![l] = FALSE]
    /\ UNCHANGED <<now, enabled, locked, answers, deployed, lost>>

ReleaseWithReset(u, l) ==
    /\ \E e \in LatestActive(l) : MayRelease(u, e)
    /\ enabled[l] /\ modified[l]
    /\ LockAllows(u, l)
    /\ Suspend(u, "reset", l)
    /\ UNCHANGED <<now, enabled, modified, locked, answers, deployed, lost>>

\* update_sandbox_yaml with apply = True, up to "await submit_sandbox_yaml";
\* the cached resources of the vm say that the topology fits.
ApplySandbox(u, l) ==
    /\ enabled[l]
    /\ MayEdit(u, l)
    /\ LockAllows(u, l)
    /\ Suspend(u, "apply", l)
    /\ UNCHANGED <<now, enabled, modified, locked, answers, deployed, lost>>

\* Without cached resources the handler awaits fetch_agent_state first.
ProbeCapacity(u, l) ==
    /\ enabled[l]
    /\ MayEdit(u, l)
    /\ LockAllows(u, l)
    /\ call[u] = NoCall
    /\ call' = [call EXCEPT ![u] = [kind |-> "probe", lab |-> l]]
    /\ res' = Unexpired
    /\ UNCHANGED <<now, enabled, modified, locked, agent, answers, deployed, lost>>

\* It then refuses for lack of capacity, or submits; it checks nothing again.
Submit(u) ==
    /\ call[u] # NoCall /\ call[u].kind = "probe"
    /\ \/ call' = [call EXCEPT ![u] = NoCall] /\ UNCHANGED agent
       \/ /\ call' = [call EXCEPT ![u].kind = "apply"]
          /\ agent' = agent \cup {[kind |-> "apply", lab |-> call[u].lab,
                                   user |-> u, awaited |-> TRUE]}
    /\ UNCHANGED <<resVars, enabled, modified, locked, answers, deployed, lost>>

\* The rest of delete_lab_reservation.  On success it releases whatever
\* reservation is the first active one by now; on failure it keeps it.
ResumeReleaseMutant(u, l, a) ==   \* the 404 of a vanished reservation is lost
    IF a.ok
    THEN modified' = [modified EXCEPT ![l] = FALSE] /\ ReleaseLab(l)
    ELSE UNCHANGED <<modified, resVars>>

ResumeRelease(u, l, a) ==
    IF a.ok
    THEN /\ modified' = [modified EXCEPT ![l] = FALSE]
         /\ IF FirstActive(l) # {} THEN ReleaseLab(l) ELSE UNCHANGED resVars
    ELSE UNCHANGED <<modified, resVars>>

\* The rest of update_sandbox_yaml: the flag is set when the agent reports a
\* change.
ResumeApplyMutant(u, l, a) ==
    /\ modified' = [modified EXCEPT ![l] = a.ok /\ a.changed]
    /\ UNCHANGED resVars

ResumeApply(u, l, a) ==
    /\ modified' = [modified EXCEPT ![l] = @ \/ (a.ok /\ a.changed)]
    /\ UNCHANGED resVars

\* The event loop resumes the handler of the oldest answer about a lab.
Resume(l) ==
    /\ answers[l] # <<>>
    /\ LET a == Head(answers[l]) IN
        /\ call' = [call EXCEPT ![a.user] = NoCall]
        /\ \/ a.kind = "reset" /\ ResumeRelease(a.user, l, a)
           \/ a.kind = "apply" /\ ResumeApply(a.user, l, a)
    /\ answers' = [answers EXCEPT ![l] = Tail(@)]
    /\ UNCHANGED <<enabled, locked, agent, deployed, lost>>

\* httpx.TimeoutException: the handler answers 504 and changes nothing; the
\* agent still has the operation.
Timeout(op) ==
    /\ op.awaited
    /\ Cardinality({o \in agent : ~o.awaited}) < MaxAbandoned
    /\ [op EXCEPT !.awaited = FALSE] \notin agent
    /\ agent' = (agent \ {op}) \cup {[op EXCEPT !.awaited = FALSE]}
    /\ call' = [call EXCEPT ![op.user] = NoCall]
    /\ lost' = IF op.kind = "apply" THEN lost \cup {op.lab} ELSE lost
    /\ UNCHANGED <<resVars, enabled, modified, locked, answers, deployed>>

-----------------------------------------------------------------------------
(* The agent (external to this module; see SandboxAgent).                  *)

\* An edit of the lab may still come.
EditUnderWay(l) ==
    \/ \E op \in agent : op.kind = "apply" /\ op.lab = l
    \/ \E u \in InFlight(l) : call[u].kind # "reset"

Answered(op, ok, changed) ==
    /\ agent' = agent \ {op}
    /\ answers' =
        IF op.awaited
        THEN [answers EXCEPT ![op.lab] =
                Append(@, [kind |-> op.kind, user |-> op.user, ok |-> ok, changed |-> changed])]
        ELSE answers
    /\ UNCHANGED <<resVars, enabled, modified, locked, call>>

\* A failed operation deploys what ran before once more, and that may fail too
\* ("rollback incomplet"): it may leave what it was to deploy.
AgentFails(op, left) ==
    /\ Answered(op, FALSE, FALSE)
    /\ left \in {deployed[op.lab], Original} \/ (op.kind = "apply" /\ left = op.user)
    /\ deployed' = [deployed EXCEPT ![op.lab] = left]
    /\ lost' = IF deployed[op.lab] = Original /\ left # Original
               THEN lost \cup {op.lab} ELSE lost

AgentResets(op) ==
    /\ op.kind = "reset"
    /\ Answered(op, TRUE, FALSE)
    /\ deployed' = [deployed EXCEPT ![op.lab] = Original]
    /\ lost' = IF EditUnderWay(op.lab) THEN lost ELSE lost \ {op.lab}

\* A user submits an edit or the original, and it is deployed.
AgentApplies(op, submitted) ==
    /\ op.kind = "apply"
    /\ submitted # Original \/ deployed[op.lab] # Original
    /\ Answered(op, TRUE, TRUE)
    /\ deployed' = [deployed EXCEPT ![op.lab] = submitted]
    /\ UNCHANGED lost

\* What the topology file holds already is not deployed again, whatever runs.
AgentKeeps(op) ==
    /\ op.kind = "apply"
    /\ Answered(op, TRUE, FALSE)
    /\ UNCHANGED <<deployed, lost>>

AgentRuns(op) ==
    \/ AgentResets(op)
    \/ AgentKeeps(op)
    \/ \E left \in Users \cup {Original} : AgentFails(op, left)
    \/ \E submitted \in {op.user, Original} : AgentApplies(op, submitted)

-----------------------------------------------------------------------------
SessionNext ==
    \/ (Tick \/ Prune) /\ UNCHANGED sandboxVars
    \/ \E u \in Users, l \in Labs :
        \/ \E s \in 0 .. Horizon, h \in 1 .. MaxHours : Reserve(u, l, s, h)
        \/ \E i \in Ids : Cancel(u, l, i)
        \/ \E i \in Ids, s \in 0 .. Horizon, h \in 1 .. MaxHours : Move(u, l, i, s, h)
        \/ \E a \in 1 .. MaxTotalHours : Extend(u, l, a)
        \/ Release(u, l)
        \/ ReleaseWithReset(u, l)
        \/ ApplySandbox(u, l)
        \/ ProbeCapacity(u, l)
    \/ \E l \in Labs, b \in BOOLEAN : SetEnabled(l, b) \/ SetLocked(l, b)
    \/ \E u \in Users : Submit(u)
    \/ \E l \in Labs : Resume(l)
    \/ \E op \in agent : Timeout(op) \/ AgentRuns(op)

\* An awaited call ends by the agent's answer or by the httpx timeout, and the
\* event loop resumes the handlers whose answers are there.
Fairness ==
    /\ \A u \in Users :
          WF_vars(\E op \in agent :
                    op.user = u /\ op.awaited /\ (AgentRuns(op) \/ Timeout(op)))
    /\ \A u \in Users : WF_vars(Submit(u))
    /\ \A l \in Labs : WF_vars(Resume(l))

SessionSpec == SessionInit /\ [][SessionNext]_vars
FairSessionSpec == SessionSpec /\ Fairness

-----------------------------------------------------------------------------
(* Properties.                                                             *)

SessionTypeOK ==
    /\ TypeOK
    /\ enabled \in [Labs -> BOOLEAN] /\ modified \in [Labs -> BOOLEAN]
    /\ locked \in [Labs -> BOOLEAN]
    /\ call \in [Users -> Call \cup {NoCall}]
    /\ agent \subseteq Operation
    /\ answers \in [Labs -> Seq(Answer)]
    /\ deployed \in [Labs -> Users \cup {Original}]
    /\ lost \subseteq Labs

\* While no handler waits about a lab, an edited lab carries the modified flag,
\* so that the next release will reset it (set_modified in update_sandbox_yaml
\* and delete_lab_reservation).  The central loses track by giving up on an
\* apply, by turning the mode off over an edit, and by an apply that failed and
\* could not be rolled back, for which update_sandbox_yaml sets no flag; until
\* the next reset.
FlagCoversEdits ==
    \A l \in Labs \ lost : deployed[l] # Original /\ InFlight(l) = {} => modified[l]

\* A release that finds nobody else at work on a lab which the central has not
\* lost track of leaves it original, whether it awaits a reset or skips it
\* (delete_lab_reservation).
ReleaseLeavesOriginal ==
    [][\A l \in Labs \ lost :
          /\ \E e \in ActiveOn(l) : e.id \notin {f.id : f \in res'}
          /\ {f.id : f \in res'} \subseteq {e.id : e \in res}
          /\ InFlight(l)' = {}
          => deployed'[l] = Original]_vars

\* The reservation that a release removes after its reset is one that its
\* user may release ("Seul le proprietaire ou un admin peut liberer cette
\* reservation"), also where no second reservation is active to confuse it with.
ReleaseRemovesOwn ==
    [][\A l \in Labs :
          /\ answers[l] # <<>> /\ answers'[l] = Tail(answers[l])
          => \A e \in ActiveOn(l) :
                ActiveOn(l) = {e} /\ e \notin res' => MayRelease(Head(answers[l]).user, e)]_vars

\* "At the end of the reservation Lab is reset to original Topology and
\* configuration": the reset that the flag asks for when a reservation has
\* expired comes in the end, or the lab has its next holder by then (nothing
\* but delete_lab_reservation calls reset_sandbox_lab).
ExpiryResets ==
    \A l \in Labs :
        /\ l \notin lost /\ enabled[l] /\ modified[l] /\ InFlight(l) = {}
        /\ \E e \in res : e.lab = l /\ e.end < now
        ~> deployed[l] = Original \/ ActiveOn(l) # {}

\* Every suspended handler answers its user.
EveryCallReturns == \A u \in Users : call[u] # NoCall ~> call[u] = NoCall
=============================================================================
