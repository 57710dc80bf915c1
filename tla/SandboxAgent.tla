----------------------------- MODULE SandboxAgent -----------------------------
(***************************************************************************)
(* One lab on a vm-agent: the sandbox operations of                        *)
(* vm-agent/src/config_management_service.py, the lab commands of          *)
(* vm-agent/src/management/controller.py, and a crash of the agent.        *)
(*                                                                         *)
(* The agent serves each request in a thread of its own.  Apply and reset  *)
(* run for minutes under the lab's _sandbox_lock; the admin's topology     *)
(* update and the start and stop commands do not take it and land between  *)
(* any two of their steps.                                                 *)
(*                                                                         *)
(* Data abstraction.  A topology is a model value; the immutable parts     *)
(* that validation compares are the same in all of them.  The backups,     *)
(* which nothing reads, and the annotations are left out.  One containerlab*)
(* command is one step; a deployment that fails, or is killed after its 600*)
(* seconds, may leave any part of the lab running.  When containers of     *)
(* several topologies are left over, running is that of any one of them.   *)
(***************************************************************************)
EXTENDS Naturals

CONSTANTS
    Threads,   \* request threads that run apply or reset
    Edits,     \* topologies users submit
    AdminTopologies, \* topologies the admins set up
    Initial,   \* the one in place at first
    NoFile,    \* there is no baseline file
    Torn,      \* a file cut short by a crash
    Down,      \* the lab does not run
    Nobody,    \* the lock is free
    CrashesHappen \* whether the agent may die

Topologies == Edits \cup AdminTopologies

ASSUME AgentAssumption ==
    /\ Edits \cap AdminTopologies = {}
    /\ Initial \in AdminTopologies
    /\ {NoFile, Torn, Down} \cap Topologies = {}
    /\ Torn # NoFile /\ Torn # Down
    /\ Nobody \notin Threads
    /\ CrashesHappen \in BOOLEAN

VARIABLES
    file,     \* the lab's topology file
    baseline, \* its .sandbox-admin-baseline file
    running,  \* the topology its containers come from, or Down
    lock,     \* the thread that holds _sandbox_lock(lab)
    th        \* th[t]: the local state of a thread

vars == <<file, baseline, running, lock, th>>

\* "kept" is the local variable original (apply) or current_yaml (reset),
\* "text" the YAML that the thread is to deploy.
Idle(answer) == [pc |-> "idle", op |-> "none", text |-> NoFile, kept |-> NoFile,
                 answer |-> answer]

Pcs == {"idle", "lock", "baseline", "read", "destroy", "write", "annotate",
        "deploy", "retry", "restore", "rollback"}
Answers == {"none", "ok", "unchanged", "failed", "restored"}
Local == [pc : Pcs, op : {"none", "apply", "reset"},
          text : Topologies \cup {NoFile, Torn}, kept : Topologies \cup {NoFile, Torn},
          answer : Answers]

-----------------------------------------------------------------------------
At(t, pc) == th[t].pc = pc

Goto(t, pc) == th' = [th EXCEPT ![t].pc = pc]

\* The thread answers its request and leaves the "with lock" block.
Return(t, answer) == th' = [th EXCEPT ![t] = Idle(answer)] /\ lock' = Nobody

AgentInit ==
    /\ file = Initial /\ baseline = NoFile /\ running \in {Initial, Down}
    /\ lock = Nobody
    /\ th = [t \in Threads |-> Idle("none")]

\* A request reaches lab_sandbox_yaml (apply) or lab_sandbox_reset.
Request(t, op, text) ==
    /\ At(t, "idle")
    /\ \/ op = "apply" /\ text \in Topologies
       \/ op = "reset" /\ text = NoFile
    /\ th' = [th EXCEPT ![t] = [pc |-> "lock", op |-> op, text |-> text,
                                kept |-> NoFile, answer |-> "none"]]
    /\ UNCHANGED <<file, baseline, running, lock>>

\* with lock: apply then validates the submission, which may be refused.
AcquireMutant(t) ==
    /\ At(t, "lock") /\ lock = Nobody
    /\ lock' = t /\ Goto(t, "read")
    /\ UNCHANGED <<file, baseline, running>>

Acquire(t) ==
    /\ At(t, "lock") /\ lock = Nobody
    /\ \/ /\ lock' = t
          /\ Goto(t, IF th[t].op = "apply" THEN "baseline" ELSE "read")
       \/ /\ th[t].op = "apply"
          /\ Return(t, "failed")
    /\ UNCHANGED <<file, baseline, running>>

\* _ensure_sandbox_baseline
EnsureBaselineMutant(t) ==
    /\ At(t, "baseline")
    /\ baseline' = file
    /\ Goto(t, "read")
    /\ UNCHANGED <<file, running, lock>>

EnsureBaseline(t) ==
    /\ At(t, "baseline")
    /\ baseline' = IF baseline = NoFile THEN file ELSE baseline
    /\ Goto(t, "read")
    /\ UNCHANGED <<file, running, lock>>

\* apply_sandbox_topology_yaml reads the file and skips the redeployment of
\* an identical topology.
ReadOriginal(t) ==
    /\ At(t, "read") /\ th[t].op = "apply"
    /\ IF th[t].text = file
       THEN Return(t, "unchanged")
       ELSE /\ th' = [th EXCEPT ![t].kept = file, ![t].pc = "destroy"]
            /\ UNCHANGED lock
    /\ UNCHANGED <<file, baseline, running>>

\* reset_sandbox_lab_to_baseline refuses without a baseline.
LoadBaseline(t) ==
    /\ At(t, "read") /\ th[t].op = "reset"
    /\ IF baseline = NoFile
       THEN Return(t, "failed")
       ELSE /\ th' = [th EXCEPT ![t].kept = file, ![t].text = baseline, ![t].pc = "destroy"]
            /\ UNCHANGED lock
    /\ UNCHANGED <<file, baseline, running>>

\* stop_lab, the wait for teardown, the forced removal: containers may
\* survive all three, and both operations go on.
Destroy(t) ==
    /\ At(t, "destroy")
    /\ running' \in {Down, running}
    /\ Goto(t, "write")
    /\ UNCHANGED <<file, baseline, lock>>

WriteTopology(t) ==
    /\ At(t, "write")
    /\ file' = th[t].text
    /\ Goto(t, IF th[t].op = "apply" THEN "annotate" ELSE "deploy")
    /\ UNCHANGED <<baseline, running, lock>>

\* _write_node_positions_annotations may raise: the topology is written back
\* but the lab, destroyed by now, is not redeployed.
WriteAnnotationsMutant(t) ==   \* the topology is not written back
    /\ At(t, "annotate")
    /\ \/ Goto(t, "deploy") /\ UNCHANGED <<file, lock>>
       \/ Return(t, "failed") /\ UNCHANGED file
    /\ UNCHANGED <<baseline, running>>

WriteAnnotations(t) ==
    /\ At(t, "annotate")
    /\ \/ Goto(t, "deploy") /\ UNCHANGED <<file, lock>>
       \/ file' = th[t].kept /\ Return(t, "failed")
    /\ UNCHANGED <<baseline, running>>

\* containerlab deploy --reconfigure: whatever runs is replaced by what the
\* file holds.
Deployed(r) == file \in Topologies /\ r = file

\* A deployment that fails or times out ("Command timed out after 600s") may
\* have destroyed some of the lab and started some of the new one.
Broken(r) == r \in {Down, running} \cup ({file} \cap Topologies)

\* start_lab, and what follows its exit code.  A failure that names leftovers
\* (_should_retry_sandbox_deploy) is retried once after another destroy.
Deploy(t) ==
    /\ At(t, "deploy")
    /\ \/ Deployed(running') /\ Return(t, "ok")
       \/ Broken(running') /\ Goto(t, "retry") /\ UNCHANGED lock
       \/ Broken(running') /\ Goto(t, "restore") /\ UNCHANGED lock
    /\ UNCHANGED <<file, baseline>>

RetryMutant(t) ==
    /\ At(t, "retry")
    /\ \/ Deployed(running') /\ Return(t, "ok")
       \/ Broken(running') /\ Goto(t, "idle") /\ UNCHANGED lock
    /\ UNCHANGED <<file, baseline>>

Retry(t) ==
    /\ At(t, "retry")
    /\ \/ Deployed(running') /\ Return(t, "ok")
       \/ Broken(running') /\ Goto(t, "restore") /\ UNCHANGED lock
    /\ UNCHANGED <<file, baseline>>

\* topology_path.write_text(original) of the failed operation.
RestoreMutant(t) ==
    /\ At(t, "restore")
    /\ Goto(t, "rollback")
    /\ UNCHANGED <<file, baseline, running, lock>>

Restore(t) ==
    /\ At(t, "restore")
    /\ file' = th[t].kept
    /\ Goto(t, "rollback")
    /\ UNCHANGED <<baseline, running, lock>>

\* The rollback deployment, tried once.
RollbackMutant(t) ==
    /\ At(t, "rollback")
    /\ \/ Deployed(running') /\ Return(t, "ok")
       \/ Broken(running') /\ Return(t, "failed")
    /\ UNCHANGED <<file, baseline>>

Rollback(t) ==
    /\ At(t, "rollback")
    /\ \/ Deployed(running') /\ Return(t, "restored")
       \/ Broken(running') /\ Return(t, "failed")
    /\ UNCHANGED <<file, baseline>>

-----------------------------------------------------------------------------
(* What does not take the lock.                                            *)

\* update_lab_topology_yaml saves the admin's topology and redeploys nothing.
\* One that fails and writes the old text back counts as none.
AdminUpdate(y) ==
    /\ file' = y
    /\ UNCHANGED <<baseline, running, lock, th>>

\* lab_start: a plain deploy refuses a lab of which anything runs.
LabStart ==
    /\ running = Down
    /\ Deployed(running')
    /\ UNCHANGED <<file, baseline, lock, th>>

\* lab_stop, and the first half of lab_restart; not all may stop.
LabStop ==
    /\ running' \in {Down, running}
    /\ UNCHANGED <<file, baseline, lock, th>>

\* The agent dies and is restarted by systemd: the threads and the lock are
\* gone, the containerlab command of one is broken off, and a file that a thread
\* or an admin's update was writing may be cut short.
Crash ==
    /\ CrashesHappen
    /\ th' = [t \in Threads |-> Idle("none")]
    /\ lock' = Nobody
    /\ file' \in {file, Torn}
    /\ \/ UNCHANGED baseline
       \/ /\ baseline = NoFile /\ \E t \in Threads : At(t, "baseline")
          /\ baseline' = Torn
    /\ \/ UNCHANGED running
       \/ /\ \E t \in Threads : th[t].pc \in {"destroy", "deploy", "retry", "rollback"}
          /\ Broken(running')

-----------------------------------------------------------------------------
Step(t) ==
    \/ Acquire(t)
    \/ EnsureBaseline(t)
    \/ ReadOriginal(t)
    \/ LoadBaseline(t)
    \/ Destroy(t)
    \/ WriteTopology(t)
    \/ WriteAnnotations(t)
    \/ Deploy(t)
    \/ Retry(t)
    \/ Restore(t)
    \/ Rollback(t)

AgentNext ==
    \/ \E t \in Threads, op \in {"apply", "reset"}, y \in Topologies \cup {NoFile} :
          Request(t, op, y)
    \/ \E t \in Threads : Step(t)
    \/ \E y \in AdminTopologies : AdminUpdate(y)
    \/ LabStart
    \/ LabStop
    \/ Crash

\* What a thread does between stop_lab and the next deployment asks docker,
\* without a timeout (_list_lab_containers, _force_remove_lab_containers).
InDocker(t) == th[t].pc \in {"destroy", "retry"}

\* The containerlab commands have timeouts (120 s, 600 s for a deployment), so a
\* thread that holds the lock goes on unless docker keeps it waiting.
AgentSpec == AgentInit /\ [][AgentNext]_vars
FairAgentSpec ==
    AgentSpec /\ \A t \in Threads : WF_vars(lock = t /\ ~InDocker(t) /\ Step(t))

-----------------------------------------------------------------------------
(* Properties.                                                             *)

AgentTypeOK ==
    /\ file \in Topologies \cup {Torn}
    /\ baseline \in Topologies \cup {NoFile, Torn}
    /\ running \in Topologies \cup {Down}
    /\ lock \in Threads \cup {Nobody}
    /\ th \in [Threads -> Local]

\* The baseline that every reset goes back to is never a user's edit, however
\* applies, failures, admin updates and crashes follow each other
\* (_ensure_sandbox_baseline).
BaselineNeverEdit == baseline \notin Edits

\* Where a user's edit is in the file, runs, or is what a thread would restore,
\* a baseline exists: no edited lab is ever refused its reset for "Baseline
\* admin introuvable".
EditsHaveBaseline ==
    \/ file \in Edits
    \/ running \in Edits
    \/ \E t \in Threads : th[t].kept \in Edits
    => baseline # NoFile

Answering(t) == th[t].pc # "idle" /\ th'[t].pc = "idle"

\* An apply that fails does not leave its edit behind: the file no longer
\* holds it, and where the rollback is reported as done it does not run
\* ("rollback OK, lab restauré").
FailedEditWithdrawn ==
    [][\A t \in Threads :
          /\ Answering(t) /\ th[t].op = "apply" /\ th[t].text \in Edits
          /\ th[t].kept # NoFile
          => /\ th'[t].answer \in {"failed", "restored"} => file' # th[t].text
             /\ th'[t].answer = "restored" => running' # th[t].text]_vars

\* A reset that answers ok leaves no edit, in the file or running, whatever
\* was started, stopped or updated while it ran.
ResetRemovesEdits ==
    [][\A t \in Threads :
          Answering(t) /\ th[t].op = "reset" /\ th'[t].answer = "ok" =>
              file' \notin Edits /\ running' \notin Edits]_vars

\* Seen from outside, an operation happens at its answer: while it replaces the
\* topology the lab still has the one it would restore.
Replacing(t) == th[t].pc \in {"destroy", "write", "annotate", "deploy", "retry", "restore"}

Settled == IF lock \in Threads /\ Replacing(lock) THEN th[lock].kept ELSE file

Client == [t \in Threads |->
              [op |-> th[t].op, answer |-> th[t].answer,
               text |-> IF th[t].op = "apply" THEN th[t].text ELSE NoFile]]

Abstract == INSTANCE AtomicLab WITH topology <- Settled, client <- Client

\* Applies and resets change the topology at their answers or, failing, not at
\* all, and run what they answer; before that only a crash, or a start in the
\* middle, can show what they write (the lab's lock in
\* apply_sandbox_topology_yaml and reset_sandbox_lab_to_baseline, which the
\* admin's update does not take).  What runs after a failure is any part of what
\* the operation met ("rollback incomplet, vérifier l'état du lab").
LabIsAtomic == Abstract!LabSpec

\* Whatever fails under it, an operation lets go of the lab's lock in the end,
\* provided that docker does not keep it waiting for ever.
LockIsFreed ==
    \A t \in Threads : []<>~InDocker(t) => (lock = t ~> lock # t)

=============================================================================
