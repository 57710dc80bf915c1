---------------------------- MODULE Provisioning ----------------------------
(***************************************************************************)
(* The central's jobs that install the agent on a vm                       *)
(* (central/src/services/provisioning.py): a dictionary of jobs and a      *)
(* thread for each, which runs deploy-over-ssh.sh and copies its output.   *)
(* The script is a process of its own and may outlive the thread; it works *)
(* on the machine whose address the vm had when it was asked for, while    *)
(* the registry (VmRegistry, here without subnets) moves on.               *)
(***************************************************************************)
EXTENDS Naturals, Sequences, SequencesExt

CONSTANTS
    Vms,
    Machines,         \* addresses of vms
    ProvisionJobs,    \* job ids
    MaxProvisionJobs  \* _MAX_JOBS

ASSUME ProvisionAssumption == MaxProvisionJobs \in Nat \ {0}

VARIABLES
    address,  \* the machine registered under each id, or "none"
    jobs,     \* _JOBS: the ids it holds, oldest first
    target,   \* job.vm_id
    machine,  \* the machine each job was started for
    state,    \* job.status
    scripts   \* the jobs whose script is running

dictVars == <<jobs, target, machine, state, scripts>>
provisionVars == <<address, dictVars>>

ProvisionInit ==
    /\ address \in [Vms -> Machines \cup {"none"}]   \* as config.yaml has it
    /\ jobs = <<>>
    /\ target = [j \in ProvisionJobs |-> "none"]
    /\ machine = [j \in ProvisionJobs |-> "none"]
    /\ state = [j \in ProvisionJobs |-> "unused"]
    /\ scripts = {}

ActiveFor(v) == \E j \in ToSet(jobs) : target[j] = v /\ state[j] \in {"pending", "running"}

Registered(v) == address[v] # "none"

\* POST /api/admin/vms; nothing keeps two ids from having one address.
EnterVm(v, m) ==
    /\ ~Registered(v)
    /\ address' = [address EXCEPT ![v] = m]
    /\ UNCHANGED dictVars

\* PATCH /api/admin/vms/{v}: a new id w, or w = v, and an address.
ChangeVm(v, w, m) ==
    /\ Registered(v)
    /\ w = v \/ ~Registered(w)
    /\ address' = [address EXCEPT ![v] = "none", ![w] = m]
    /\ UNCHANGED dictVars

\* DELETE /api/admin/vms/{v}, also while it is provisioned
RemoveVm(v) ==
    /\ Registered(v)
    /\ address' = [address EXCEPT ![v] = "none"]
    /\ UNCHANGED dictVars

\* admin_provision_vm and start_provision_job, the latter under the lock: one
\* job per id; past the limit the oldest is dropped, running or not.
StartProvisionMutant(j, v) ==   \* only a job that has started counts as active
    /\ Registered(v) /\ state[j] = "unused"
    /\ ~\E i \in ToSet(jobs) : target[i] = v /\ state[i] = "running"
    /\ jobs' = IF Len(jobs) < MaxProvisionJobs THEN Append(jobs, j) ELSE Tail(Append(jobs, j))
    /\ target' = [target EXCEPT ![j] = v]
    /\ machine' = [machine EXCEPT ![j] = address[v]]
    /\ state' = [state EXCEPT ![j] = "pending"]
    /\ UNCHANGED <<address, scripts>>

StartProvision(j, v) ==
    /\ Registered(v) /\ state[j] = "unused"
    /\ ~ActiveFor(v)
    /\ jobs' = IF Len(jobs) < MaxProvisionJobs THEN Append(jobs, j) ELSE Tail(Append(jobs, j))
    /\ target' = [target EXCEPT ![j] = v]
    /\ machine' = [machine EXCEPT ![j] = address[v]]
    /\ state' = [state EXCEPT ![j] = "pending"]
    /\ UNCHANGED <<address, scripts>>

\* _run_provision: the thread begins ...
ThreadBegins(j) ==
    /\ state[j] = "pending"
    /\ state' = [state EXCEPT ![j] = "running"]
    /\ UNCHANGED <<address, jobs, target, machine, scripts>>

\* ... starts the script ...
ScriptStarts(j) ==
    /\ state[j] = "running" /\ j \notin scripts
    /\ scripts' = scripts \cup {j}
    /\ UNCHANGED <<address, jobs, target, machine, state>>

\* ... and takes its return code, which waits for the script to end.
ScriptEnds(j) ==
    /\ state[j] = "running" /\ j \in scripts
    /\ \E outcome \in {"success", "error"} : state' = [state EXCEPT ![j] = outcome]
    /\ scripts' = scripts \ {j}
    /\ UNCHANGED <<address, jobs, target, machine>>

\* An exception before the script, or while its output is read: the job is over,
\* nobody stops the script.
ThreadFails(j) ==
    /\ state[j] = "running"
    /\ state' = [state EXCEPT ![j] = "error"]
    /\ UNCHANGED <<address, jobs, target, machine, scripts>>

ScriptLeftEndsMutant(j) ==   \* the thread goes on and overwrites the error
    /\ j \in scripts /\ state[j] # "running"
    /\ scripts' = scripts \ {j}
    /\ state' = [state EXCEPT ![j] = "success"]
    /\ UNCHANGED <<address, jobs, target, machine>>

ScriptLeftEnds(j) ==
    /\ j \in scripts /\ state[j] # "running"
    /\ scripts' = scripts \ {j}
    /\ UNCHANGED <<address, jobs, target, machine, state>>

\* The central dies with its threads; the scripts go on.
ProvisioningLost ==
    /\ jobs' = <<>>
    /\ state' = [j \in ProvisionJobs |-> IF state[j] = "unused" THEN "unused" ELSE "gone"]
    /\ UNCHANGED <<address, target, machine, scripts>>

ProvisionStep(j) ==
    \/ ThreadBegins(j) \/ ScriptStarts(j) \/ ScriptEnds(j) \/ ThreadFails(j)
    \/ ScriptLeftEnds(j)

RegistryChanges ==
    \E v \in Vms :
        \/ RemoveVm(v)
        \/ \E m \in Machines : EnterVm(v, m) \/ \E w \in Vms : ChangeVm(v, w, m)

ProvisionNext ==
    \/ RegistryChanges
    \/ \E j \in ProvisionJobs :
          ProvisionStep(j) \/ \E v \in Vms : StartProvision(j, v)
    \/ ProvisioningLost

ProvisionSpec == ProvisionInit /\ [][ProvisionNext]_provisionVars

-----------------------------------------------------------------------------
(* Properties.                                                             *)

\* Two scripts never install on one machine at the same time, whoever asked and
\* whatever was registered, changed or deleted meanwhile, with three
\* exceptions: they were asked for under two ids (a rename during the first, or
\* two ids with one address), the dictionary has lost one of the jobs (the
\* limit, a restart), or it calls it failed while its script goes on
\* (start_provision_job compares the ids of the jobs it holds).
OneDeployPerVm ==
    \A i, j \in scripts :
        i # j /\ machine[i] = machine[j] =>
            \/ target[i] # target[j]
            \/ \E k \in {i, j} : k \notin ToSet(jobs) \/ state[k] = "error"

\* The dictionary of provisioning jobs is a JobStore whose jobs nobody can
\* cancel: the last answer to a poll stays.
Abstract == INSTANCE JobStore WITH
    Jobs <- ProvisionJobs, Kinds <- {"provision"}, MaxJobs <- MaxProvisionJobs,
    store <- [k \in {"provision"} |-> jobs],
    status <- [j \in ProvisionJobs |->
                 CASE state[j] \in {"pending", "running"} -> "running"
                   [] state[j] = "success" -> "completed"
                   [] OTHER -> state[j]]

ProvisionStore == Abstract!StoreSpec
=============================================================================
