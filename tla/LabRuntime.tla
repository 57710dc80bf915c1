----------------------------- MODULE LabRuntime -----------------------------
(***************************************************************************)
(* The central's handlers for the jobs of a lab                            *)
(* (central/src/api/lab_runtime_routes.py) with the functions of           *)
(* services/collector.py they await, and the audit log they write          *)
(* (services/audit.py).  Reconfigure and set-default jobs live in the      *)
(* agent; the central keeps a dictionary of config-diff jobs of its own.   *)
(* Both are used through JobStore, which AgentJobs implements.             *)
(*                                                                         *)
(* A browser polls its job until it ends.  The handler that sees the end   *)
(* records it in the audit log, unless the newest AuditLimit events of the *)
(* user, the vm and the action have it.  A handler runs alone from the     *)
(* answer it awaited to its end, so looking and recording are one step.    *)
(*                                                                         *)
(* Data abstraction.  One vm.  Of a job's result the model knows whether   *)
(* its "ok" holds, of an audit event what decides that it is "already      *)
(* recorded".  Who may act on a lab is the subject of LabSession.          *)
(***************************************************************************)
EXTENDS Naturals, Sequences, SequencesExt

CONSTANTS
    Users, Handlers, Jobs,
    MaxJobs,     \* places in a dictionary (30 in the agent, 100 in the central)
    AuditLimit,  \* list_events(limit=200)
    MaxEvents    \* bound: events of a user and an action

ASSUME RuntimeAssumption ==
    /\ AuditLimit \in Nat \ {0} /\ MaxEvents \in Nat

AgentKinds == {"reconfigure", "set_default"}
AllKinds == AgentKinds \cup {"config_diff"}

VARIABLES
    agentStore, agentStatus,      \* the dictionaries of the agent
    centralStore, centralStatus,  \* _CONFIG_DIFF_JOBS
    kind,    \* what each job is
    good,    \* job["ok"] is True
    runner,  \* the thread of each job
    truth,   \* what the job achieved, once its thread is through: "good", all its
             \* routers; "partly", a diff of some or none; "bad"; "stopped"
    log,     \* log[u][k]: audit events of user u, newest first
    call     \* call[h]: what a handler of the central awaits

runtimeVars == <<agentStore, agentStatus, centralStore, centralStatus, kind, good,
                 runner, truth, log, call>>
agentVars == <<agentStore, agentStatus>>
centralVars == <<centralStore, centralStatus>>
jobVars == <<kind, good, runner, truth>>

Agent == INSTANCE JobStore WITH Kinds <- AgentKinds, store <- agentStore, status <- agentStatus
Central == INSTANCE JobStore WITH Kinds <- {"config_diff"}, store <- centralStore,
                                  status <- centralStatus

Event == [status : {"started", "ok", "error", "warning"},
          stage : {"start", "completed", "cancel_requested"}, job : Jobs \cup {"none"}]
Idle == [pc |-> "idle", user |-> "none", job |-> "none", seen |-> "none"]

\* The status of a completion event.
Outcomes == {"ok", "error", "warning"}

Room(u, k) == Len(log[u][k]) < MaxEvents

Record(u, k, status, stage, j) ==
    log' = [log EXCEPT ![u][k] = <<[status |-> status, stage |-> stage, job |-> j]>> \o @]

\* Looking for the completion event of job j among the newest, recording it if
\* it is not there.
Newest(u, k) == {log[u][k][i] : i \in 1..Min({AuditLimit, Len(log[u][k])})}

AlwaysRecordMutant(u, k, outcome, j) ==   \* already_recorded is lost
    Record(u, k, outcome, "completed", j)

RecordCompletion(u, k, outcome, j) ==
    IF [status |-> outcome, stage |-> "completed", job |-> j] \in Newest(u, k)
    THEN UNCHANGED log
    ELSE Record(u, k, outcome, "completed", j)

\* The browsers that know a job are those its start was answered to.
Knows(u, j) == \E k \in AllKinds : \E i \in 1..Len(log[u][k]) :
                  log[u][k][i].stage = "start" /\ log[u][k][i].job = j

RuntimeInit ==
    /\ Agent!StoreInit /\ Central!StoreInit
    /\ kind = [j \in Jobs |-> "none"] /\ good = [j \in Jobs |-> FALSE]
    /\ runner = [j \in Jobs |-> "none"] /\ truth = [j \in Jobs |-> "none"]
    /\ log = [u \in Users |-> [k \in AllKinds |-> <<>>]]
    /\ call = [h \in Handlers |-> Idle]

-----------------------------------------------------------------------------
(* Jobs of the agent.  A handler sends its request and waits; what the     *)
(* agent does of it and what the handler does with the answer are steps of *)
(* their own.  Sending changes nothing, so it is part of the agent's step. *)

\* POST .../reconfigure, .../set-default-config: the agent starts the job.
AgentStart(h, u, k, j) ==
    /\ call[h] = Idle /\ Room(u, k) /\ kind[j] = "none"
    /\ Agent!Insert(j, k)
    /\ kind' = [kind EXCEPT ![j] = k]
    /\ runner' = [runner EXCEPT ![j] = "running"]
    /\ call' = [call EXCEPT ![h] = [pc |-> "started", user |-> u, job |-> j, seen |-> "none"]]
    /\ UNCHANGED <<centralVars, good, truth, log>>

\* The id is in the audit log and in the answer to the browser.
ResumeStart(h) ==
    /\ call[h].pc = "started"
    /\ Record(call[h].user, kind[call[h].job], "started", "start", call[h].job)
    /\ call' = [call EXCEPT ![h] = Idle]
    /\ UNCHANGED <<agentVars, centralVars, jobVars>>

\* httpx gives up: before the agent did anything ...
StartFails(u, k) ==
    /\ Room(u, k)
    /\ Record(u, k, "error", "start", "none")
    /\ UNCHANGED <<agentVars, centralVars, jobVars, call>>

\* ... or after.  The other handlers leave no event then.
CallFails(h) ==
    /\ call[h] # Idle
    /\ IF call[h].pc = "started"
       THEN Record(call[h].user, kind[call[h].job], "error", "start", "none")
       ELSE UNCHANGED log
    /\ call' = [call EXCEPT ![h] = Idle]
    /\ UNCHANGED <<agentVars, centralVars, jobVars>>

\* What the central makes of the job it is sent.
Reported(j) ==
    CASE agentStatus[j] = "cancelled" -> "warning"
      [] agentStatus[j] = "completed" /\ good[j] -> "ok"
      [] agentStatus[j] \in Agent!Open -> "open"
      [] OTHER -> "error"

\* GET .../reconfigure-job/{id}, .../set-default-job/{id}: the agent reads its
\* dictionary without the lock.  A job it no longer has is answered with 404,
\* an open job makes the central do nothing.
AgentAnswerPoll(h, u, j) ==
    /\ call[h] = Idle /\ kind[j] \in AgentKinds /\ Knows(u, j) /\ Room(u, kind[j])
    /\ j \in Agent!Held /\ Reported(j) \in Outcomes
    /\ call' = [call EXCEPT ![h] = [pc |-> "polled", user |-> u, job |-> j,
                                    seen |-> Reported(j)]]
    /\ UNCHANGED <<agentVars, centralVars, jobVars, log>>

ResumePoll(h) ==
    /\ call[h].pc = "polled"
    /\ RecordCompletion(call[h].user, kind[call[h].job], call[h].seen, call[h].job)
    /\ call' = [call EXCEPT ![h] = Idle]
    /\ UNCHANGED <<agentVars, centralVars, jobVars>>

\* POST .../reconfigure-job/{id}/cancel, .../set-default-job/{id}/cancel: under
\* the lock of the dictionary, so never between the two writes of a runner.  A
\* job that ended is answered as well, an absent one with 404.
AgentCancel(h, u, j) ==
    /\ call[h] = Idle /\ kind[j] \in AgentKinds /\ Knows(u, j) /\ Room(u, kind[j])
    /\ j \in Agent!Held /\ runner[j] # "halfway"
    /\ IF agentStatus[j] \in Agent!Open THEN Agent!AskCancel(j) ELSE UNCHANGED agentVars
    /\ call' = [call EXCEPT ![h] = [pc |-> "asked", user |-> u, job |-> j, seen |-> "none"]]
    /\ UNCHANGED <<centralVars, jobVars, log>>

ResumeCancel(h) ==
    /\ call[h].pc = "asked"
    /\ Record(call[h].user, kind[call[h].job], "warning", "cancel_requested", call[h].job)
    /\ call' = [call EXCEPT ![h] = Idle]
    /\ UNCHANGED <<agentVars, centralVars, jobVars>>

-----------------------------------------------------------------------------
(* The ends of the agent's jobs.                                           *)

\* _run_reconfigure_job sets "ok" and then the status, _run_set_default_job
\* the status and then "ok"; a poll may come in between.
EndsWellMutant(j) ==   \* both set the status first
    /\ kind[j] \in AgentKinds /\ runner[j] = "running"
    /\ truth' = [truth EXCEPT ![j] = "good"]
    /\ runner' = [runner EXCEPT ![j] = "halfway"]
    /\ Agent!Finish(j, "completed") /\ UNCHANGED good
    /\ UNCHANGED <<centralVars, kind, log, call>>

EndsWell(j) ==
    /\ kind[j] \in AgentKinds /\ runner[j] = "running"
    /\ truth' = [truth EXCEPT ![j] = "good"]
    /\ runner' = [runner EXCEPT ![j] = "halfway"]
    /\ IF kind[j] = "reconfigure"
       THEN good' = [good EXCEPT ![j] = TRUE] /\ UNCHANGED agentVars
       ELSE Agent!Finish(j, "completed") /\ UNCHANGED good
    /\ UNCHANGED <<centralVars, kind, log, call>>

SecondWrite(j) ==
    /\ runner[j] = "halfway"
    /\ runner' = [runner EXCEPT ![j] = "through"]
    /\ good' = [good EXCEPT ![j] = TRUE]
    /\ IF agentStatus[j] \in Agent!Open
       THEN Agent!Finish(j, "completed") ELSE UNCHANGED agentVars
    /\ UNCHANGED <<centralVars, kind, truth, log, call>>

\* Routers failed ("completed"), the job itself did ("error"), or it was
\* cancelled.
EndsOtherwise(j) ==
    /\ kind[j] \in AgentKinds /\ runner[j] = "running"
    /\ \E outcome \in Agent!Final :
          /\ Agent!Finish(j, outcome)
          /\ truth' = [truth EXCEPT ![j] = IF outcome = "cancelled" THEN "stopped" ELSE "bad"]
    /\ runner' = [runner EXCEPT ![j] = "through"]
    /\ UNCHANGED <<centralVars, kind, good, log, call>>

\* The agent restarts: its dictionaries and threads are gone.
AgentRestart ==
    /\ Agent!Lose
    /\ runner' = [j \in Jobs |-> IF kind[j] \in AgentKinds THEN "none" ELSE runner[j]]
    /\ UNCHANGED <<centralVars, kind, good, truth, log, call>>

-----------------------------------------------------------------------------
(* Config-diff jobs of the central.                                        *)

\* POST .../config-diff-async: one step, it awaits nothing.
StartDiff(u, j) ==
    /\ kind[j] = "none" /\ Room(u, "config_diff")
    /\ Central!Insert(j, "config_diff")
    /\ kind' = [kind EXCEPT ![j] = "config_diff"]
    /\ runner' = [runner EXCEPT ![j] = "running"]
    /\ Record(u, "config_diff", "started", "start", j)
    /\ UNCHANGED <<agentVars, good, truth, call>>

\* The runner's thread has the agent's report, of which some or all routers may
\* have failed ("partly": the agent's "ok" is len(results) > 0), or has none.
EndDiff(j) ==
    /\ kind[j] = "config_diff" /\ runner[j] = "running"
    /\ \E done \in {"good", "partly", "bad"} :
          /\ Central!Finish(j, IF done = "bad" THEN "error" ELSE "completed")
          /\ truth' = [truth EXCEPT ![j] = done]
    /\ runner' = [runner EXCEPT ![j] = "through"]
    /\ UNCHANGED <<agentVars, kind, good, log, call>>

\* GET .../config-diff-job/{id}: one step, it awaits nothing.
PollDiff(u, j) ==
    /\ Knows(u, j) /\ j \in Central!Held /\ Room(u, "config_diff")
    /\ centralStatus[j] \in {"completed", "error"}
    /\ RecordCompletion(u, "config_diff",
                        IF centralStatus[j] = "completed" THEN "ok" ELSE "error", j)
    /\ UNCHANGED <<agentVars, centralVars, jobVars, call>>

\* The central restarts: its dictionary, threads and handlers are gone.
CentralRestart ==
    /\ Central!Lose
    /\ runner' = [j \in Jobs |-> IF kind[j] = "config_diff" THEN "none" ELSE runner[j]]
    /\ call' = [h \in Handlers |-> Idle]
    /\ UNCHANGED <<agentVars, kind, good, truth, log>>

RuntimeNext ==
    \/ \E h \in Handlers, u \in Users, j \in Jobs :
          \/ \E k \in AgentKinds : AgentStart(h, u, k, j)
          \/ AgentAnswerPoll(h, u, j) \/ AgentCancel(h, u, j)
    \/ \E h \in Handlers : ResumeStart(h) \/ ResumePoll(h) \/ ResumeCancel(h) \/ CallFails(h)
    \/ \E u \in Users, k \in AgentKinds : StartFails(u, k)
    \/ \E j \in Jobs : EndsWell(j) \/ SecondWrite(j) \/ EndsOtherwise(j) \/ EndDiff(j)
    \/ \E u \in Users, j \in Jobs : StartDiff(u, j) \/ PollDiff(u, j)
    \/ AgentRestart \/ CentralRestart

RuntimeSpec == RuntimeInit /\ [][RuntimeNext]_runtimeVars

-----------------------------------------------------------------------------
(* Properties.                                                             *)

\* What the audit log says of a job's end is what happened: a reconfigure or a
\* set-default is recorded "ok" only when every router was done, "error" only
\* when not all were, "warning" only when it was stopped.  Polls read the job
\* without its lock, answers are used when they arrive, the agent restarts in
\* between.  Two exceptions are the code's: a set-default job may be taken for
\* failed, its status being final before its "ok" is there
\* (_run_set_default_job); and a config diff is "ok" as soon as a report came,
\* even one in which every router failed.
OutcomesAreTrue ==
    \A u \in Users, k \in AllKinds : \A i \in 1..Len(log[u][k]) :
        LET e == log[u][k][i]
        IN  e.stage = "completed" =>
                /\ e.status = "ok" => \/ truth[e.job] = "good"
                                      \/ k = "config_diff" /\ truth[e.job] = "partly"
                /\ e.status = "error" => truth[e.job] = "bad" \/ k = "set_default"
                /\ e.status = "warning" => truth[e.job] = "stopped"

\* The end of a job is recorded once for each user who polls, as far back as
\* the look-up reaches, whichever of the user's browser windows polled when.
EndRecordedOnce ==
    \A u \in Users, k \in AllKinds : \A p, q \in 1..Len(log[u][k]) :
        p < q /\ log[u][k][p] = log[u][k][q] /\ log[u][k][p].stage = "completed"
            => q - p > AuditLimit

=============================================================================
