------------------------------ MODULE AgentJobs ------------------------------
(***************************************************************************)
(* The background jobs of a vm-agent on one lab                            *)
(* (vm-agent/src/config_management_service.py): reconfigure, set-default   *)
(* and config-diff.  Each kind has a dictionary of jobs and one of cancel  *)
(* events, each under a lock of its own; a job runs in a thread, and the   *)
(* requests that start and cancel jobs run in others.  Nothing keeps two   *)
(* jobs off the same lab.                                                  *)
(*                                                                         *)
(* Data abstraction.  Talking to one router is one step with an outcome.   *)
(* Of the lab's static configurations the model knows which nodes have a   *)
(* complete one, and whether the archive each job takes of them is         *)
(* complete.  An archive is named by the second it was opened in, so a     *)
(* second one opened in that second replaces it.                           *)
(***************************************************************************)
EXTENDS Naturals, Sequences, SequencesExt

CONSTANTS
    Jobs,    \* job ids
    Nodes,   \* routers of the lab that jobs act on, in inventory order
    MaxJobs  \* _RECONFIG_JOBS_MAX, _SET_DEFAULT_JOBS_MAX, _CONFIG_DIFF_JOBS_MAX

ASSUME JobsAssumption ==
    /\ MaxJobs \in Nat \ {0}
    /\ Nodes \subseteq Nat /\ Nodes # {} /\ IsFiniteSet(Nodes)
    /\ \A N \in SUBSET Nodes : N # {} => \E n \in N : \A m \in N : n <= m

Kinds == {"reconfigure", "set_default", "config_diff"}

\* The Event objects of a job: the one its start created and the one a late
\* cancel created in its place.
Objects == {"first", "second"}

VARIABLES
    store,   \* store[k]: the ids in the dictionary of kind k, oldest first
    events,  \* events[j]: the Event the dictionary holds under j
    isset,   \* the Event objects that are set
    status,  \* job["status"]
    asked,   \* jobs whose job["cancel_requested"] is True
    cancels, \* cancel requests between their two locks
    run,     \* run[j]: the thread of job j
    files,   \* nodes that have a complete static configuration
    archive, \* archive[j]: the backup that job j took of them
    recent   \* jobs whose archive is named by the present second

vars == <<store, events, isset, status, asked, cancels, run, files, archive, recent>>
backupVars == <<archive, recent>>
fileVars == <<files, backupVars>>

Terminal == {"completed", "cancelled", "error"}
Statuses == {"unused", "running", "cancelling", "gone"} \cup Terminal
Pcs == {"unused", "starting", "lookup", "event", "setup", "loop", "node",
        "backup", "archive", "unlink", "write", "done", "died"}
Archives == {"none", "filling", "partial", "whole", "lost"}
Thread == [kind : Kinds, pc : Pcs, event : Objects \cup {"none"},
           todo : SUBSET Nodes, failed : BOOLEAN]

\* The abstract store that this module implements.
Abstract == INSTANCE JobStore
Stored == Abstract!Held
At(j, pc) == run[j].pc = pc
Goto(j, pc) == run' = [run EXCEPT ![j].pc = pc]

\* The loops go through the routers in the order of the inventory.
NextNode(j) == Min(run[j].todo)

\* A thread without local state: not started, returned or dead.
Bare(pc) == [kind |-> "reconfigure", pc |-> pc, event |-> "none", todo |-> {},
             failed |-> FALSE]

\* The runner's last update of its job.
End(j, outcome) ==
    /\ status' = [status EXCEPT ![j] = outcome]
    /\ run' = [run EXCEPT ![j] = Bare("done")]

-----------------------------------------------------------------------------
JobsInit ==
    /\ store = [k \in Kinds |-> <<>>]
    /\ events = [j \in Jobs |-> "none"]
    /\ isset = {} /\ asked = {} /\ cancels = {}
    /\ archive = [j \in Jobs |-> "none"] /\ recent = {}
    /\ status = [j \in Jobs |-> "unused"]
    /\ run = [j \in Jobs |-> Bare("unused")]
    /\ files \in {{}, Nodes}

(* Request threads.                                                        *)

\* start_..._job, first lock: the oldest job makes room, running or not, and
\* its cancel event goes with it.
Start(j, k) ==
    /\ At(j, "unused")
    /\ LET all  == Append(store[k], j)
           full == Len(all) > MaxJobs
       IN  /\ store' = [store EXCEPT ![k] = IF full THEN Tail(all) ELSE all]
           /\ events' = IF full THEN [events EXCEPT ![Head(all)] = "none"] ELSE events
    /\ status' = [status EXCEPT ![j] = "running"]
    /\ run' = [run EXCEPT ![j].kind = k, ![j].pc = "starting"]
    /\ UNCHANGED <<isset, asked, cancels, fileVars>>

\* Second lock: the cancel event; then the thread is started.
Launch(j) ==
    /\ At(j, "starting")
    /\ events' = [events EXCEPT ![j] = "first"]
    /\ Goto(j, "lookup")
    /\ UNCHANGED <<store, isset, status, asked, cancels, fileVars>>

\* cancel_..._job, first lock; the id is known once start has returned.
CancelMutant(j) ==   \* the terminal check is lost
    /\ run[j].pc \notin {"unused", "starting"}
    /\ j \in Stored
    /\ status' = [status EXCEPT ![j] = "cancelling"]
    /\ asked' = asked \cup {j}
    /\ cancels' = cancels \cup {j}
    /\ UNCHANGED <<store, events, isset, run, fileVars>>

Cancel(j) ==
    /\ run[j].pc \notin {"unused", "starting"}
    /\ j \in Stored
    /\ status[j] \notin Terminal
    /\ status' = [status EXCEPT ![j] = "cancelling"]
    /\ asked' = asked \cup {j}
    /\ cancels' = cancels \cup {j}
    /\ UNCHANGED <<store, events, isset, run, fileVars>>

\* Second lock: get or create the event, and set it.
SignalMutant(j) ==   \* always a new event
    /\ j \in cancels
    /\ cancels' = cancels \ {j}
    /\ events' = [events EXCEPT ![j] = "second"]
    /\ isset' = isset \cup {<<j, "second">>}
    /\ UNCHANGED <<store, status, asked, run, fileVars>>

Signal(j) ==
    /\ j \in cancels
    /\ cancels' = cancels \ {j}
    /\ events' = [events EXCEPT ![j] = IF @ = "none" THEN "second" ELSE @]
    /\ isset' = isset \cup {<<j, events'[j]>>}
    /\ UNCHANGED <<store, status, asked, run, fileVars>>

-----------------------------------------------------------------------------
(* Job threads.                                                            *)

\* A job that was evicted before its thread looked it up never runs.
Lookup(j) ==
    /\ At(j, "lookup")
    /\ run' = [run EXCEPT ![j] = IF j \in Stored THEN [@ EXCEPT !.pc = "event"] ELSE Bare("done")]
    /\ UNCHANGED <<store, events, isset, status, asked, cancels, fileVars>>

ReadEvent(j) ==
    /\ At(j, "event")
    /\ run' = [run EXCEPT ![j].pc = "setup", ![j].event = events[j]]
    /\ UNCHANGED <<store, events, isset, status, asked, cancels, fileVars>>

\* get_lab_details finds the lab, does not, or raises; only config-diff
\* catches that.  A reconfigure may ask for some routers only.
SetupMutant(j) ==   \* the error is not stored
    /\ At(j, "setup")
    /\ \/ /\ run' = [run EXCEPT ![j].pc = "loop", ![j].todo = Nodes]
          /\ UNCHANGED status
       \/ Goto(j, "done") /\ UNCHANGED status
    /\ UNCHANGED <<store, events, isset, asked, cancels, fileVars>>

Setup(j) ==
    /\ At(j, "setup")
    /\ \/ \E N \in SUBSET Nodes :
            /\ run[j].kind = "set_default" => N = Nodes
            /\ run' = [run EXCEPT ![j].pc = "loop", ![j].todo = N]
            /\ UNCHANGED status
       \/ End(j, "error")
       \/ run[j].kind # "config_diff" /\ UNCHANGED status
          /\ run' = [run EXCEPT ![j] = Bare("died")]
    /\ UNCHANGED <<store, events, isset, asked, cancels, fileVars>>

\* cancel_event is not None and cancel_event.is_set()
CancelSeen(j) == run[j].event # "none" /\ <<j, run[j].event>> \in isset

\* The next router, unless the job was cancelled.
BeginNode(j) ==
    /\ At(j, "loop") /\ run[j].todo # {}
    /\ IF CancelSeen(j) THEN End(j, "cancelled") ELSE Goto(j, "node") /\ UNCHANGED status
    /\ UNCHANGED <<store, events, isset, asked, cancels, fileVars>>

\* The router's result is in; a set-default remembers a failed capture.
EndNode(j) ==
    /\ At(j, "node")
    /\ \E ok \in BOOLEAN :
          run' = [run EXCEPT ![j].pc = "loop", ![j].todo = @ \ {NextNode(j)},
                             ![j].failed = @ \/ (run[j].kind = "set_default" /\ ~ok)]
    /\ UNCHANGED <<store, events, isset, status, asked, cancels, fileVars>>

\* After the loop.  A set-default that captured every node saves; a
\* config-diff may find the whole comparison failed.
Conclude(j) ==
    /\ At(j, "loop") /\ run[j].todo = {}
    /\ IF run[j].kind = "set_default" /\ ~run[j].failed
       THEN Goto(j, "backup") /\ UNCHANGED status
       ELSE \/ End(j, "completed")
            \/ run[j].kind = "config_diff" /\ End(j, "error")
    /\ UNCHANGED <<store, events, isset, asked, cancels, fileVars>>

\* A change of a file spoils the archives that are being filled.
Spoiled == [j \in Jobs |-> IF archive[j] = "filling" THEN "partial" ELSE archive[j]]

\* The archive is opened, and one of the same second thereby emptied; if the
\* other job is still filling it, both are lost.  Nothing is archived when the
\* directory is empty.
Opened == IF \E k \in recent : At(k, "archive") THEN "lost"
          ELSE IF files = Nodes THEN "filling" ELSE "partial"

OpenArchive(j) ==
    /\ At(j, "backup")
    /\ \/ /\ archive' = [i \in Jobs |-> IF i = j THEN Opened
                                       ELSE IF i \in recent THEN "lost" ELSE archive[i]]
          /\ recent' = recent \cup {j}
          /\ Goto(j, "archive")
          /\ UNCHANGED status
       \/ /\ files = {}
          /\ run' = [run EXCEPT ![j].pc = "unlink", ![j].todo = {}]
          /\ UNCHANGED <<status, backupVars>>
       \/ End(j, "error") /\ UNCHANGED backupVars
    /\ UNCHANGED <<store, events, isset, asked, cancels, files>>

\* It is filled and closed, or an error ends the job; then glob("*.cfg").
FillArchiveMutant(j) ==   \* an archive that fails is a warning only
    /\ At(j, "archive")
    /\ \/ archive' = [archive EXCEPT ![j] = IF @ = "filling" THEN "whole" ELSE @]
       \/ archive' = [archive EXCEPT ![j] = IF @ = "filling" THEN "partial" ELSE @]
    /\ run' = [run EXCEPT ![j].pc = "unlink", ![j].todo = files]
    /\ UNCHANGED <<store, events, isset, status, asked, cancels, files, recent>>

FillArchive(j) ==
    /\ At(j, "archive")
    /\ \/ /\ archive' = [archive EXCEPT ![j] = IF @ = "filling" THEN "whole" ELSE @]
          /\ run' = [run EXCEPT ![j].pc = "unlink", ![j].todo = files]
          /\ UNCHANGED status
       \/ /\ archive' = [archive EXCEPT ![j] = IF @ = "filling" THEN "partial" ELSE @]
          /\ End(j, "error")
    /\ UNCHANGED <<store, events, isset, asked, cancels, files, recent>>

\* One file is unlinked, or stays with a warning.
Unlink(j) ==
    /\ At(j, "unlink")
    /\ IF run[j].todo = {}
       THEN run' = [run EXCEPT ![j].pc = "write", ![j].todo = Nodes] /\ UNCHANGED files
       ELSE /\ run' = [run EXCEPT ![j].todo = @ \ {NextNode(j)}]
            /\ files' \in {files \ {NextNode(j)}, files}
    /\ archive' = IF files' = files THEN archive ELSE Spoiled
    /\ UNCHANGED <<store, events, isset, status, asked, cancels, recent>>

\* One captured configuration is written; a failure ends the job there.
Write(j) ==
    /\ At(j, "write")
    /\ archive' = IF run[j].todo = {} THEN archive ELSE Spoiled
    /\ IF run[j].todo = {}
       THEN End(j, "completed") /\ UNCHANGED files
       ELSE \/ /\ run' = [run EXCEPT ![j].todo = @ \ {NextNode(j)}]
               /\ files' = files \cup {NextNode(j)}
               /\ UNCHANGED status
            \/ End(j, "error") /\ files' = files \ {NextNode(j)}
    /\ UNCHANGED <<store, events, isset, asked, cancels, recent>>

-----------------------------------------------------------------------------
\* The agent dies: the dictionaries and threads are gone, the files stay.
Crash ==
    /\ store' = [k \in Kinds |-> <<>>]
    /\ events' = [j \in Jobs |-> "none"]
    /\ isset' = {} /\ cancels' = {}
    /\ run' = [j \in Jobs |-> IF At(j, "unused") THEN run[j] ELSE Bare("died")]
    /\ status' = [j \in Jobs |-> IF At(j, "unused") THEN status[j] ELSE "gone"]
    /\ asked' = {}
    /\ archive' = Spoiled
    /\ UNCHANGED <<files, recent>>

SecondPasses ==
    /\ recent # {}
    /\ recent' = {}
    /\ UNCHANGED <<store, events, isset, status, asked, cancels, run, files, archive>>

Step(j) ==
    \/ Launch(j) \/ Lookup(j) \/ ReadEvent(j) \/ Setup(j)
    \/ BeginNode(j) \/ EndNode(j) \/ Conclude(j)
    \/ OpenArchive(j) \/ FillArchive(j) \/ Unlink(j) \/ Write(j)

JobsNext ==
    \/ \E j \in Jobs : (\E k \in Kinds : Start(j, k)) \/ Cancel(j) \/ Signal(j) \/ Step(j)
    \/ Crash \/ SecondPasses

\* The operating system runs every thread, and each step of one ends: SSH
\* connections and commands have timeouts.
JobsSpec == JobsInit /\ [][JobsNext]_vars /\ \A j \in Jobs : WF_vars(Step(j))

-----------------------------------------------------------------------------
(* Properties.                                                             *)

JobsTypeOK ==
    /\ store \in [Kinds -> Seq(Jobs)] /\ \A k \in Kinds : Len(store[k]) <= MaxJobs
    /\ events \in [Jobs -> Objects \cup {"none"}]
    /\ isset \subseteq Jobs \X Objects
    /\ status \in [Jobs -> Statuses]
    /\ asked \subseteq Jobs /\ cancels \subseteq asked
    /\ run \in [Jobs -> Thread]
    /\ files \subseteq Nodes
    /\ archive \in [Jobs -> Archives] /\ recent \subseteq Jobs

\* The dictionaries with their threads, cancels and crashes are a JobStore: a
\* job keeps its final status however a cancel and the end of its thread cross
\* (cancel_reconfigure_job), and ends as cancelled only when somebody asked
\* for that, also when its event was evicted before its thread read it.
StoreSpec == Abstract!StoreSpec

\* Once a cancel has answered, the job begins no further router, as long as
\* the job is in its dictionary.
CancelStopsJob ==
    [][\A j \in (asked \ cancels) \cap Stored :
          ~At(j, "node") => run'[j].pc # "node"]_vars

\* In place, with nobody changing it or taking an incomplete archive before
\* changing it, or in an archive.
Recoverable ==
    \/ /\ files = Nodes
       /\ \A j \in Jobs : /\ run[j].pc \notin {"unlink", "write"}
                          /\ At(j, "archive") => archive[j] = "filling"
    \/ \E j \in Jobs : archive[j] = "whole"

\* A lab whose default configurations were complete once has a complete set
\* ever after, in place or in an archive: through concurrent set-default jobs,
\* failed writes and crashes (_run_set_default_job archives before it
\* unlinks).  This holds as long as no two jobs open their archives in the same
\* second: they have one name, and the second empties what the first saved.
DefaultsRecoverable ==
    [][Recoverable => Recoverable' \/ \E j \in Jobs : archive'[j] = "lost"]_vars

\* Every job of the dictionaries gets a final status, unless it is evicted or
\* its thread died in its set-up, which nothing reports.
JobsFinish ==
    \A j \in Jobs :
        status[j] \in {"running", "cancelling"} ~>
            status[j] \in Terminal \/ j \notin Stored \/ At(j, "died")
=============================================================================
