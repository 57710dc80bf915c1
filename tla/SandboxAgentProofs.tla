-------------------------- MODULE SandboxAgentProofs --------------------------
(***************************************************************************)
(* Theorems about the sandbox operations of a vm-agent, for any number of  *)
(* threads and any topologies.                                             *)
(*                                                                         *)
(* The baseline is free of edits because it is copied from the file only   *)
(* when there is none, and a file that holds an edit means that there is   *)
(* one (EditsHaveBaseline).  That in turn rests on what a thread knows at  *)
(* each program counter, LocalInv: an apply past _ensure_sandbox_baseline  *)
(* has a baseline, and only the holder of the lock changes the file to     *)
(* anything but an admin's topology.                                       *)
(***************************************************************************)
EXTENDS SandboxAgent, TLAPS

Busy == {"destroy", "write", "annotate", "deploy", "retry", "restore", "rollback"}

\* What holds of a thread at its program counter.
LocalInv(t) ==
    /\ th[t].pc \notin {"idle", "lock"} => lock = t
    /\ th[t].pc # "idle" => th[t].op # "none"
    /\ th[t].pc \in {"idle", "lock"} => th[t].kept = NoFile
    /\ th[t].pc \in {"baseline", "annotate"} => th[t].op = "apply"
    /\ th[t].op = "apply" => th[t].text \in Topologies
    /\ th[t].op = "apply" /\ th[t].pc \notin {"idle", "lock", "baseline"} => baseline # NoFile
    /\ th[t].pc \in Busy => /\ th[t].text \in Topologies \cup {Torn}
                            /\ th[t].kept \in Topologies \cup {Torn}
    /\ th[t].pc \in Busy /\ th[t].op = "reset" => th[t].text \notin Edits
    /\ th[t].pc \in Busy /\ th[t].op = "apply" => th[t].kept # th[t].text
    /\ th[t].pc \in {"deploy", "retry"} /\ th[t].op = "reset" => file \notin Edits
    /\ th[t].pc = "rollback" /\ th[t].op = "apply" /\ th[t].text \in Edits =>
          file # th[t].text

\* The inductive invariant.
Inv ==
    /\ AgentTypeOK
    /\ BaselineNeverEdit
    /\ EditsHaveBaseline
    /\ \A t \in Threads : LocalInv(t)

-----------------------------------------------------------------------------
(* The steps, one lemma each.                                              *)

\* While a thread holds the lock every other one is idle or waits for it and
\* has read nothing yet.
LEMMA OthersWait ==
    ASSUME Inv, NEW t \in Threads, NEW u \in Threads, lock \in {t, Nobody}, u # t
    PROVE  th[u].pc \in {"idle", "lock"} /\ th[u].kept = NoFile
  BY AgentAssumption DEF Inv, LocalInv

\* The fields of a local state.
LEMMA LocalFields ==
    ASSUME Inv, NEW t \in Threads
    PROVE  /\ th[t] \in Local
           /\ th[t].pc \in Pcs /\ th[t].op \in {"none", "apply", "reset"}
           /\ th[t].text \in Topologies \cup {NoFile, Torn}
           /\ th[t].kept \in Topologies \cup {NoFile, Torn}
           /\ th[t].answer \in Answers
  BY DEF Inv, AgentTypeOK, Local

\* The initial state has no edit anywhere and every thread is idle.
LEMMA InitInv == AgentInit => Inv
<1> SUFFICES ASSUME AgentInit PROVE Inv
  OBVIOUS
<1>1. AgentTypeOK
  BY AgentAssumption DEF AgentInit, AgentTypeOK, Topologies, Idle, Local, Pcs, Answers
<1>2. BaselineNeverEdit /\ EditsHaveBaseline
  BY AgentAssumption DEF AgentInit, BaselineNeverEdit, EditsHaveBaseline, Topologies, Idle
<1>3. \A t \in Threads : LocalInv(t)
  BY AgentAssumption DEF AgentInit, LocalInv, Idle, Busy
<1> QED
  BY <1>1, <1>2, <1>3 DEF Inv

\* A request that arrives only queues for the lock.
LEMMA RequestKeepsInv ==
    ASSUME Inv, NEW t \in Threads, NEW op \in {"apply", "reset"},
           NEW y \in Topologies \cup {NoFile}, Request(t, op, y)
    PROVE  Inv'
<1> DEFINE new == [pc |-> "lock", op |-> op, text |-> y, kept |-> NoFile, answer |-> "none"]
<1>1. th' = [th EXCEPT ![t] = new]
  BY DEF Request
<1>2. new \in Local
  BY DEF Local, Pcs, Answers
<1>3. AgentTypeOK'
  BY <1>1, <1>2 DEF Inv, AgentTypeOK, Request
<1>4. \A u \in Threads : th'[u] = IF u = t THEN new ELSE th[u]
  BY <1>1 DEF Inv, AgentTypeOK
<1> HIDE DEF new
<1>5. new.kept = NoFile /\ new.pc = "lock" /\ new.op = op /\ new.text = y
  BY DEF new
<1>6. BaselineNeverEdit' /\ EditsHaveBaseline'
  BY <1>4, <1>5, AgentAssumption
     DEF Inv, BaselineNeverEdit, EditsHaveBaseline, Request, Topologies
<1>7. LocalInv(t)'
  BY <1>4, <1>5 DEF LocalInv, Request, Busy
<1>8. ASSUME NEW u \in Threads, u # t PROVE LocalInv(u)'
  BY <1>4, <1>8 DEF Inv, LocalInv, Request
<1> QED
  BY <1>3, <1>6, <1>7, <1>8 DEF Inv

\* What a step of the thread that holds or takes the lock has to show: its
\* own part of the invariant, and that edits still have a baseline.
LEMMA HolderKeepsInv ==
    ASSUME Inv, NEW t \in Threads, lock \in {t, Nobody},
           NEW n \in Local, th' = [th EXCEPT ![t] = n],
           file' \in Topologies \cup {Torn},
           baseline' \in Topologies \cup {NoFile, Torn},
           running' \in Topologies \cup {Down},
           lock' \in {t, Nobody},
           baseline' \notin Edits,
           file' \in Edits \/ running' \in Edits \/ n.kept \in Edits => baseline' # NoFile,
           th'[t] = n => LocalInv(t)'
    PROVE  Inv'
<1>1. \A u \in Threads : th'[u] = IF u = t THEN n ELSE th[u]
  BY DEF Inv, AgentTypeOK
<1>2. AgentTypeOK'
  BY DEF Inv, AgentTypeOK
<1>3. NoFile \notin Edits
  BY AgentAssumption DEF Topologies
<1>4. EditsHaveBaseline'
  BY <1>1, <1>3, OthersWait DEF EditsHaveBaseline
<1>5. LocalInv(t)'
  BY <1>1
<1>6. ASSUME NEW u \in Threads, u # t PROVE LocalInv(u)'
  <2>1. th[u].pc \in {"idle", "lock"} /\ th'[u] = th[u]
    BY <1>1, <1>6, OthersWait
  <2> QED
    BY <2>1, <1>6 DEF Inv, LocalInv, Busy
<1> QED
  BY <1>2, <1>4, <1>5, <1>6 DEF Inv, BaselineNeverEdit

\* A thread that answers and lets go of the lock.
LEMMA ReturnKeepsInv ==
    ASSUME Inv, NEW t \in Threads, lock \in {t, Nobody},
           NEW a \in Answers, Return(t, a),
           file' \in Topologies \cup {Torn}, running' \in Topologies \cup {Down},
           baseline' = baseline,
           file' \in Edits \/ running' \in Edits => baseline # NoFile
    PROVE  Inv'
<1> DEFINE n == Idle(a)
<1>1. n \in Local
  BY DEF Local, Idle, Pcs
<1>2. th' = [th EXCEPT ![t] = n] /\ lock' = Nobody
  BY DEF Return
<1>3. n.pc = "idle" /\ n.op = "none" /\ n.kept = NoFile
  BY DEF Idle
<1> HIDE DEF n
<1>4. th'[t] = n => LocalInv(t)'
  BY <1>3 DEF LocalInv, Busy
<1>5. NoFile \notin Edits
  BY AgentAssumption DEF Topologies
<1> QED
  BY <1>1, <1>2, <1>3, <1>4, <1>5, HolderKeepsInv DEF Inv, AgentTypeOK, BaselineNeverEdit

\* The holder of the lock goes to another program counter and changes none
\* of its other fields.
LEMMA GotoFields ==
    ASSUME Inv, NEW t \in Threads, NEW pc \in Pcs, Goto(t, pc)
    PROVE  \E n \in Local :
              /\ th' = [th EXCEPT ![t] = n]
              /\ n.pc = pc
              /\ n.op = th[t].op /\ n.text = th[t].text /\ n.kept = th[t].kept
<1> DEFINE n == [th[t] EXCEPT !.pc = pc]
<1>1. n \in Local /\ n.pc = pc /\ n.op = th[t].op /\ n.text = th[t].text
       /\ n.kept = th[t].kept
  BY LocalFields DEF Local
<1>2. th' = [th EXCEPT ![t] = n]
  BY DEF Goto
<1> QED
  BY <1>1, <1>2

\* Taking the lock.
LEMMA AcquireKeepsInv ==
    ASSUME Inv, NEW t \in Threads, Acquire(t) PROVE Inv'
<1>1. lock \in {t, Nobody} /\ UNCHANGED <<file, baseline, running>>
  BY DEF Acquire
<1>2. CASE Return(t, "failed")
  BY <1>1, <1>2, ReturnKeepsInv DEF Inv, AgentTypeOK, EditsHaveBaseline, Answers
<1>3. CASE /\ lock' = t
           /\ Goto(t, IF th[t].op = "apply" THEN "baseline" ELSE "read")
  <2>1. PICK n \in Local :
              /\ th' = [th EXCEPT ![t] = n]
              /\ n.pc = IF th[t].op = "apply" THEN "baseline" ELSE "read"
              /\ n.op = th[t].op /\ n.text = th[t].text /\ n.kept = th[t].kept
    BY <1>3, GotoFields DEF Pcs
  <2>2. th'[t] = n => LocalInv(t)'
    BY <1>1, <1>3, <2>1 DEF Acquire, At, Inv, LocalInv, Busy
  <2> QED
    BY <1>1, <1>3, <2>1, <2>2, HolderKeepsInv
       DEF Inv, AgentTypeOK, BaselineNeverEdit, EditsHaveBaseline
<1> QED
  BY <1>2, <1>3 DEF Acquire

\* The baseline is copied from a file that, for want of a baseline, holds no
\* edit.
LEMMA EnsureBaselineKeepsInv ==
    ASSUME Inv, NEW t \in Threads, EnsureBaseline(t) PROVE Inv'
<1>1. lock = t /\ th[t].op = "apply" /\ th[t].text \in Topologies
  BY DEF EnsureBaseline, At, Inv, LocalInv
<1>2. baseline' # NoFile /\ baseline' \in Topologies \cup {Torn} /\ baseline' \notin Edits
  BY AgentAssumption
     DEF EnsureBaseline, Inv, AgentTypeOK, BaselineNeverEdit, EditsHaveBaseline
<1>3. PICK n \in Local :
            /\ th' = [th EXCEPT ![t] = n]
            /\ n.pc = "read"
            /\ n.op = th[t].op /\ n.text = th[t].text /\ n.kept = th[t].kept
  BY GotoFields DEF EnsureBaseline, Pcs
<1>4. th'[t] = n => LocalInv(t)'
  BY <1>1, <1>2, <1>3 DEF EnsureBaseline, LocalInv, Busy
<1> QED
  BY <1>1, <1>2, <1>3, <1>4, HolderKeepsInv DEF EnsureBaseline, Inv, AgentTypeOK

\* An apply reads the file that it would restore.
LEMMA ReadOriginalKeepsInv ==
    ASSUME Inv, NEW t \in Threads, ReadOriginal(t) PROVE Inv'
<1>1. /\ lock = t /\ th[t].op = "apply" /\ th[t].text \in Topologies /\ baseline # NoFile
      /\ UNCHANGED <<file, baseline, running>>
  BY DEF ReadOriginal, At, Inv, LocalInv
<1>2. CASE th[t].text = file
  BY <1>1, <1>2, ReturnKeepsInv
     DEF ReadOriginal, Inv, AgentTypeOK, EditsHaveBaseline, Answers
<1>3. CASE th[t].text # file
  <2> DEFINE n == [th[t] EXCEPT !.kept = file, !.pc = "destroy"]
  <2>1. /\ n \in Local /\ n.pc = "destroy" /\ n.kept = file
        /\ n.op = th[t].op /\ n.text = th[t].text
    BY LocalFields DEF Local, Pcs, Inv, AgentTypeOK
  <2>2. th' = [th EXCEPT ![t] = n] /\ lock' = lock
    BY <1>3 DEF ReadOriginal
  <2> HIDE DEF n
  <2>3. th'[t] = n => LocalInv(t)'
    BY <1>1, <1>3, <2>1, <2>2 DEF Inv, AgentTypeOK, LocalInv, Busy
  <2> QED
    BY <1>1, <2>1, <2>2, <2>3, HolderKeepsInv DEF Inv, AgentTypeOK, BaselineNeverEdit
<1> QED
  BY <1>2, <1>3

\* A reset is to write the baseline.
LEMMA LoadBaselineKeepsInv ==
    ASSUME Inv, NEW t \in Threads, LoadBaseline(t) PROVE Inv'
<1>1. /\ lock = t /\ th[t].op = "reset"
      /\ UNCHANGED <<file, baseline, running>>
  BY DEF LoadBaseline, At, Inv, LocalInv
<1>2. CASE baseline = NoFile
  BY <1>1, <1>2, ReturnKeepsInv
     DEF LoadBaseline, Inv, AgentTypeOK, EditsHaveBaseline, Answers
<1>3. CASE baseline # NoFile
  <2> DEFINE n == [th[t] EXCEPT !.kept = file, !.text = baseline, !.pc = "destroy"]
  <2>1. /\ n \in Local /\ n.pc = "destroy" /\ n.kept = file
        /\ n.op = th[t].op /\ n.text = baseline
    BY LocalFields DEF Local, Pcs, Inv, AgentTypeOK
  <2>2. th' = [th EXCEPT ![t] = n] /\ lock' = lock
    BY <1>3 DEF LoadBaseline
  <2> HIDE DEF n
  <2>3. th'[t] = n => LocalInv(t)'
    BY <1>1, <1>3, <2>1, <2>2 DEF Inv, AgentTypeOK, BaselineNeverEdit, LocalInv, Busy
  <2> QED
    BY <1>1, <1>3, <2>1, <2>2, <2>3, HolderKeepsInv DEF Inv, AgentTypeOK, BaselineNeverEdit
<1> QED
  BY <1>2, <1>3

\* Destroying the lab stops what runs, or fails to.
LEMMA DestroyKeepsInv ==
    ASSUME Inv, NEW t \in Threads, Destroy(t) PROVE Inv'
<1>1. lock = t /\ th[t].pc = "destroy" /\ running' \in {Down, running}
      /\ UNCHANGED <<file, baseline, lock>>
  BY DEF Destroy, At, Inv, LocalInv
<1>2. PICK n \in Local :
            /\ th' = [th EXCEPT ![t] = n]
            /\ n.pc = "write"
            /\ n.op = th[t].op /\ n.text = th[t].text /\ n.kept = th[t].kept
  BY GotoFields DEF Destroy, Pcs
<1>3. th'[t] = n => LocalInv(t)'
  BY <1>1, <1>2 DEF Inv, LocalInv, Busy
<1>4. Down \notin Edits
  BY AgentAssumption DEF Topologies
<1> QED
  BY <1>1, <1>2, <1>3, <1>4, HolderKeepsInv
     DEF Inv, AgentTypeOK, BaselineNeverEdit, EditsHaveBaseline

\* An apply has a baseline by now, and a reset writes no edit.
LEMMA WriteTopologyKeepsInv ==
    ASSUME Inv, NEW t \in Threads, WriteTopology(t) PROVE Inv'
<1>1. /\ lock = t /\ th[t].pc = "write" /\ file' = th[t].text
      /\ th[t].op \in {"apply", "reset"} /\ th[t].text \in Topologies \cup {Torn}
      /\ UNCHANGED <<baseline, running, lock>>
  BY LocalFields DEF WriteTopology, At, Inv, LocalInv, Busy
<1>2. PICK n \in Local :
            /\ th' = [th EXCEPT ![t] = n]
            /\ n.pc = IF th[t].op = "apply" THEN "annotate" ELSE "deploy"
            /\ n.op = th[t].op /\ n.text = th[t].text /\ n.kept = th[t].kept
  BY GotoFields DEF WriteTopology, Pcs
<1>3. th'[t] = n => LocalInv(t)'
  BY <1>1, <1>2 DEF Inv, LocalInv, Busy
<1>4. file' \in Edits => baseline # NoFile
  BY <1>1 DEF Inv, LocalInv, Busy
<1> QED
  BY <1>1, <1>2, <1>3, <1>4, HolderKeepsInv
     DEF Inv, AgentTypeOK, BaselineNeverEdit, EditsHaveBaseline

\* The annotations fail: the file gets back what it held.
LEMMA WriteAnnotationsKeepsInv ==
    ASSUME Inv, NEW t \in Threads, WriteAnnotations(t) PROVE Inv'
<1>1. /\ lock = t /\ th[t].pc = "annotate" /\ th[t].kept \in Topologies \cup {Torn}
      /\ th[t].op = "apply" /\ baseline # NoFile
      /\ UNCHANGED <<baseline, running>>
  BY DEF WriteAnnotations, At, Inv, LocalInv, Busy
<1>2. CASE file' = th[t].kept /\ Return(t, "failed")
  BY <1>1, <1>2, ReturnKeepsInv DEF Inv, AgentTypeOK, Answers
<1>3. CASE Goto(t, "deploy") /\ UNCHANGED <<file, lock>>
  <2>1. PICK n \in Local :
              /\ th' = [th EXCEPT ![t] = n]
              /\ n.pc = "deploy"
              /\ n.op = th[t].op /\ n.text = th[t].text /\ n.kept = th[t].kept
    BY <1>3, GotoFields DEF Pcs
  <2>2. th'[t] = n => LocalInv(t)'
    BY <1>1, <1>3, <2>1 DEF Inv, LocalInv, Busy
  <2> QED
    BY <1>1, <1>3, <2>1, <2>2, HolderKeepsInv DEF Inv, AgentTypeOK, BaselineNeverEdit
<1> QED
  BY <1>2, <1>3 DEF WriteAnnotations

\* What a deployment may leave running has a baseline if it is an edit.
LEMMA DeploymentRuns ==
    ASSUME Inv, Deployed(running') \/ Broken(running')
    PROVE  /\ running' \in Topologies \cup {Down}
           /\ running' \in Edits => baseline # NoFile
  BY AgentAssumption DEF Inv, AgentTypeOK, EditsHaveBaseline, Deployed, Broken, Topologies

\* A deployment step that goes on, to be retried or rolled back.
LEMMA DeploymentGoesOn ==
    ASSUME Inv, NEW t \in Threads, th[t].pc \in {"deploy", "retry"},
           NEW pc \in {"retry", "restore"}, Goto(t, pc),
           Broken(running'), UNCHANGED <<file, baseline, lock>>
    PROVE  Inv'
<1>1. lock = t
  BY DEF Inv, LocalInv
<1>2. PICK n \in Local :
            /\ th' = [th EXCEPT ![t] = n]
            /\ n.pc = pc
            /\ n.op = th[t].op /\ n.text = th[t].text /\ n.kept = th[t].kept
  BY GotoFields DEF Pcs
<1>3. th'[t] = n => LocalInv(t)'
  BY <1>1, <1>2 DEF Inv, LocalInv, Busy
<1> QED
  BY <1>1, <1>2, <1>3, DeploymentRuns, HolderKeepsInv
     DEF Inv, AgentTypeOK, BaselineNeverEdit, EditsHaveBaseline

\* A deployment step that ends the request.
LEMMA DeploymentEnds ==
    ASSUME Inv, NEW t \in Threads, th[t].pc \in {"deploy", "retry", "rollback"},
           NEW a \in Answers, Return(t, a),
           Deployed(running') \/ Broken(running'),
           UNCHANGED <<file, baseline>>
    PROVE  Inv'
<1>1. lock = t
  BY DEF Inv, LocalInv
<1> QED
  BY <1>1, DeploymentRuns, ReturnKeepsInv DEF Inv, AgentTypeOK, EditsHaveBaseline

LEMMA DeployKeepsInv ==
    ASSUME Inv, NEW t \in Threads, Deploy(t) PROVE Inv'
<1>1. th[t].pc \in {"deploy", "retry", "rollback"} /\ th[t].pc \in {"deploy", "retry"}
      /\ UNCHANGED <<file, baseline>>
  BY DEF Deploy, At
<1>2. CASE Deployed(running') /\ Return(t, "ok")
  BY <1>1, <1>2, DeploymentEnds DEF Answers
<1>3. CASE Broken(running') /\ Goto(t, "retry") /\ UNCHANGED lock
  BY <1>1, <1>3, DeploymentGoesOn
<1>4. CASE Broken(running') /\ Goto(t, "restore") /\ UNCHANGED lock
  BY <1>1, <1>4, DeploymentGoesOn
<1> QED
  BY <1>2, <1>3, <1>4 DEF Deploy

LEMMA RetryKeepsInv ==
    ASSUME Inv, NEW t \in Threads, Retry(t) PROVE Inv'
<1>1. th[t].pc \in {"deploy", "retry", "rollback"} /\ th[t].pc \in {"deploy", "retry"}
      /\ UNCHANGED <<file, baseline>>
  BY DEF Retry, At
<1>2. CASE Deployed(running') /\ Return(t, "ok")
  BY <1>1, <1>2, DeploymentEnds DEF Answers
<1>3. CASE Broken(running') /\ Goto(t, "restore") /\ UNCHANGED lock
  BY <1>1, <1>3, DeploymentGoesOn
<1> QED
  BY <1>2, <1>3 DEF Retry

\* The file gets back what the operation read, which was not the failed edit.
LEMMA RestoreKeepsInv ==
    ASSUME Inv, NEW t \in Threads, Restore(t) PROVE Inv'
<1>1. /\ lock = t /\ th[t].pc = "restore" /\ file' = th[t].kept
      /\ th[t].kept \in Topologies \cup {Torn}
      /\ UNCHANGED <<baseline, running, lock>>
  BY DEF Restore, At, Inv, LocalInv, Busy
<1>2. PICK n \in Local :
            /\ th' = [th EXCEPT ![t] = n]
            /\ n.pc = "rollback"
            /\ n.op = th[t].op /\ n.text = th[t].text /\ n.kept = th[t].kept
  BY GotoFields DEF Restore, Pcs
<1>3. th'[t] = n => LocalInv(t)'
  BY <1>1, <1>2 DEF Inv, LocalInv, Busy
<1>4. th[t].kept \in Edits => baseline # NoFile
  BY DEF Inv, EditsHaveBaseline
<1> QED
  BY <1>1, <1>2, <1>3, <1>4, HolderKeepsInv
     DEF Inv, AgentTypeOK, BaselineNeverEdit, EditsHaveBaseline

LEMMA RollbackKeepsInv ==
    ASSUME Inv, NEW t \in Threads, Rollback(t) PROVE Inv'
<1>1. th[t].pc \in {"deploy", "retry", "rollback"} /\ UNCHANGED <<file, baseline>>
  BY DEF Rollback, At
<1> QED
  BY <1>1, DeploymentEnds DEF Rollback, Answers

\* What does not take the lock brings no edit in.
LEMMA OutsideKeepsInv ==
    ASSUME Inv, (\E y \in AdminTopologies : AdminUpdate(y)) \/ LabStart \/ LabStop
    PROVE  Inv'
<1>1. /\ file' \in AdminTopologies \cup {file}
      /\ running' \in Topologies \cup {Down}
      /\ running' \in Edits => running \in Edits \/ file \in Edits
      /\ UNCHANGED <<baseline, lock, th>>
  BY AgentAssumption
     DEF AdminUpdate, LabStart, LabStop, Deployed, Inv, AgentTypeOK, Topologies
<1>2. file' \notin Edits \/ file' = file
  BY <1>1, AgentAssumption
<1>3. AgentTypeOK'
  BY <1>1 DEF Inv, AgentTypeOK, Topologies
<1>4. BaselineNeverEdit' /\ EditsHaveBaseline'
  BY <1>1, <1>2 DEF Inv, BaselineNeverEdit, EditsHaveBaseline
<1>5. ASSUME NEW u \in Threads PROVE LocalInv(u)'
  <2>1. (file' # file => file' \notin Edits) /\ UNCHANGED <<baseline, lock, th>>
    BY <1>1, <1>2
  <2>2. LocalInv(u)
    BY DEF Inv
  <2> QED
    BY <2>1, <2>2 DEF LocalInv
<1> QED
  BY <1>3, <1>4, <1>5 DEF Inv

\* After a crash every thread is idle, and a file cut short is no edit.
LEMMA CrashKeepsInv ==
    ASSUME Inv, Crash PROVE Inv'
<1>1. /\ \A u \in Threads : th'[u] = Idle("none")
      /\ th' \in [Threads -> Local]
  BY DEF Crash, Idle, Local, Pcs, Answers
<1>2. /\ lock' = Nobody
      /\ file' \in {file, Torn} /\ baseline' \in {baseline, Torn}
      /\ running' \in {running, Down, file}
      /\ running' \in Topologies \cup {Down}
  BY DEF Crash, Broken, Inv, AgentTypeOK
<1>3. Down \notin Edits /\ NoFile \notin Edits /\ Torn \notin Edits /\ Torn # NoFile
  BY AgentAssumption DEF Topologies
<1>4. AgentTypeOK'
  BY <1>1, <1>2 DEF Inv, AgentTypeOK
<1>5. BaselineNeverEdit' /\ EditsHaveBaseline'
  BY <1>1, <1>2, <1>3 DEF Inv, BaselineNeverEdit, EditsHaveBaseline, Idle
<1>6. \A u \in Threads : LocalInv(u)'
  BY <1>1 DEF LocalInv, Idle, Busy
<1> QED
  BY <1>4, <1>5, <1>6 DEF Inv

\* Every step keeps the invariant.
LEMMA NextKeepsInv == Inv /\ [AgentNext]_vars => Inv'
<1> SUFFICES ASSUME Inv, [AgentNext]_vars PROVE Inv'
  OBVIOUS
<1>1. CASE \E t \in Threads, op \in {"apply", "reset"}, y \in Topologies \cup {NoFile} :
              Request(t, op, y)
  BY <1>1, RequestKeepsInv
<1>2. ASSUME NEW t \in Threads, Step(t) PROVE Inv'
  BY <1>2, AcquireKeepsInv, EnsureBaselineKeepsInv, ReadOriginalKeepsInv,
     LoadBaselineKeepsInv, DestroyKeepsInv, WriteTopologyKeepsInv,
     WriteAnnotationsKeepsInv, DeployKeepsInv, RetryKeepsInv, RestoreKeepsInv,
     RollbackKeepsInv DEF Step
<1>3. CASE (\E y \in AdminTopologies : AdminUpdate(y)) \/ LabStart \/ LabStop
  BY <1>3, OutsideKeepsInv
<1>4. CASE Crash
  BY <1>4, CrashKeepsInv
<1>5. CASE UNCHANGED vars
  BY <1>5 DEF vars, Inv, AgentTypeOK, BaselineNeverEdit, EditsHaveBaseline, LocalInv
<1> QED
  BY <1>1, <1>2, <1>3, <1>4, <1>5 DEF AgentNext

-----------------------------------------------------------------------------
(* The theorems.                                                           *)

\* The inductive invariant holds in every reachable state.
THEOREM InvHolds == AgentSpec => []Inv
<1> QED
  BY InitInv, NextKeepsInv, PTL DEF AgentSpec

\* Files, what runs, the lock and the threads keep their types: a thread never
\* deploys anything but a topology or what a crash left of one.
THEOREM AgentTypeCorrect == AgentSpec => []AgentTypeOK
<1>1. Inv => AgentTypeOK
  BY DEF Inv
<1> QED
  BY <1>1, InvHolds, PTL

\* _ensure_sandbox_baseline never copies a user's edit, in any interleaving of
\* applies, resets, admin updates, starts, stops and crashes.
THEOREM BaselineStaysClean == AgentSpec => []BaselineNeverEdit
<1>1. Inv => BaselineNeverEdit
  BY DEF Inv
<1> QED
  BY <1>1, InvHolds, PTL

\* Wherever a user's edit is, the reset finds a baseline.
THEOREM EditsCanBeReset == AgentSpec => []EditsHaveBaseline
<1>1. Inv => EditsHaveBaseline
  BY DEF Inv
<1> QED
  BY <1>1, InvHolds, PTL

\* The steps of a thread leave the local state of every other one alone.
LEMMA StepIsLocal ==
    ASSUME Inv, NEW t \in Threads, NEW u \in Threads, Step(u), u # t
    PROVE  th'[t] = th[t]
  BY DEF Inv, AgentTypeOK, Step, Acquire, EnsureBaseline, ReadOriginal, LoadBaseline,
         Destroy, WriteTopology, WriteAnnotations, Deploy, Retry, Restore, Rollback,
         Goto, Return

\* A request is answered by a step of its own thread, or lost in a crash.
LEMMA WhoAnswers ==
    ASSUME Inv, AgentNext, NEW t \in Threads, Answering(t)
    PROVE  Step(t) \/ (Crash /\ th'[t].answer = "none")
<1>1. th'[t] # th[t]
  BY DEF Answering
<1>2. ASSUME NEW u \in Threads, NEW op \in {"apply", "reset"},
             NEW y \in Topologies \cup {NoFile}, Request(u, op, y)
      PROVE  FALSE
  BY <1>1, <1>2 DEF Request, At, Answering, Inv, AgentTypeOK
<1>3. CASE Crash
  BY <1>3 DEF Crash, Idle
<1>4. CASE (\E y \in AdminTopologies : AdminUpdate(y)) \/ LabStart \/ LabStop
  BY <1>1, <1>4 DEF AdminUpdate, LabStart, LabStop
<1> QED
  BY <1>1, <1>2, <1>3, <1>4, StepIsLocal DEF AgentNext

\* How a step of a thread answers: what it read at its program counter and what
\* it leaves in the file and running.
LEMMA HowAnswered ==
    ASSUME Inv, NEW t \in Threads, Step(t), Answering(t), th'[t].answer # "unchanged"
    PROVE  \/ /\ th[t].pc \in {"lock", "read"} /\ th'[t].answer = "failed"
              /\ th[t].kept = NoFile \/ th[t].op = "reset"
           \/ th[t].pc = "annotate" /\ th'[t].answer = "failed" /\ file' = th[t].kept
           \/ /\ th[t].pc \in {"deploy", "retry"} /\ th'[t].answer = "ok"
              /\ Deployed(running') /\ file' = file
           \/ /\ th[t].pc = "rollback" /\ file' = file
              /\ \/ th'[t].answer = "restored" /\ Deployed(running')
                 \/ th'[t].answer = "failed"
<1>1. \A x : Return(t, x) => th'[t].answer = x
  BY DEF Return, Idle, Inv, AgentTypeOK
<1>2. \A pc : Goto(t, pc) => th'[t].pc = pc
  BY LocalFields DEF Goto, Inv, AgentTypeOK, Local
<1>3. th'[t].pc = "idle"
  BY DEF Answering
<1>4. th[t].pc = "lock" => th[t].kept = NoFile
  BY DEF Inv, LocalInv
<1>5. CASE Acquire(t)
  BY <1>1, <1>2, <1>3, <1>4, <1>5 DEF Acquire, At
<1>6. CASE ReadOriginal(t)
  <2>1. th' = [th EXCEPT ![t].kept = file, ![t].pc = "destroy"] => th'[t].pc = "destroy"
    BY LocalFields DEF Local, Inv, AgentTypeOK
  <2>2. Return(t, "unchanged")
    BY <1>3, <1>6, <2>1 DEF ReadOriginal
  <2> QED
    BY <1>1, <2>2
<1>7. CASE LoadBaseline(t)
  <2>1. th' = [th EXCEPT ![t].kept = file, ![t].text = baseline, ![t].pc = "destroy"]
            => th'[t].pc = "destroy"
    BY LocalFields DEF Local, Inv, AgentTypeOK
  <2>2. Return(t, "failed")
    BY <1>3, <1>7, <2>1 DEF LoadBaseline
  <2> QED
    BY <1>1, <1>7, <2>2 DEF LoadBaseline, At
<1>8. CASE EnsureBaseline(t) \/ Destroy(t) \/ WriteTopology(t) \/ Restore(t)
  BY <1>2, <1>3, <1>8 DEF EnsureBaseline, Destroy, WriteTopology, Restore
<1>9. CASE WriteAnnotations(t)
  BY <1>1, <1>2, <1>3, <1>9 DEF WriteAnnotations, At
<1>10. CASE Deploy(t) \/ Retry(t)
  BY <1>1, <1>2, <1>3, <1>10 DEF Deploy, Retry, At
<1>11. CASE Rollback(t)
  BY <1>1, <1>11 DEF Rollback, At
<1> QED
  BY <1>5, <1>6, <1>7, <1>8, <1>9, <1>10, <1>11 DEF Step

\* A failed apply withdraws its edit from the file, and a rollback that is
\* reported as done does not run it.
THEOREM FailedEditsWithdrawn == AgentSpec => FailedEditWithdrawn
<1>1. ASSUME Inv, AgentNext, NEW t \in Threads, Answering(t),
             th[t].op = "apply", th[t].text \in Edits, th[t].kept # NoFile
      PROVE  /\ th'[t].answer \in {"failed", "restored"} => file' # th[t].text
             /\ th'[t].answer = "restored" => running' # th[t].text
  <2>1. CASE Crash /\ th'[t].answer = "none"
    BY <2>1
  <2>2. CASE Step(t)
    <3>1. th[t].pc \in {"annotate"} => th[t].kept # th[t].text
      BY <1>1 DEF Inv, LocalInv, Busy
    <3>2. th[t].pc = "rollback" => file # th[t].text
      BY <1>1 DEF Inv, LocalInv
    <3> QED
      BY <1>1, <2>2, <3>1, <3>2, HowAnswered DEF Deployed
  <2> QED
    BY <1>1, <2>1, <2>2, WhoAnswers
<1>2. Inv /\ [AgentNext]_vars =>
          [\A t \in Threads :
              /\ Answering(t) /\ th[t].op = "apply" /\ th[t].text \in Edits
              /\ th[t].kept # NoFile
              => /\ th'[t].answer \in {"failed", "restored"} => file' # th[t].text
                 /\ th'[t].answer = "restored" => running' # th[t].text]_vars
  BY <1>1
<1> QED
  BY <1>2, InvHolds, PTL DEF AgentSpec, FailedEditWithdrawn

\* A reset that answers ok leaves no user's edit, in the file or running.
THEOREM ResetsRemoveEdits == AgentSpec => ResetRemovesEdits
<1>1. ASSUME Inv, AgentNext, NEW t \in Threads, Answering(t),
             th[t].op = "reset", th'[t].answer = "ok"
      PROVE  file' \notin Edits /\ running' \notin Edits
  <2>1. Step(t)
    BY <1>1, WhoAnswers
  <2>2. /\ th[t].pc \in {"deploy", "retry"} /\ Deployed(running') /\ file' = file
    BY <1>1, <2>1, HowAnswered
  <2>3. file \notin Edits
    BY <1>1, <2>2 DEF Inv, LocalInv
  <2> QED
    BY <2>2, <2>3 DEF Deployed
<1>2. Inv /\ [AgentNext]_vars =>
          [\A t \in Threads :
              Answering(t) /\ th[t].op = "reset" /\ th'[t].answer = "ok" =>
                  file' \notin Edits /\ running' \notin Edits]_vars
  BY <1>1
<1> QED
  BY <1>2, InvHolds, PTL DEF AgentSpec, ResetRemovesEdits

-----------------------------------------------------------------------------
(* The operations are atomic: the agent implements AtomicLab.              *)

\* What the file holds while a thread replaces it: before the write what it
\* has read, afterwards what it was asked for; or what an admin has saved since.
FileInv(t) ==
    /\ th[t].pc = "idle" => th[t].op = "none"
    /\ Replacing(t) =>
          file \in AdminTopologies
                      \cup {IF th[t].pc \in {"destroy", "write"} THEN th[t].kept ELSE th[t].text}

AtomInv == \A t \in Threads : FileInv(t)

\* Which topology the lab has, seen from outside.
LEMMA SettledTopology ==
    /\ lock = Nobody => Settled = file
    /\ \A t \in Threads : lock = t => Settled = IF Replacing(t) THEN th[t].kept ELSE file
  BY AgentAssumption DEF Settled

LEMMA SettledTopologyNext ==
    /\ lock' = Nobody => Settled' = file'
    /\ \A t \in Threads :
          lock' = t => Settled' = IF Replacing(t)' THEN th'[t].kept ELSE file'
  BY AgentAssumption DEF Settled

\* A thread that goes on has answered nobody.
LEMMA ClientStays ==
    ASSUME Inv, NEW t \in Threads, NEW n \in Local, th' = [th EXCEPT ![t] = n],
           n.op = th[t].op, n.answer = th[t].answer,
           n.op = "apply" => n.text = th[t].text
    PROVE  Client' = Client
<1>1. \A u \in Threads : th'[u] = IF u = t THEN n ELSE th[u]
  BY DEF Inv, AgentTypeOK
<1> QED
  BY <1>1 DEF Client

LEMMA GotoStays ==
    ASSUME Inv, NEW t \in Threads, NEW pc \in Pcs, Goto(t, pc)
    PROVE  /\ Client' = Client
           /\ th'[t].pc = pc /\ th'[t].op = th[t].op
           /\ th'[t].text = th[t].text /\ th'[t].kept = th[t].kept
<1> DEFINE n == [th[t] EXCEPT !.pc = pc]
<1>1. /\ n \in Local /\ n.pc = pc /\ n.op = th[t].op /\ n.text = th[t].text
      /\ n.kept = th[t].kept /\ n.answer = th[t].answer
  BY LocalFields DEF Local
<1>2. th' = [th EXCEPT ![t] = n]
  BY DEF Goto
<1> HIDE DEF n
<1>3. th'[t] = n
  BY <1>2 DEF Inv, AgentTypeOK
<1> QED
  BY <1>1, <1>2, <1>3, ClientStays

\* A thread that returns answers its client.
LEMMA ReturnAnswers ==
    ASSUME Inv, NEW t \in Threads, NEW a, Return(t, a), th[t].op # "none"
    PROVE  /\ Abstract!Answer(t, a)
           /\ lock' = Nobody /\ Settled' = file'
<1>1. \A u \in Threads : th'[u] = IF u = t THEN Idle(a) ELSE th[u]
  BY DEF Inv, AgentTypeOK, Return
<1>2. Client' = [Client EXCEPT ![t] = Abstract!Done(a)]
  <2>1. /\ Idle(a).op = "none" /\ Idle(a).answer = a
        /\ Abstract!Done(a) = [op |-> "none", answer |-> a, text |-> NoFile]
    BY DEF Idle, Abstract!Done
  <2>2. ASSUME NEW u \in Threads
        PROVE  [op |-> th'[u].op, answer |-> th'[u].answer,
                text |-> IF th'[u].op = "apply" THEN th'[u].text ELSE NoFile]
                  = [Client EXCEPT ![t] = Abstract!Done(a)][u]
    <3>1. CASE u = t
      BY <1>1, <2>1, <3>1 DEF Client
    <3>2. CASE u # t
      BY <1>1, <3>2 DEF Client
    <3> QED
      BY <3>1, <3>2
  <2> QED
    BY <2>2 DEF Client
<1>3. Abstract!Open(t)
  BY DEF Abstract!Open, Client
<1> QED
  BY <1>2, <1>3, SettledTopologyNext DEF Abstract!Answer, Return

\* The file holds nothing that AtomicLab does not expect.
LEMMA FileIsLeftover ==
    ASSUME Inv, AtomInv
    PROVE  file \in Abstract!Leftovers
<1>1. CASE lock \in Threads /\ Replacing(lock)
  <2>1. /\ th[lock].op \in {"apply", "reset"} /\ FileInv(lock) /\ Settled = th[lock].kept
        /\ th[lock].op = "reset" => th[lock].text \notin Edits
        /\ th[lock].text \in Topologies \cup {Torn}
    BY <1>1, LocalFields DEF Inv, LocalInv, AtomInv, Replacing, Settled, Busy
  <2>2. Abstract!Open(lock) /\ Client[lock].op = th[lock].op
    BY <1>1, <2>1 DEF Abstract!Open, Client
  <2>3. CASE th[lock].op = "apply"
    <3>1. Client[lock].text = th[lock].text
      BY <1>1, <2>3 DEF Client
    <3> QED
      BY <1>1, <2>1, <2>2, <2>3, <3>1 DEF FileInv, Abstract!Leftovers
  <2>4. CASE th[lock].op = "reset"
    BY <1>1, <2>1, <2>2, <2>4 DEF FileInv, Abstract!Leftovers, Topologies
  <2> QED
    BY <2>1, <2>3, <2>4
<1>2. CASE ~(lock \in Threads /\ Replacing(lock))
  BY <1>2 DEF Settled, Abstract!Leftovers
<1> QED
  BY <1>1, <1>2

\* One lemma per action: it is a step of the atomic lab or none, and keeps what
\* is known of the file.
AtomStep == [Abstract!LabNext]_(Abstract!labVars)

LEMMA RequestAsks ==
    ASSUME Inv, AtomInv, NEW t \in Threads, NEW op \in {"apply", "reset"},
           NEW y \in Topologies \cup {NoFile}, Request(t, op, y)
    PROVE  AtomStep /\ FileInv(t)'
<1> DEFINE n == [pc |-> "lock", op |-> op, text |-> y, kept |-> NoFile, answer |-> "none"]
<1>1. /\ \A u \in Threads : th'[u] = IF u = t THEN n ELSE th[u]
      /\ UNCHANGED <<file, running, lock>> /\ th[t].pc = "idle" /\ th[t].op = "none"
      /\ op = "reset" => y = NoFile
  BY AgentAssumption DEF Inv, AgentTypeOK, AtomInv, FileInv, Request, At
<1>2. FileInv(t)'
  BY <1>1 DEF FileInv, Replacing
<1>3. Settled' = Settled
  <2>1. CASE lock \in Threads /\ Replacing(lock)
    <3>1. lock # t
      BY <1>1, <2>1 DEF Replacing
    <3> QED
      BY <1>1, <2>1, <3>1 DEF Settled, Replacing
  <2>2. CASE ~(lock \in Threads /\ Replacing(lock))
    BY <1>1, <2>2 DEF Settled, Replacing
  <2> QED
    BY <2>1, <2>2
<1>4. Client' = [Client EXCEPT ![t] = [op |-> op, text |-> y, answer |-> "none"]]
  <2>1. n.op = op /\ n.answer = "none" /\ n.text = y
    OBVIOUS
  <2> HIDE DEF n
  <2>2. y = IF op = "apply" THEN y ELSE NoFile
    BY <1>1
  <2>3. ASSUME NEW u \in Threads
        PROVE  [op |-> th'[u].op, answer |-> th'[u].answer,
                text |-> IF th'[u].op = "apply" THEN th'[u].text ELSE NoFile]
                  = [Client EXCEPT ![t] = [op |-> op, text |-> y, answer |-> "none"]][u]
    <3>1. CASE u = t
      BY <1>1, <2>1, <2>2, <3>1 DEF Client
    <3>2. CASE u # t
      BY <1>1, <3>2 DEF Client
    <3> QED
      BY <3>1, <3>2
  <2> QED
    BY <2>3 DEF Client
<1>5. ~Abstract!Open(t)
  BY <1>1 DEF Abstract!Open, Client
<1>6. Abstract!Ask(t, op, y)
  BY <1>1, <1>3, <1>4, <1>5 DEF Abstract!Ask
<1> QED
  BY <1>2, <1>6 DEF AtomStep, Abstract!LabNext, Topologies

LEMMA ReturnIdles ==
    ASSUME Inv, NEW t \in Threads, NEW a, Return(t, a)
    PROVE  FileInv(t)'
<1>1. th'[t] = Idle(a)
  BY DEF Inv, AgentTypeOK, Return
<1> QED
  BY <1>1 DEF FileInv, Idle, Replacing

\* A thread that answers "failed" with the topology as it was.
LEMMA FailureIsStep ==
    ASSUME Inv, NEW t \in Threads, th[t].pc # "idle", Return(t, "failed"),
           file' = Settled, Abstract!Up(running')
    PROVE  AtomStep /\ FileInv(t)'
<1>1. /\ Abstract!Answer(t, "failed") /\ Settled' = Settled
  BY ReturnAnswers DEF Inv, LocalInv
<1>2. Abstract!Fail(t)
  BY <1>1 DEF Abstract!Fail
<1> QED
  BY <1>2, ReturnIdles DEF AtomStep, Abstract!LabNext

\* A thread that goes on with the topology as it was.
LEMMA QuietStep ==
    ASSUME Client' = Client, Settled' = Settled, Abstract!Up(running')
    PROVE  AtomStep
<1>1. Abstract!StartOrStop
  BY DEF Abstract!StartOrStop
<1> QED
  BY <1>1 DEF AtomStep, Abstract!LabNext

\* What runs stays, stops, or is replaced by what a broken deployment leaves.
LEMMA StaysUp ==
    ASSUME running' \in {Down, running} PROVE Abstract!Up(running')
  BY DEF Abstract!Up

LEMMA BrokenIsUp ==
    ASSUME Inv, AtomInv, Broken(running') PROVE Abstract!Up(running')
  BY FileIsLeftover, AgentAssumption DEF Broken, Abstract!Up, Topologies

LEMMA AcquireIsStep ==
    ASSUME Inv, AtomInv, NEW t \in Threads, Acquire(t)
    PROVE  AtomStep /\ FileInv(t)'
<1>1. /\ lock = Nobody /\ Settled = file /\ UNCHANGED <<file, running>>
      /\ th[t].pc = "lock"
  BY SettledTopology DEF Acquire, At
<1>2. CASE Return(t, "failed")
  BY <1>1, <1>2, StaysUp, FailureIsStep
<1>3. ASSUME NEW pc \in {"baseline", "read"}, lock' = t, Goto(t, pc)
      PROVE  AtomStep /\ FileInv(t)'
  <2>1. Client' = Client /\ th'[t].pc = pc
    BY <1>3, GotoStays DEF Pcs
  <2>2. Settled' = Settled /\ FileInv(t)'
    BY <1>1, <1>3, <2>1, SettledTopologyNext DEF Replacing, FileInv
  <2> QED
    BY <1>1, <2>1, <2>2, StaysUp, QuietStep
<1> QED
  BY <1>2, <1>3 DEF Acquire

LEMMA EnsureBaselineIsStep ==
    ASSUME Inv, AtomInv, NEW t \in Threads, EnsureBaseline(t)
    PROVE  AtomStep /\ FileInv(t)'
<1>1. /\ lock = t /\ lock' = t /\ UNCHANGED <<file, running>> /\ th[t].pc = "baseline"
  BY DEF EnsureBaseline, At, Inv, LocalInv
<1>2. Client' = Client /\ th'[t].pc = "read"
  BY GotoStays DEF EnsureBaseline, Pcs
<1>3. Settled' = Settled /\ FileInv(t)'
  BY <1>1, <1>2, SettledTopology, SettledTopologyNext DEF Replacing, FileInv
<1> QED
  BY <1>1, <1>2, <1>3, StaysUp, QuietStep

LEMMA ReadOriginalIsStep ==
    ASSUME Inv, AtomInv, NEW t \in Threads, ReadOriginal(t)
    PROVE  AtomStep /\ FileInv(t)'
<1>1. /\ lock = t /\ UNCHANGED <<file, running>> /\ Settled = file
      /\ th[t].pc = "read" /\ th[t].op = "apply"
  BY SettledTopology DEF ReadOriginal, At, Inv, LocalInv, Replacing
<1>2. CASE th[t].text = file /\ Return(t, "unchanged")
  <2>1. Abstract!Answer(t, "unchanged") /\ Settled' = Settled
    BY <1>1, <1>2, ReturnAnswers
  <2>2. Client[t].op = "apply" /\ Client[t].text = Settled
    BY <1>1, <1>2 DEF Client
  <2>3. Abstract!Skip(t)
    BY <1>1, <2>1, <2>2 DEF Abstract!Skip
  <2> QED
    BY <1>2, <2>3, ReturnIdles DEF AtomStep, Abstract!LabNext
<1>3. CASE th' = [th EXCEPT ![t].kept = file, ![t].pc = "destroy"] /\ UNCHANGED lock
  <2> DEFINE n == [th[t] EXCEPT !.kept = file, !.pc = "destroy"]
  <2>1. /\ n \in Local /\ n.pc = "destroy" /\ n.kept = file /\ n.op = th[t].op
        /\ n.answer = th[t].answer /\ n.text = th[t].text
    BY LocalFields DEF Local, Pcs, Inv, AgentTypeOK
  <2>2. th' = [th EXCEPT ![t] = n] /\ th'[t] = n
    BY <1>3 DEF Inv, AgentTypeOK
  <2> HIDE DEF n
  <2>3. Client' = Client
    BY <2>1, <2>2, ClientStays
  <2>4. Settled' = Settled /\ FileInv(t)'
    BY <1>1, <1>3, <2>1, <2>2, SettledTopologyNext DEF Replacing, FileInv
  <2> QED
    BY <1>1, <2>3, <2>4, StaysUp, QuietStep
<1> QED
  BY <1>2, <1>3 DEF ReadOriginal

LEMMA LoadBaselineIsStep ==
    ASSUME Inv, AtomInv, NEW t \in Threads, LoadBaseline(t)
    PROVE  AtomStep /\ FileInv(t)'
<1>1. /\ lock = t /\ UNCHANGED <<file, running>> /\ Settled = file
      /\ th[t].pc = "read" /\ th[t].op = "reset"
  BY SettledTopology DEF LoadBaseline, At, Inv, LocalInv, Replacing
<1>2. CASE Return(t, "failed")
  BY <1>1, <1>2, StaysUp, FailureIsStep
<1>3. CASE /\ th' = [th EXCEPT ![t].kept = file, ![t].text = baseline, ![t].pc = "destroy"]
           /\ UNCHANGED lock
  <2> DEFINE n == [th[t] EXCEPT !.kept = file, !.text = baseline, !.pc = "destroy"]
  <2>1. /\ n \in Local /\ n.pc = "destroy" /\ n.kept = file /\ n.op = "reset"
        /\ n.answer = th[t].answer
    BY <1>1, LocalFields DEF Local, Pcs, Inv, AgentTypeOK
  <2>2. th' = [th EXCEPT ![t] = n] /\ th'[t] = n
    BY <1>3 DEF Inv, AgentTypeOK
  <2> HIDE DEF n
  <2>3. Client' = Client
    BY <1>1, <2>1, <2>2, ClientStays
  <2>4. Settled' = Settled /\ FileInv(t)'
    BY <1>1, <1>3, <2>1, <2>2, SettledTopologyNext DEF Replacing, FileInv
  <2> QED
    BY <1>1, <2>3, <2>4, StaysUp, QuietStep
<1> QED
  BY <1>2, <1>3 DEF LoadBaseline

\* While the topology is replaced the lab keeps its old one.
LEMMA ReplacingGoesOn ==
    ASSUME Inv, NEW t \in Threads, Replacing(t),
           NEW pc \in {"destroy", "write", "annotate", "deploy", "retry", "restore"},
           Goto(t, pc), UNCHANGED lock
    PROVE  /\ Client' = Client /\ Settled' = Settled
           /\ th'[t].pc = pc /\ th'[t].text = th[t].text /\ th'[t].kept = th[t].kept
<1>1. /\ Client' = Client /\ th'[t].pc = pc
      /\ th'[t].text = th[t].text /\ th'[t].kept = th[t].kept
  BY GotoStays DEF Pcs
<1>2. lock = t /\ lock' = t
  BY DEF Inv, LocalInv, Replacing
<1>3. Replacing(t)'
  BY <1>1 DEF Replacing
<1> QED
  BY <1>1, <1>2, <1>3, SettledTopology, SettledTopologyNext

LEMMA DestroyIsStep ==
    ASSUME Inv, AtomInv, NEW t \in Threads, Destroy(t)
    PROVE  AtomStep /\ FileInv(t)'
<1>1. th[t].pc = "destroy" /\ Replacing(t) /\ running' \in {Down, running} /\ file' = file
  BY DEF Destroy, At, Replacing
<1>2. /\ Client' = Client /\ Settled' = Settled
      /\ th'[t].pc = "write" /\ th'[t].kept = th[t].kept
  BY <1>1, ReplacingGoesOn DEF Destroy
<1>3. FileInv(t)'
  BY <1>1, <1>2 DEF AtomInv, FileInv
<1> QED
  BY <1>1, <1>2, <1>3, StaysUp, QuietStep

LEMMA WriteTopologyIsStep ==
    ASSUME Inv, AtomInv, NEW t \in Threads, WriteTopology(t)
    PROVE  AtomStep /\ FileInv(t)'
<1>1. th[t].pc = "write" /\ Replacing(t) /\ running' = running /\ file' = th[t].text
  BY DEF WriteTopology, At, Replacing
<1>2. PICK pc \in {"annotate", "deploy"} : Goto(t, pc)
  BY DEF WriteTopology
<1>3. /\ Client' = Client /\ Settled' = Settled
      /\ th'[t].pc = pc /\ th'[t].text = th[t].text
  BY <1>1, <1>2, ReplacingGoesOn DEF WriteTopology
<1>4. FileInv(t)'
  BY <1>1, <1>2, <1>3 DEF FileInv
<1> QED
  BY <1>1, <1>3, <1>4, StaysUp, QuietStep

LEMMA WriteAnnotationsIsStep ==
    ASSUME Inv, AtomInv, NEW t \in Threads, WriteAnnotations(t)
    PROVE  AtomStep /\ FileInv(t)'
<1>1. /\ th[t].pc = "annotate" /\ Replacing(t) /\ running' = running
      /\ Settled = th[t].kept
  BY SettledTopology DEF WriteAnnotations, At, Replacing, Inv, LocalInv
<1>2. CASE Goto(t, "deploy") /\ UNCHANGED <<file, lock>>
  <2>1. /\ Client' = Client /\ Settled' = Settled
        /\ th'[t].pc = "deploy" /\ th'[t].text = th[t].text
    BY <1>1, <1>2, ReplacingGoesOn
  <2>2. FileInv(t)'
    BY <1>1, <1>2, <2>1 DEF AtomInv, FileInv
  <2> QED
    BY <1>1, <2>1, <2>2, StaysUp, QuietStep
<1>3. CASE file' = th[t].kept /\ Return(t, "failed")
  BY <1>1, <1>3, StaysUp, FailureIsStep
<1> QED
  BY <1>2, <1>3 DEF WriteAnnotations

\* The deployment that ends an operation: it runs what was asked for, or what an
\* admin has saved since.
LEMMA DeploymentSucceeds ==
    ASSUME Inv, AtomInv, NEW t \in Threads, th[t].pc \in {"deploy", "retry"},
           Deployed(running'), Return(t, "ok"), file' = file
    PROVE  AtomStep /\ FileInv(t)'
<1>1. /\ th[t].op \in {"apply", "reset"} /\ file \in AdminTopologies \cup {th[t].text}
      /\ th[t].op = "reset" => th[t].text \notin Edits
      /\ file \in Topologies /\ running' = file
  BY LocalFields DEF Inv, LocalInv, AtomInv, FileInv, Replacing, Busy, Deployed
<1>2. Abstract!Answer(t, "ok") /\ Settled' = file
  BY <1>1, ReturnAnswers
<1>3. Settled' \in AdminTopologies \/ (Client[t].op = "apply" /\ Settled' = Client[t].text)
  BY <1>1, <1>2 DEF Client, Topologies
<1>4. Abstract!Succeed(t)
  BY <1>1, <1>2, <1>3 DEF Abstract!Succeed
<1> QED
  BY <1>4, ReturnIdles DEF AtomStep, Abstract!LabNext

LEMMA DeploymentFails ==
    ASSUME Inv, AtomInv, NEW t \in Threads, th[t].pc \in {"deploy", "retry"},
           Broken(running'), NEW pc \in {"retry", "restore"}, Goto(t, pc),
           UNCHANGED <<file, lock>>
    PROVE  AtomStep /\ FileInv(t)'
<1>1. /\ Client' = Client /\ Settled' = Settled
      /\ th'[t].pc = pc /\ th'[t].text = th[t].text
  BY ReplacingGoesOn DEF Replacing
<1>2. FileInv(t)'
  BY <1>1 DEF AtomInv, FileInv, Replacing
<1> QED
  BY <1>1, <1>2, BrokenIsUp, QuietStep

LEMMA DeployIsStep ==
    ASSUME Inv, AtomInv, NEW t \in Threads, Deploy(t) \/ Retry(t)
    PROVE  AtomStep /\ FileInv(t)'
<1>1. th[t].pc \in {"deploy", "retry"} /\ file' = file
  BY DEF Deploy, Retry, At
<1>2. CASE Deployed(running') /\ Return(t, "ok")
  BY <1>1, <1>2, DeploymentSucceeds
<1>3. CASE \E pc \in {"retry", "restore"} :
               Broken(running') /\ Goto(t, pc) /\ UNCHANGED lock
  BY <1>1, <1>3, DeploymentFails
<1> QED
  BY <1>2, <1>3 DEF Deploy, Retry

LEMMA RestoreIsStep ==
    ASSUME Inv, AtomInv, NEW t \in Threads, Restore(t)
    PROVE  AtomStep /\ FileInv(t)'
<1>1. /\ lock = t /\ lock' = t /\ Settled = th[t].kept
      /\ file' = th[t].kept /\ running' = running
  BY SettledTopology DEF Restore, At, Replacing, Inv, LocalInv
<1>2. Client' = Client /\ th'[t].pc = "rollback"
  BY GotoStays DEF Restore, Pcs
<1>3. Settled' = Settled /\ FileInv(t)'
  BY <1>1, <1>2, SettledTopologyNext DEF Replacing, FileInv
<1> QED
  BY <1>1, <1>2, <1>3, StaysUp, QuietStep

LEMMA RollbackIsStep ==
    ASSUME Inv, AtomInv, NEW t \in Threads, Rollback(t)
    PROVE  AtomStep /\ FileInv(t)'
<1>1. /\ th[t].pc = "rollback" /\ th[t].op # "none" /\ file' = file /\ Settled = file
  BY SettledTopology DEF Rollback, At, Replacing, Inv, LocalInv
<1>2. CASE Deployed(running') /\ Return(t, "restored")
  <2>1. Abstract!Answer(t, "restored") /\ Settled' = Settled
    BY <1>1, <1>2, ReturnAnswers
  <2>2. Abstract!Restored(t)
    BY <1>1, <1>2, <2>1 DEF Abstract!Restored, Deployed
  <2> QED
    BY <1>2, <2>2, ReturnIdles DEF AtomStep, Abstract!LabNext
<1>3. CASE Broken(running') /\ Return(t, "failed")
  BY <1>1, <1>3, BrokenIsUp, FailureIsStep
<1> QED
  BY <1>2, <1>3 DEF Rollback

\* An admin's topology counts at once, or after the operation under way.
LEMMA OutsideIsStep ==
    ASSUME Inv, AtomInv, (\E y \in AdminTopologies : AdminUpdate(y)) \/ LabStart \/ LabStop
    PROVE  AtomStep /\ AtomInv'
<1>1. UNCHANGED <<th, lock>> /\ file' \in AdminTopologies \cup {file}
  BY DEF AdminUpdate, LabStart, LabStop
<1>2. AtomInv'
  BY <1>1 DEF AtomInv, FileInv, Replacing
<1>3. Client' = Client /\ (file' = file => Settled' = Settled)
  BY <1>1 DEF Client, Settled, Replacing
<1>4. ASSUME NEW y \in AdminTopologies, AdminUpdate(y) PROVE AtomStep
  <2>1. CASE lock \in Threads /\ Replacing(lock)
    <3>1. Settled' = Settled /\ running' = running
      BY <1>1, <1>4, <2>1 DEF AdminUpdate, Settled, Replacing
    <3> QED
      BY <1>3, <3>1, StaysUp, QuietStep
  <2>2. CASE ~(lock \in Threads /\ Replacing(lock))
    <3>1. Settled' = y /\ running' = running
      BY <1>1, <1>4, <2>2 DEF AdminUpdate, Settled, Replacing
    <3>2. Abstract!Save(y)
      BY <1>3, <3>1 DEF Abstract!Save
    <3> QED
      BY <3>2 DEF AtomStep, Abstract!LabNext
  <2> QED
    BY <2>1, <2>2
<1>5. CASE LabStart
  <2>1. running = Down /\ running' = file /\ file \in Topologies /\ file' = file
    BY <1>5 DEF LabStart, Deployed
  <2>2. running' \in Abstract!Leftovers \ {Torn}
    BY <2>1, FileIsLeftover, AgentAssumption
  <2>3. Abstract!Up(running')
    BY <2>2 DEF Abstract!Up
  <2> QED
    BY <1>2, <1>3, <2>1, <2>3, QuietStep
<1>6. CASE LabStop
  BY <1>2, <1>3, <1>6, StaysUp, QuietStep DEF LabStop
<1> QED
  BY <1>2, <1>4, <1>5, <1>6

\* A crash leaves the lab with what the file holds at that moment.
LEMMA CrashIsStep ==
    ASSUME Inv, AtomInv, Crash
    PROVE  AtomStep /\ AtomInv'
<1>1. /\ \A t \in Threads : th'[t] = Idle("none")
      /\ lock' = Nobody /\ (running' = running \/ Broken(running'))
  BY DEF Crash
<1>2. Settled' = file'
  BY <1>1, SettledTopologyNext
<1>3. Client' = [t \in Threads |-> Abstract!Done("none")]
  <2>1. /\ Idle("none").op = "none" /\ Idle("none").answer = "none"
        /\ Abstract!Done("none") = [op |-> "none", answer |-> "none", text |-> NoFile]
    BY DEF Idle, Abstract!Done
  <2>2. \A t \in Threads :
           [op |-> th'[t].op, answer |-> th'[t].answer,
            text |-> IF th'[t].op = "apply" THEN th'[t].text ELSE NoFile]
              = Abstract!Done("none")
    BY <1>1, <2>1
  <2> QED
    BY <2>2 DEF Client
<1>4. file' \in Abstract!Leftovers \cup {Torn} /\ Abstract!Up(running')
  BY <1>1, FileIsLeftover, StaysUp, BrokenIsUp DEF Crash
<1>5. AtomInv'
  BY <1>1 DEF AtomInv, FileInv, Idle, Replacing
<1>6. Abstract!Crash
  BY <1>1, <1>2, <1>3, <1>4 DEF Abstract!Crash
<1> QED
  BY <1>5, <1>6 DEF AtomStep, Abstract!LabNext

\* The steps of one thread leave the others with nothing to replace.
LEMMA OthersKeepFileInv ==
    ASSUME Inv, AtomInv, NEW t \in Threads, FileInv(t)',
           \A u \in Threads \ {t} : th'[u] = th[u],
           file' = file \/ lock \in {t, Nobody}
    PROVE  AtomInv'
<1> SUFFICES ASSUME NEW u \in Threads, u # t PROVE FileInv(u)'
  BY DEF AtomInv
<1>1. th'[u] = th[u] /\ FileInv(u)
  BY DEF AtomInv
<1>2. lock \in {t, Nobody} => ~Replacing(u)
  BY OthersWait DEF Replacing
<1> QED
  BY <1>1, <1>2 DEF FileInv, Replacing

LEMMA NextIsAtomStep == Inv /\ AtomInv /\ [AgentNext]_vars => AtomStep /\ AtomInv'
<1> SUFFICES ASSUME Inv, AtomInv, [AgentNext]_vars PROVE AtomStep /\ AtomInv'
  OBVIOUS
<1>1. ASSUME NEW t \in Threads, NEW op \in {"apply", "reset"},
             NEW y \in Topologies \cup {NoFile}, Request(t, op, y)
      PROVE  AtomStep /\ AtomInv'
  <2>1. file' = file /\ \A u \in Threads \ {t} : th'[u] = th[u]
    BY <1>1 DEF Request, Inv, AgentTypeOK
  <2> QED
    BY <1>1, <2>1, RequestAsks, OthersKeepFileInv
<1>2. ASSUME NEW t \in Threads, Step(t) PROVE AtomStep /\ AtomInv'
  <2>1. AtomStep /\ FileInv(t)'
    BY <1>2, AcquireIsStep, EnsureBaselineIsStep, ReadOriginalIsStep, LoadBaselineIsStep,
       DestroyIsStep, WriteTopologyIsStep, WriteAnnotationsIsStep, DeployIsStep,
       RestoreIsStep, RollbackIsStep DEF Step
  <2>2. \A u \in Threads \ {t} : th'[u] = th[u]
    BY <1>2, StepIsLocal
  <2>3. lock \in {t, Nobody}
    <3>1. CASE Acquire(t)
      BY <3>1 DEF Acquire
    <3>2. CASE ~Acquire(t)
      <4>1. th[t].pc \notin {"idle", "lock"}
        BY <1>2, <3>2 DEF Step, EnsureBaseline, ReadOriginal, LoadBaseline, Destroy,
           WriteTopology, WriteAnnotations, Deploy, Retry, Restore, Rollback, At
      <4> QED
        BY <4>1 DEF Inv, LocalInv
    <3> QED
      BY <3>1, <3>2
  <2> QED
    BY <2>1, <2>2, <2>3, OthersKeepFileInv
<1>3. CASE (\E y \in AdminTopologies : AdminUpdate(y)) \/ LabStart \/ LabStop
  BY <1>3, OutsideIsStep
<1>4. CASE Crash
  BY <1>4, CrashIsStep
<1>5. CASE UNCHANGED vars
  <2>1. UNCHANGED <<file, running, lock, th>>
    BY <1>5 DEF vars
  <2>2. Client' = Client /\ Settled' = Settled /\ AtomInv'
    BY <2>1 DEF Client, Settled, Replacing, AtomInv, FileInv
  <2> QED
    BY <2>1, <2>2, StaysUp, QuietStep
<1> QED
  BY <1>1, <1>2, <1>3, <1>4, <1>5 DEF AgentNext

\* An apply or a reset takes many steps, with an admin's update, a start, a stop
\* or a crash between any two of them; all the same it changes the lab at its
\* answer or not at all, as AtomicLab says (_sandbox_lock, and the text that
\* apply_sandbox_topology_yaml and reset_sandbox_lab_to_baseline keep to restore).
THEOREM OperationsAreAtomic == AgentSpec => LabIsAtomic
<1>1. AgentInit => AtomInv
  <2>1. Idle("none").pc = "idle" /\ Idle("none").op = "none"
    BY DEF Idle
  <2> QED
    BY <2>1 DEF AgentInit, AtomInv, FileInv, Replacing
<1>2. AgentInit => Abstract!LabInit
  <2> SUFFICES ASSUME AgentInit PROVE Abstract!LabInit
    OBVIOUS
  <2>1. /\ \A t \in Threads : th[t] = Idle("none")
        /\ lock = Nobody /\ file = Initial /\ running \in {Initial, Down}
    BY DEF AgentInit
  <2>2. /\ Idle("none").op = "none" /\ Idle("none").answer = "none"
        /\ Abstract!Done("none") = [op |-> "none", answer |-> "none", text |-> NoFile]
    BY DEF Idle, Abstract!Done
  <2>3. \A t \in Threads :
           [op |-> th[t].op, answer |-> th[t].answer,
            text |-> IF th[t].op = "apply" THEN th[t].text ELSE NoFile]
              = Abstract!Done("none")
    BY <2>1, <2>2
  <2>4. Client = [t \in Threads |-> Abstract!Done("none")]
    BY <2>3 DEF Client
  <2> QED
    BY <2>1, <2>4, SettledTopology DEF Abstract!LabInit
<1>3. Inv /\ AtomInv /\ [AgentNext]_vars => AtomStep /\ AtomInv'
  BY NextIsAtomStep
<1> QED
  BY <1>1, <1>2, <1>3, InvHolds, PTL
     DEF AgentSpec, LabIsAtomic, Abstract!LabSpec, AtomStep

=============================================================================
