-------------------------- MODULE AgentJobsProofs --------------------------
(***************************************************************************)
(* The jobs of the vm-agent and the pushes that they run.                  *)
(*                                                                         *)
(* The job dictionaries come first: they implement JobStore, for any       *)
(* number of jobs, routers and places.  What has to be known for that: a   *)
(* thread that goes on has an open job (OpenWhileRunning), and an event    *)
(* that is set belongs to a job whose cancel was recorded first            *)
(* (CancelRecorded).                                                       *)
(***************************************************************************)
EXTENDS AgentJobs, ConfigPush, TLAPS

Running == Pcs \ {"unused", "done", "died"}

Typed ==
    /\ store \in [Kinds -> Seq(Jobs)]
    /\ status \in [Jobs -> Statuses]
    /\ events \in [Jobs -> Objects \cup {"none"}]
    /\ run \in [Jobs -> Thread]

OpenWhileRunning(j) ==
    /\ At(j, "unused") <=> status[j] = "unused"
    /\ run[j].pc \in Running => status[j] \in {"running", "cancelling"}

CancelRecorded(j) ==
    /\ j \in cancels \/ (\E o \in Objects : <<j, o>> \in isset) => j \in asked
    /\ j \in asked => /\ status[j] \notin {"unused", "running"}
                      /\ run[j].pc \notin {"unused", "starting"}

\* Only a crash makes a status "gone", and it empties the dictionaries.
NoneGone == \A j \in Stored : status[j] # "gone"

Inv ==
    /\ Typed
    /\ isset \subseteq Jobs \X Objects /\ files \subseteq Nodes
    /\ \A j \in Jobs : OpenWhileRunning(j) /\ CancelRecorded(j)
    /\ NoneGone

-----------------------------------------------------------------------------
(* Sequences.                                                              *)

LEMMA AppendedSet ==
    ASSUME NEW S, NEW s \in Seq(S), NEW e \in S
    PROVE  /\ Append(s, e) \in Seq(S) /\ Len(Append(s, e)) = Len(s) + 1
           /\ ToSet(Append(s, e)) = ToSet(s) \cup {e}
<1>1. /\ Append(s, e) \in Seq(S) /\ Len(Append(s, e)) = Len(s) + 1
      /\ DOMAIN Append(s, e) = 1 .. (Len(s) + 1) /\ DOMAIN s = 1 .. Len(s) /\ Len(s) \in Nat
      /\ \A i \in 1 .. Len(s) : Append(s, e)[i] = s[i]
      /\ Append(s, e)[Len(s) + 1] = e
  OBVIOUS
<1>2. ToSet(Append(s, e)) \subseteq ToSet(s) \cup {e}
  BY <1>1 DEF ToSet
<1>3. ToSet(s) \cup {e} \subseteq ToSet(Append(s, e))
  BY <1>1 DEF ToSet
<1> QED BY <1>1, <1>2, <1>3

LEMMA TailSet ==
    ASSUME NEW S, NEW s \in Seq(S), s # <<>>
    PROVE  Tail(s) \in Seq(S) /\ ToSet(Tail(s)) \subseteq ToSet(s)
<1>1. /\ Tail(s) \in Seq(S) /\ Len(Tail(s)) = Len(s) - 1 /\ Len(s) \in Nat /\ Len(s) > 0
      /\ DOMAIN Tail(s) = 1 .. (Len(s) - 1) /\ DOMAIN s = 1 .. Len(s)
      /\ \A i \in 1 .. (Len(s) - 1) : Tail(s)[i] = s[i + 1]
  OBVIOUS
<1> QED BY <1>1 DEF ToSet

LEMMA StoredAreJobs == ASSUME Typed PROVE Stored \subseteq Jobs
<1>1. ASSUME NEW k \in Kinds PROVE ToSet(store[k]) \subseteq Jobs
  <2>1. store[k] \in Seq(Jobs)
    BY DEF Typed
  <2> QED BY <2>1 DEF ToSet
<1> QED BY <1>1 DEF Stored, Abstract!Held, Abstract!ToSet, ToSet

\* The minimum of a set of routers is one of them.
LEMMA NextIsNode ==
    ASSUME Typed, NEW j \in Jobs, run[j].todo # {}
    PROVE  NextNode(j) \in run[j].todo /\ NextNode(j) \in Nodes
<1>1. run[j].todo \in SUBSET Nodes
  BY DEF Typed, Thread
<1>2. \E n \in run[j].todo : \A m \in run[j].todo : n =< m
  BY <1>1, JobsAssumption
<1> QED BY <1>1, <1>2 DEF NextNode, Min

\* The dictionary after a start: the new job is in it, the others are old.
LEMMA Inserted ==
    ASSUME Typed, NEW j \in Jobs, NEW k \in Kinds, Start(j, k)
    PROVE  /\ store' \in [Kinds -> Seq(Jobs)]
           /\ store' = [store EXCEPT ![k] = IF Len(@) < MaxJobs THEN Append(@, j)
                                            ELSE Tail(Append(@, j))]
           /\ Stored' \subseteq Stored \cup {j}
<1> DEFINE all == Append(store[k], j)
<1>1. store[k] \in Seq(Jobs) /\ Len(store[k]) \in Nat
  BY DEF Typed
<1>2. /\ all \in Seq(Jobs) /\ Len(all) = Len(store[k]) + 1
      /\ ToSet(all) = ToSet(store[k]) \cup {j}
  BY <1>1, AppendedSet
<1>3. all # <<>> /\ Tail(all) \in Seq(Jobs) /\ ToSet(Tail(all)) \subseteq ToSet(all)
  <2>1. all # <<>>
    BY <1>1
  <2> QED BY <2>1, <1>2, TailSet
<1>4. (Len(all) > MaxJobs) <=> ~(Len(store[k]) < MaxJobs)
  BY <1>1, <1>2, JobsAssumption
<1>5. store' = [store EXCEPT ![k] = IF Len(store[k]) < MaxJobs THEN all ELSE Tail(all)]
  BY <1>4 DEF Start
<1>6. store' \in [Kinds -> Seq(Jobs)]
  BY <1>2, <1>3, <1>5 DEF Typed
<1>7. ASSUME NEW i \in Kinds PROVE ToSet(store'[i]) \subseteq ToSet(store[i]) \cup {j}
  BY <1>2, <1>3, <1>5 DEF Typed
<1>8. Stored' \subseteq Stored \cup {j}
  BY <1>7 DEF Stored, Abstract!Held, Abstract!ToSet, ToSet
<1> QED BY <1>5, <1>6, <1>8

-----------------------------------------------------------------------------
(* The steps.                                                              *)

LEMMA ThreadFields ==
    ASSUME Typed, NEW j \in Jobs
    PROVE  /\ run[j] \in Thread /\ run[j].kind \in Kinds /\ run[j].pc \in Pcs
           /\ run[j].event \in Objects \cup {"none"}
           /\ run[j].todo \in SUBSET Nodes /\ run[j].failed \in BOOLEAN
  BY DEF Typed, Thread

LEMMA BareIsThread ==
    ASSUME NEW pc \in Pcs
    PROVE  Bare(pc) \in Thread /\ Bare(pc).pc = pc
  BY DEF Bare, Thread, Kinds

\* How a step of j's thread changes what the dictionaries and cancels see.
ThreadStep(j) ==
    /\ UNCHANGED <<store, isset, asked, cancels>>
    /\ run[j].pc \in Running
    /\ \E r \in Thread : r.pc \notin {"unused", "starting"} /\ run' = [run EXCEPT ![j] = r]
    /\ \/ UNCHANGED status
       \/ \E outcome \in Terminal :
             /\ status' = [status EXCEPT ![j] = outcome]
             /\ run'[j].pc = "done"
             /\ outcome = "cancelled" => j \in asked

LEMMA Ended ==
    ASSUME Typed, NEW j \in Jobs, NEW outcome \in Terminal, End(j, outcome),
           UNCHANGED <<store, isset, asked, cancels>>, run[j].pc \in Running,
           outcome = "cancelled" => j \in asked
    PROVE  ThreadStep(j)
<1>1. Bare("done") \in Thread /\ Bare("done").pc = "done"
  BY BareIsThread DEF Pcs
<1>2. run' = [run EXCEPT ![j] = Bare("done")] /\ status' = [status EXCEPT ![j] = outcome]
  BY DEF End
<1>3. run'[j].pc = "done"
  BY <1>1, <1>2 DEF Typed
<1> QED BY <1>1, <1>2, <1>3 DEF ThreadStep

LEMMA StepIsThreadStep ==
    ASSUME Inv, NEW j \in Jobs, Step(j)
    PROVE  ThreadStep(j)
<1>1. Typed /\ run[j] \in Thread /\ run[j].pc \in Pcs /\ run[j].todo \in SUBSET Nodes
      /\ run[j].failed \in BOOLEAN /\ run[j].kind \in Kinds
      /\ run[j].event \in Objects \cup {"none"}
  BY ThreadFields DEF Inv
<1>2. ASSUME NEW pc \in Running \ {"starting"}, Goto(j, pc), run[j].pc \in Running,
             UNCHANGED <<store, isset, asked, cancels, status>>
      PROVE  ThreadStep(j)
  <2>1. [run[j] EXCEPT !.pc = pc] \in Thread /\ [run[j] EXCEPT !.pc = pc].pc = pc
    BY <1>1, <1>2 DEF Thread, Running
  <2> QED BY <1>2, <2>1 DEF Goto, ThreadStep, Running, Pcs
<1>3. CASE Launch(j)
  BY <1>2, <1>3 DEF Launch, At, Running, Pcs
<1>4. CASE Lookup(j)
  <2>1. CASE j \in Stored
    BY <1>2, <1>4, <2>1 DEF Lookup, At, Running, Pcs, Goto
  <2>2. CASE j \notin Stored
    BY <1>1, <1>4, <2>2, BareIsThread DEF Lookup, At, Running, Pcs, ThreadStep
  <2> QED BY <2>1, <2>2
<1>5. ASSUME NEW r \in Thread, run' = [run EXCEPT ![j] = r], r.pc \in Running \ {"starting"},
             run[j].pc \in Running, UNCHANGED <<store, isset, asked, cancels, status>>
      PROVE  ThreadStep(j)
  BY <1>5 DEF ThreadStep, Running
<1>6. CASE ReadEvent(j)
  <2> DEFINE r == [run[j] EXCEPT !.pc = "setup", !.event = events[j]]
  <2>1. r \in Thread /\ r.pc = "setup"
    BY <1>1 DEF Typed, Thread, Pcs
  <2>2. run' = [run EXCEPT ![j] = r]
    BY <1>6 DEF ReadEvent
  <2> QED BY <1>5, <1>6, <2>1, <2>2 DEF ReadEvent, At, Running, Pcs
<1>7. CASE Setup(j)
  <2>1. ASSUME NEW N \in SUBSET Nodes, UNCHANGED status,
               run' = [run EXCEPT ![j].pc = "loop", ![j].todo = N]
        PROVE  ThreadStep(j)
    <3> DEFINE r == [run[j] EXCEPT !.pc = "loop", !.todo = N]
    <3>1. r \in Thread /\ r.pc = "loop"
      BY <1>1, <2>1 DEF Thread, Pcs
    <3> QED BY <1>5, <1>7, <2>1, <3>1 DEF Setup, At, Running, Pcs
  <2>2. CASE End(j, "error")
    BY <1>1, <1>7, <2>2, Ended DEF Setup, At, Running, Pcs, Terminal
  <2>3. CASE UNCHANGED status /\ run' = [run EXCEPT ![j] = Bare("died")]
    BY <1>1, <1>7, <2>3, BareIsThread DEF Setup, At, Running, Pcs, ThreadStep
  <2> QED BY <1>7, <2>1, <2>2, <2>3 DEF Setup
<1>8. CASE BeginNode(j)
  <2>1. CASE CancelSeen(j)
    BY <1>1, <1>8, <2>1, Ended DEF BeginNode, CancelSeen, Inv, CancelRecorded, At, Running,
       Pcs, Terminal
  <2>2. CASE ~CancelSeen(j)
    BY <1>2, <1>8, <2>2 DEF BeginNode, At, Running, Pcs
  <2> QED BY <2>1, <2>2
<1>9. CASE EndNode(j)
  <2> DEFINE r(ok) == [run[j] EXCEPT !.pc = "loop", !.todo = @ \ {NextNode(j)},
                          !.failed = @ \/ (run[j].kind = "set_default" /\ ~ok)]
  <2>1. PICK ok \in BOOLEAN : run' = [run EXCEPT ![j] = r(ok)]
    BY <1>9 DEF EndNode
  <2>2. r(ok) \in Thread /\ r(ok).pc = "loop"
    BY <1>1 DEF Thread, Pcs
  <2> QED BY <1>5, <1>9, <2>1, <2>2 DEF EndNode, At, Running, Pcs
<1>10. CASE Conclude(j)
  <2>1. run[j].pc \in Running /\ UNCHANGED <<store, isset, asked, cancels>>
    BY <1>10 DEF Conclude, At, Running, Pcs
  <2>2. CASE Goto(j, "backup") /\ UNCHANGED status
    BY <1>2, <2>1, <2>2 DEF Running, Pcs
  <2>3. CASE End(j, "completed")
    BY <1>1, <2>1, <2>3, Ended DEF Terminal
  <2>4. CASE End(j, "error")
    BY <1>1, <2>1, <2>4, Ended DEF Terminal
  <2> QED BY <1>10, <2>2, <2>3, <2>4 DEF Conclude
<1>11. CASE OpenArchive(j) \/ FillArchive(j)
  <2>1. CASE UNCHANGED status /\ Goto(j, "archive")
    BY <1>2, <1>11, <2>1 DEF OpenArchive, FillArchive, At, Running, Pcs
  <2>2. ASSUME NEW T \in SUBSET Nodes, UNCHANGED status,
               run' = [run EXCEPT ![j].pc = "unlink", ![j].todo = T]
        PROVE  ThreadStep(j)
    <3> DEFINE r == [run[j] EXCEPT !.pc = "unlink", !.todo = T]
    <3>1. r \in Thread /\ r.pc = "unlink"
      BY <1>1, <2>2 DEF Thread, Pcs
    <3> QED BY <1>5, <1>11, <2>2, <3>1 DEF OpenArchive, FillArchive, At, Running, Pcs
  <2>3. CASE End(j, "error")
    BY <1>1, <1>11, <2>3, Ended DEF OpenArchive, FillArchive, At, Running, Pcs, Terminal
  <2>4. {} \in SUBSET Nodes /\ files \in SUBSET Nodes
    BY DEF Inv
  <2> QED BY <1>11, <2>1, <2>2, <2>3, <2>4 DEF OpenArchive, FillArchive, backupVars
<1>12. CASE Unlink(j)
  <2> DEFINE r == [run[j] EXCEPT !.pc = "write", !.todo = Nodes]
             s == [run[j] EXCEPT !.todo = @ \ {NextNode(j)}]
  <2>1. r \in Thread /\ r.pc = "write" /\ s \in Thread /\ s.pc = run[j].pc
    BY <1>1 DEF Thread, Pcs
  <2>2. run' = [run EXCEPT ![j] = r] \/ run' = [run EXCEPT ![j] = s]
    BY <1>12 DEF Unlink
  <2> QED BY <1>5, <1>12, <2>1, <2>2 DEF Unlink, At, Running, Pcs
<1>13. CASE Write(j)
  <2> DEFINE s == [run[j] EXCEPT !.todo = @ \ {NextNode(j)}]
  <2>1. s \in Thread /\ s.pc = run[j].pc
    BY <1>1 DEF Thread
  <2>2. run[j].pc \in Running \ {"starting"} /\ UNCHANGED <<store, isset, asked, cancels>>
    BY <1>13 DEF Write, At, Running, Pcs
  <2>3. CASE run' = [run EXCEPT ![j] = s] /\ UNCHANGED status
    BY <1>5, <2>1, <2>2, <2>3
  <2>4. CASE End(j, "completed") \/ End(j, "error")
    BY <1>1, <2>2, <2>4, Ended DEF Terminal
  <2>5. CASE run[j].todo = {}
    BY <1>13, <2>4, <2>5 DEF Write
  <2>6. CASE run[j].todo # {}
    BY <1>13, <2>3, <2>4, <2>6 DEF Write
  <2> QED BY <2>5, <2>6
<1> QED
  BY <1>3, <1>4, <1>6, <1>7, <1>8, <1>9, <1>10, <1>11, <1>12, <1>13 DEF Step

LEMMA InitHolds == JobsInit => Inv
<1> SUFFICES ASSUME JobsInit PROVE Inv
  OBVIOUS
<1>1. Typed
  <2>1. Bare("unused") \in Thread
    BY BareIsThread DEF Pcs
  <2>2. \A k \in Kinds : store[k] \in Seq(Jobs)
    BY DEF JobsInit
  <2> QED BY <2>1, <2>2 DEF JobsInit, Typed, Statuses
<1>2. \A j \in Jobs : OpenWhileRunning(j) /\ CancelRecorded(j)
  BY DEF JobsInit, OpenWhileRunning, CancelRecorded, At, Bare, Running
<1>3. NoneGone
  BY DEF JobsInit, NoneGone, Stored, Abstract!Held, Abstract!ToSet
<1> QED BY <1>1, <1>2, <1>3 DEF JobsInit, Inv

LEMMA StartKeepsInv ==
    ASSUME Inv, NEW j \in Jobs, NEW k \in Kinds, Start(j, k)
    PROVE  Inv'
<1> DEFINE r == [run[j] EXCEPT !.kind = k, !.pc = "starting"]
<1>1. Typed /\ run[j] \in Thread
  BY DEF Inv, Typed
<1>2. r \in Thread /\ r.pc = "starting"
  BY <1>1 DEF Thread, Pcs
<1>3. run' = [run EXCEPT ![j] = r] /\ status' = [status EXCEPT ![j] = "running"]
  BY DEF Start
<1>4. events' \in [Jobs -> Objects \cup {"none"}]
  BY <1>1 DEF Start, Typed
<1>5. Typed'
  BY <1>1, <1>2, <1>3, <1>4, Inserted DEF Typed, Statuses
<1>6. status[j] = "unused" /\ At(j, "unused") /\ j \notin asked
  BY DEF Start, Inv, OpenWhileRunning, CancelRecorded
<1>7. UNCHANGED <<isset, asked, cancels, files>>
  BY DEF Start, fileVars
<1>8. ASSUME NEW i \in Jobs PROVE OpenWhileRunning(i)' /\ CancelRecorded(i)'
  BY <1>1, <1>2, <1>3, <1>6, <1>7 DEF Inv, OpenWhileRunning, CancelRecorded, At, Typed
<1>9. NoneGone'
  BY <1>1, <1>3, Inserted DEF Inv, NoneGone, Typed
<1> QED BY <1>5, <1>7, <1>8, <1>9 DEF Inv

LEMMA CancelKeepsInv ==
    ASSUME Inv, NEW j \in Jobs, Cancel(j)
    PROVE  Inv'
<1>1. Typed /\ j \in Stored /\ status' = [status EXCEPT ![j] = "cancelling"]
      /\ asked' = asked \cup {j} /\ cancels' = cancels \cup {j}
      /\ UNCHANGED <<store, events, isset, run, files>>
  BY DEF Cancel, Inv, fileVars
<1>2. run[j].pc \notin {"unused", "starting"} /\ status[j] \notin Terminal
  BY DEF Cancel
<1>3. Typed'
  BY <1>1 DEF Typed, Statuses
<1>4. ASSUME NEW i \in Jobs PROVE OpenWhileRunning(i)' /\ CancelRecorded(i)'
  BY <1>1, <1>2 DEF Inv, OpenWhileRunning, CancelRecorded, At, Typed
<1>5. NoneGone'
  BY <1>1 DEF Inv, NoneGone, Stored, Abstract!Held, Typed
<1> QED BY <1>1, <1>3, <1>4, <1>5 DEF Inv

LEMMA SignalKeepsInv ==
    ASSUME Inv, NEW j \in Jobs, Signal(j)
    PROVE  Inv'
<1>1. Typed /\ events[j] \in Objects \cup {"none"} /\ j \in asked
      /\ UNCHANGED <<store, status, asked, run, files>>
  BY DEF Signal, Inv, Typed, CancelRecorded, fileVars
<1>2. PICK o \in Objects : /\ events' = [events EXCEPT ![j] = o]
                           /\ isset' = isset \cup {<<j, o>>}
  <2> DEFINE o == IF events[j] = "none" THEN "second" ELSE events[j]
  <2>1. o \in Objects
    BY <1>1 DEF Objects
  <2>2. events' = [events EXCEPT ![j] = o] /\ events'[j] = o
    BY <1>1 DEF Signal, Typed
  <2> QED BY <2>1, <2>2 DEF Signal
<1>3. Typed' /\ isset' \subseteq Jobs \X Objects
  BY <1>1, <1>2 DEF Typed, Inv
<1>4. ASSUME NEW i \in Jobs PROVE OpenWhileRunning(i)' /\ CancelRecorded(i)'
  <2>1. cancels' \subseteq cancels
    BY DEF Signal
  <2>2. \A e \in Objects : <<i, e>> \in isset' => <<i, e>> \in isset \/ i = j
    BY <1>2
  <2> QED BY <1>1, <2>1, <2>2 DEF Inv, OpenWhileRunning, CancelRecorded, At
<1>5. NoneGone'
  BY <1>1 DEF Inv, NoneGone, Stored, Abstract!Held
<1> QED BY <1>1, <1>3, <1>4, <1>5 DEF Inv

LEMMA ThreadStepKeepsInv ==
    ASSUME Inv, NEW j \in Jobs, ThreadStep(j), files' \subseteq Nodes,
           events' \in [Jobs -> Objects \cup {"none"}]
    PROVE  Inv'
<1>1. Typed /\ UNCHANGED <<store, isset, asked, cancels>> /\ run[j].pc \in Running
  BY DEF ThreadStep, Inv
<1>2. PICK r \in Thread : r.pc \notin {"unused", "starting"} /\ run' = [run EXCEPT ![j] = r]
  BY DEF ThreadStep
<1>3. status[j] \in {"running", "cancelling"} /\ ~At(j, "unused")
  BY <1>1 DEF Inv, OpenWhileRunning, At, Running
<1>4. Typed' /\ run'[j] = r /\ \A i \in Jobs \ {j} : run'[i] = run[i]
  BY <1>1, <1>2 DEF ThreadStep, Typed, Statuses
<1>5. /\ status'[j] \in {status[j]} \cup Terminal
      /\ status'[j] # status[j] => run'[j].pc = "done"
      /\ \A i \in Jobs \ {j} : status'[i] = status[i]
  BY <1>1 DEF ThreadStep, Typed
<1>6. ASSUME NEW i \in Jobs PROVE OpenWhileRunning(i)' /\ CancelRecorded(i)'
  <2>1. CASE i = j
    BY <1>1, <1>2, <1>3, <1>4, <1>5, <2>1
       DEF Inv, OpenWhileRunning, CancelRecorded, At, Running, Terminal
  <2>2. CASE i # j
    BY <1>1, <1>4, <1>5, <2>2 DEF Inv, OpenWhileRunning, CancelRecorded, At
  <2> QED BY <2>1, <2>2
<1>7. NoneGone'
  <2>1. Stored' = Stored /\ \A i \in Stored : i # j => status'[i] = status[i]
    BY <1>1, <1>5, StoredAreJobs DEF Stored, Abstract!Held
  <2>2. status'[j] # "gone"
    BY <1>3, <1>5 DEF Terminal
  <2> QED BY <2>1, <2>2 DEF Inv, NoneGone
<1> QED BY <1>1, <1>4, <1>6, <1>7 DEF Inv

LEMMA CrashKeepsInv == ASSUME Inv, Crash PROVE Inv'
<1>1. Bare("died") \in Thread /\ Bare("died").pc = "died"
  BY BareIsThread DEF Pcs
<1>2. Typed'
  <2>1. \A j \in Jobs : run'[j] \in Thread /\ status'[j] \in Statuses
    BY <1>1 DEF Crash, Inv, Typed, Statuses
  <2> QED BY <2>1 DEF Crash, Typed
<1>3. ASSUME NEW i \in Jobs PROVE OpenWhileRunning(i)' /\ CancelRecorded(i)'
  BY <1>1 DEF Crash, Inv, Typed, OpenWhileRunning, CancelRecorded, At, Running
<1>4. NoneGone'
  BY DEF Crash, NoneGone, Stored, Abstract!Held, Abstract!ToSet
<1> QED BY <1>2, <1>3, <1>4 DEF Crash, fileVars, Inv

LEMMA FilesAreNodes ==
    ASSUME Inv, NEW j \in Jobs, Step(j)
    PROVE  files' \subseteq Nodes /\ events' \in [Jobs -> Objects \cup {"none"}]
<1>1. Typed /\ files \subseteq Nodes
  BY DEF Inv
<1>2. run[j].todo \in SUBSET Nodes /\ Nodes \subseteq Nat
  BY <1>1, ThreadFields, JobsAssumption
<1>3. CASE Write(j)
  <2>1. UNCHANGED events
    BY <1>3 DEF Write
  <2>2. files' \in {files, files \cup {NextNode(j)}, files \ {NextNode(j)}}
        /\ (files' # files => run[j].todo # {})
    BY <1>3, Zenon DEF Write
  <2>3. files' \subseteq Nodes
    BY <1>1, <2>2, NextIsNode
  <2> QED BY <1>1, <2>1, <2>3 DEF Typed
<1> QED BY <1>1, <1>3 DEF Step, Launch, Lookup, ReadEvent, Setup, BeginNode, EndNode, Conclude,
       OpenArchive, FillArchive, Unlink, fileVars, Objects, Typed

LEMMA NextKeepsInv == ASSUME Inv, [JobsNext]_vars PROVE Inv'
<1>1. ASSUME NEW j \in Jobs, NEW k \in Kinds, Start(j, k) PROVE Inv'
  BY <1>1, StartKeepsInv
<1>2. ASSUME NEW j \in Jobs, Cancel(j) PROVE Inv'
  BY <1>2, CancelKeepsInv
<1>3. ASSUME NEW j \in Jobs, Signal(j) PROVE Inv'
  BY <1>3, SignalKeepsInv
<1>4. ASSUME NEW j \in Jobs, Step(j) PROVE Inv'
  BY <1>4, StepIsThreadStep, FilesAreNodes, ThreadStepKeepsInv
<1>5. CASE Crash
  BY <1>5, CrashKeepsInv
<1>6. CASE SecondPasses \/ UNCHANGED vars
  BY <1>6 DEF SecondPasses, vars, Inv, Typed, OpenWhileRunning, CancelRecorded, At, NoneGone, Stored,
     Abstract!Held
<1> QED BY <1>1, <1>2, <1>3, <1>4, <1>5, <1>6 DEF JobsNext

\* The inductive invariant holds, for any jobs, routers and limits.
THEOREM JobsInvHolds == JobsSpec => []Inv
  BY InitHolds, NextKeepsInv, PTL DEF JobsSpec

-----------------------------------------------------------------------------
(* The refinement.                                                         *)

LEMMA StepsMap ==
    ASSUME Inv, [JobsNext]_vars
    PROVE  [Abstract!StoreNext]_(Abstract!storeVars)
<1>1. ASSUME NEW j \in Jobs, NEW k \in Kinds, Start(j, k) PROVE Abstract!Insert(j, k)
  <2>1. status[j] = "unused" /\ status' = [status EXCEPT ![j] = "running"]
    BY <1>1 DEF Start, Inv, OpenWhileRunning
  <2> QED BY <1>1, <2>1, Inserted DEF Inv, Abstract!Insert
<1>2. ASSUME NEW j \in Jobs, Cancel(j) PROVE Abstract!AskCancel(j)
  <2>1. j \in Stored /\ status[j] \in {"running", "cancelling"}
    BY <1>2 DEF Cancel, Inv, Typed, NoneGone, OpenWhileRunning, At, Statuses, Terminal
  <2> QED BY <1>2, <2>1 DEF Cancel, Stored, Abstract!AskCancel, Abstract!Open
<1>3. ASSUME NEW j \in Jobs, Signal(j) PROVE UNCHANGED <<store, status>>
  BY <1>3 DEF Signal
<1>4. ASSUME NEW j \in Jobs, Step(j)
      PROVE  UNCHANGED <<store, status>> \/ \E o \in Terminal : Abstract!Finish(j, o)
  <2>1. ThreadStep(j) /\ status[j] \in {"running", "cancelling"}
        /\ (j \in asked => status[j] # "running")
    BY <1>4, StepIsThreadStep DEF ThreadStep, Inv, OpenWhileRunning, CancelRecorded
  <2> QED BY <2>1 DEF ThreadStep, Abstract!Finish, Abstract!Open
<1>5. ASSUME Crash PROVE Abstract!Lose
  <2>1. \A j \in Jobs : At(j, "unused") <=> status[j] = "unused"
    BY DEF Inv, OpenWhileRunning
  <2>2. status' = [j \in Jobs |-> IF status[j] = "unused" THEN "unused" ELSE "gone"]
    BY <1>5, <2>1 DEF Crash
  <2> QED BY <1>5, <2>2 DEF Crash, Abstract!Lose
<1>6. ASSUME SecondPasses \/ UNCHANGED vars PROVE UNCHANGED <<store, status>>
  BY <1>6 DEF SecondPasses, vars
<1> QED
  BY <1>1, <1>2, <1>3, <1>4, <1>5, <1>6
     DEF JobsNext, Abstract!StoreNext, Abstract!storeVars, Abstract!Final, Terminal

\* Whatever threads, cancels, evictions and crashes do, the dictionaries of the
\* agent behave as JobStore promises to those who poll.
THEOREM JobsImplementStore == JobsSpec => StoreSpec
<1>1. JobsInit => Abstract!StoreInit
  BY DEF JobsInit, Abstract!StoreInit
<1> QED
  BY <1>1, JobsInvHolds, StepsMap, PTL DEF JobsSpec, StoreSpec, Abstract!StoreSpec

LEMMA FinalStays ==
    ASSUME Inv, [Abstract!StoreNext]_(Abstract!storeVars), NEW j \in Jobs,
           Abstract!Answer(j) \in Abstract!Final
    PROVE  Abstract!Answer(j)' \in {Abstract!Answer(j), "absent"}
<1>1. status \in [Jobs -> Statuses] /\ status[j] \in Abstract!Final /\ j \in Stored
      /\ Abstract!Answer(j) = status[j]
  BY DEF Inv, Typed, Abstract!Answer, Abstract!Final, Stored
<1>2. status'[j] = status[j] \/ Stored' = {}
  <2>1. CASE UNCHANGED Abstract!storeVars
    BY <2>1 DEF Abstract!storeVars
  <2>2. CASE Abstract!Lose
    BY <2>2 DEF Abstract!Lose, Stored, Abstract!Held, Abstract!ToSet
  <2>3. CASE \E i \in Jobs : \/ \E k \in Kinds : Abstract!Insert(i, k)
                             \/ Abstract!AskCancel(i)
                             \/ \E o \in Abstract!Final : Abstract!Finish(i, o)
    BY <1>1, <2>3
       DEF Abstract!Insert, Abstract!AskCancel, Abstract!Finish, Abstract!Open, Abstract!Final
  <2> QED BY <2>1, <2>2, <2>3 DEF Abstract!StoreNext
<1> QED BY <1>1, <1>2 DEF Abstract!Answer, Stored

\* What a poll has once reported as the end of a job is never taken back.
THEOREM FinalAnswersStay == JobsSpec => Abstract!AnswersAreFinal
<1>1. Inv /\ [Abstract!StoreNext]_(Abstract!storeVars) =>
        [\A j \in Jobs : Abstract!Answer(j) \in Abstract!Final
             => Abstract!Answer(j)' \in {Abstract!Answer(j), "absent"}]_(Abstract!storeVars)
  BY FinalStays
<1> QED
  BY <1>1, JobsInvHolds, JobsImplementStore, PTL
     DEF StoreSpec, Abstract!StoreSpec, Abstract!AnswersAreFinal

-----------------------------------------------------------------------------
(* Cancels reach their threads.                                            *)

\* Each job is in one place of one dictionary, so that evicting it drops the
\* event of no job that stays.
NoRepeats(s) == \A a, b \in 1 .. Len(s) : s[a] = s[b] => a = b

OnePlace ==
    /\ \A j \in Stored : status[j] # "unused"
    /\ \A k \in Kinds : NoRepeats(store[k])
    /\ \A k, l \in Kinds : k # l => ToSet(store[k]) \cap ToSet(store[l]) = {}

\* The event of a job in the dictionaries is the one its start created: its
\* thread has that one, and a cancel that is through has set it.
EventKept(j) ==
    j \in Stored =>
        /\ run[j].pc \notin {"unused", "starting"} => events[j] = "first"
        /\ run[j].pc \in {"setup", "loop", "node"} => run[j].event = "first"
        /\ j \in asked \ cancels => <<j, "first">> \in isset

EventInv ==
    /\ Inv
    /\ OnePlace
    /\ \A j \in Jobs : EventKept(j)

LEMMA DistinctAppend ==
    ASSUME NEW S, NEW s \in Seq(S), NEW e \in S, NoRepeats(s), e \notin ToSet(s)
    PROVE  NoRepeats(Append(s, e))
<1>1. /\ Len(Append(s, e)) = Len(s) + 1 /\ Len(s) \in Nat /\ DOMAIN s = 1 .. Len(s)
      /\ \A i \in 1 .. Len(s) : Append(s, e)[i] = s[i]
      /\ Append(s, e)[Len(s) + 1] = e
  OBVIOUS
<1>2. \A i \in 1 .. Len(s) : s[i] # e
  BY <1>1 DEF ToSet
<1> QED BY <1>1, <1>2 DEF NoRepeats

LEMMA DistinctTail ==
    ASSUME NEW S, NEW s \in Seq(S), s # <<>>, NoRepeats(s)
    PROVE  NoRepeats(Tail(s)) /\ Head(s) \notin ToSet(Tail(s)) /\ Head(s) \in ToSet(s)
<1>1. /\ Len(Tail(s)) = Len(s) - 1 /\ Len(s) \in Nat /\ Len(s) > 0
      /\ DOMAIN Tail(s) = 1 .. (Len(s) - 1) /\ DOMAIN s = 1 .. Len(s)
      /\ \A i \in 1 .. (Len(s) - 1) : Tail(s)[i] = s[i + 1]
      /\ Head(s) = s[1]
  OBVIOUS
<1>2. NoRepeats(Tail(s))
  BY <1>1 DEF NoRepeats
<1>3. \A i \in 1 .. (Len(s) - 1) : Tail(s)[i] # Head(s)
  BY <1>1 DEF NoRepeats
<1>4. Head(s) \notin ToSet(Tail(s))
  BY <1>1, <1>3 DEF ToSet
<1>5. Head(s) \in ToSet(s)
  BY <1>1 DEF ToSet
<1> QED BY <1>2, <1>4, <1>5

LEMMA StoredIs == Stored = UNION {ToSet(store[k]) : k \in Kinds}
  BY DEF Stored, Abstract!Held, Abstract!ToSet, ToSet

\* A start keeps each job in one place, and what it evicts is gone.
LEMMA StartKeepsPlaces ==
    ASSUME Inv, OnePlace, NEW j \in Jobs, NEW k \in Kinds, Start(j, k)
    PROVE  /\ OnePlace'
           /\ \A i \in Stored' : events'[i] = events[i]
<1> DEFINE all == Append(store[k], j)
           full == Len(all) > MaxJobs
<1>1. /\ Typed /\ store[k] \in Seq(Jobs) /\ NoRepeats(store[k])
      /\ store' = [store EXCEPT ![k] = IF full THEN Tail(all) ELSE all]
      /\ events' = IF full THEN [events EXCEPT ![Head(all)] = "none"] ELSE events
  BY DEF Inv, Typed, OnePlace, Start
<1>2. j \notin Stored /\ \A l \in Kinds : j \notin ToSet(store[l])
  <2>1. j \notin Stored
    BY DEF Start, Inv, OpenWhileRunning, OnePlace
  <2> QED BY <2>1, StoredIs
<1>3. all \in Seq(Jobs) /\ ToSet(all) = ToSet(store[k]) \cup {j} /\ NoRepeats(all)
  BY <1>1, <1>2, AppendedSet, DistinctAppend
<1>4. all # <<>>
  BY <1>1
<1>5. /\ ToSet(Tail(all)) \subseteq ToSet(all) /\ NoRepeats(Tail(all))
      /\ Head(all) \notin ToSet(Tail(all)) /\ Head(all) \in ToSet(all)
  BY <1>3, <1>4, TailSet, DistinctTail
<1> HIDE DEF all, full
<1>6. /\ store'[k] = IF full THEN Tail(all) ELSE all
      /\ \A l \in Kinds \ {k} : store'[l] = store[l]
  BY <1>1 DEF Typed
<1>7. NoRepeats(store'[k]) /\ ToSet(store'[k]) \subseteq ToSet(store[k]) \cup {j}
  BY <1>3, <1>5, <1>6
<1>8. /\ \A l \in Kinds : NoRepeats(store'[l])
      /\ \A l, m \in Kinds : l # m => ToSet(store'[l]) \cap ToSet(store'[m]) = {}
  BY <1>2, <1>6, <1>7 DEF OnePlace
<1>9. \A i \in Stored' : i \in Stored \cup {j}
  BY <1>1, Inserted
<1>10. status' = [status EXCEPT ![j] = "running"] /\ Stored \subseteq Jobs
  BY <1>1, StoredAreJobs DEF Start
<1>11. \A i \in Stored' : status'[i] # "unused"
  BY <1>1, <1>9, <1>10 DEF Typed, OnePlace
<1>12. OnePlace'
  BY <1>8, <1>11 DEF OnePlace
<1>13. ASSUME full PROVE Head(all) \notin Stored'
  <2>1. Head(all) \notin ToSet(store'[k])
    BY <1>5, <1>6, <1>13
  <2>2. \A l \in Kinds \ {k} : Head(all) \notin ToSet(store'[l])
    BY <1>2, <1>3, <1>5, <1>6 DEF OnePlace
  <2>3. \A l \in Kinds : Head(all) \notin ToSet(store'[l])
    BY <2>1, <2>2
  <2>4. Stored' = UNION {ToSet(store'[l]) : l \in Kinds}
    BY DEF Stored, Abstract!Held, Abstract!ToSet, ToSet
  <2> QED BY <2>3, <2>4
<1>14. \A i \in Stored' : events'[i] = events[i]
  BY <1>1, <1>9, <1>10, <1>13 DEF Typed
<1> QED BY <1>12, <1>14

LEMMA EventInit == JobsInit => EventInv
<1> SUFFICES ASSUME JobsInit PROVE EventInv
  OBVIOUS
<1>1. \A k \in Kinds : store[k] = <<>> /\ ToSet(store[k]) = {}
  BY DEF JobsInit, ToSet
<1>2. Stored = {}
  BY <1>1, StoredIs
<1> QED BY <1>1, <1>2, InitHolds DEF EventInv, OnePlace, NoRepeats, EventKept

LEMMA StartKeepsEvents ==
    ASSUME EventInv, NEW j \in Jobs, NEW k \in Kinds, Start(j, k)
    PROVE  EventInv'
<1>1. Inv' /\ OnePlace' /\ \A i \in Stored' : events'[i] = events[i]
  BY StartKeepsInv, StartKeepsPlaces DEF EventInv
<1>2. Stored' \subseteq Stored \cup {j} /\ Typed /\ j \notin asked
  <2>1. Inv /\ Typed /\ run[j].pc = "unused"
    BY DEF EventInv, Inv, Start, At
  <2>2. j \notin asked
    BY <2>1 DEF Inv, CancelRecorded
  <2> QED BY <2>1, <2>2, Inserted
<1>3. /\ \A i \in Jobs \ {j} : run'[i] = run[i]
      /\ run'[j].pc = "starting"
      /\ UNCHANGED <<isset, asked, cancels>>
  BY <1>2 DEF Start, Typed, Thread
<1>4. ASSUME NEW i \in Jobs PROVE EventKept(i)'
  BY <1>1, <1>2, <1>3 DEF EventInv, EventKept
<1> QED BY <1>1, <1>4 DEF EventInv

LEMMA CancelKeepsEvents ==
    ASSUME EventInv, NEW j \in Jobs, Cancel(j)
    PROVE  EventInv'
<1>1. Inv' /\ Typed
  BY CancelKeepsInv DEF EventInv, Inv
<1>2. /\ asked' = asked \cup {j} /\ cancels' = cancels \cup {j}
      /\ status' = [status EXCEPT ![j] = "cancelling"]
      /\ UNCHANGED <<store, events, isset, run>> /\ Stored' = Stored
  BY DEF Cancel, Stored, Abstract!Held
<1>3. OnePlace'
  BY <1>1, <1>2, StoredAreJobs DEF EventInv, OnePlace, NoRepeats, Typed
<1>4. ASSUME NEW i \in Jobs PROVE EventKept(i)'
  BY <1>2 DEF EventInv, EventKept
<1> QED BY <1>1, <1>3, <1>4 DEF EventInv

LEMMA SignalKeepsEvents ==
    ASSUME EventInv, NEW j \in Jobs, Signal(j)
    PROVE  EventInv'
<1>1. Inv' /\ Typed /\ j \in asked /\ run[j].pc \notin {"unused", "starting"}
  BY SignalKeepsInv DEF EventInv, Inv, Signal, CancelRecorded
<1>2. /\ cancels' = cancels \ {j} /\ isset' = isset \cup {<<j, events'[j]>>}
      /\ events' = [events EXCEPT ![j] = IF @ = "none" THEN "second" ELSE @]
      /\ UNCHANGED <<store, status, asked, run>> /\ Stored' = Stored
  BY DEF Signal, Stored, Abstract!Held
<1>3. OnePlace'
  BY <1>2 DEF EventInv, OnePlace, NoRepeats
<1>4. j \in Stored => events[j] = "first" /\ events'[j] = "first"
  BY <1>1, <1>2 DEF EventInv, EventKept, Typed
<1>5. ASSUME NEW i \in Jobs PROVE EventKept(i)'
  <2>1. CASE i = j
    BY <1>1, <1>2, <1>4, <2>1 DEF EventInv, EventKept
  <2>2. CASE i # j
    <3>1. events'[i] = events[i]
      BY <1>1, <1>2, <2>2 DEF Typed
    <3> QED BY <1>2, <2>2, <3>1 DEF EventInv, EventKept
  <2> QED BY <2>1, <2>2
<1> QED BY <1>1, <1>3, <1>5 DEF EventInv

\* What a thread does to its own event.
LEMMA StepAndEvents ==
    ASSUME Inv, NEW j \in Jobs, Step(j)
    PROVE  /\ \A i \in Jobs \ {j} : events'[i] = events[i] /\ run'[i] = run[i]
           /\ \/ Launch(j)
              \/ run[j].pc \notin {"unused", "starting"} /\ events'[j] = events[j]
           /\ \/ run'[j].pc \notin {"setup", "loop", "node"}
              \/ run[j].pc = "event" /\ run'[j].event = events[j]
              \/ run[j].pc \in {"setup", "loop", "node"} /\ run'[j].event = run[j].event
<1>1. Typed /\ run[j] \in Thread
  BY ThreadFields DEF Inv
<1> USE <1>1 DEF Typed, Thread, At, Goto, End, Bare
<1>2. CASE Launch(j)
  BY <1>2 DEF Launch
<1>3. CASE Lookup(j)
  BY <1>3 DEF Lookup
<1>4. CASE ReadEvent(j)
  BY <1>4 DEF ReadEvent
<1>5. CASE Setup(j)
  BY <1>5 DEF Setup
<1>6. CASE BeginNode(j)
  BY <1>6 DEF BeginNode
<1>7. CASE EndNode(j)
  BY <1>7 DEF EndNode
<1>8. CASE Conclude(j)
  BY <1>8 DEF Conclude
<1>9. CASE OpenArchive(j) \/ FillArchive(j)
  BY <1>9 DEF OpenArchive, FillArchive
<1>10. CASE Unlink(j)
  <2>1. UNCHANGED events /\ run[j].pc = "unlink"
    BY <1>10 DEF Unlink
  <2>2. CASE run[j].todo = {}
    BY <1>10, <2>1, <2>2 DEF Unlink
  <2>3. CASE run[j].todo # {}
    <3> DEFINE rest == run[j].todo \ {NextNode(j)}
    <3>1. run' = [run EXCEPT ![j].todo = rest]
      BY <1>10, <2>3 DEF Unlink
    <3> HIDE DEF rest
    <3>2. run'[j] = [run[j] EXCEPT !.todo = rest] /\ \A i \in Jobs \ {j} : run'[i] = run[i]
      BY <3>1
    <3>3. run'[j].pc = "unlink"
      BY <2>1, <3>2
    <3> QED BY <2>1, <3>2, <3>3
  <2> QED BY <2>2, <2>3
<1>11. CASE Write(j)
  <2>1. UNCHANGED events /\ run[j].pc = "write"
    BY <1>11 DEF Write
  <2>2. CASE End(j, "completed") \/ End(j, "error")
    BY <2>1, <2>2
  <2>3. CASE run' = [run EXCEPT ![j].todo = @ \ {NextNode(j)}]
    <3> DEFINE rest == run[j].todo \ {NextNode(j)}
    <3>1. run' = [run EXCEPT ![j].todo = rest]
      BY <2>3
    <3> HIDE DEF rest
    <3>2. run'[j] = [run[j] EXCEPT !.todo = rest] /\ \A i \in Jobs \ {j} : run'[i] = run[i]
      BY <3>1
    <3>3. run'[j].pc = "write"
      BY <2>1, <3>2
    <3> QED BY <2>1, <3>2, <3>3
  <2> QED BY <1>11, <2>2, <2>3, Zenon DEF Write
<1> QED BY <1>2, <1>3, <1>4, <1>5, <1>6, <1>7, <1>8, <1>9, <1>10, <1>11 DEF Step

LEMMA StepKeepsEvents ==
    ASSUME EventInv, NEW j \in Jobs, Step(j)
    PROVE  EventInv'
<1>1. Inv' /\ Inv /\ Typed
  BY StepIsThreadStep, FilesAreNodes, ThreadStepKeepsInv DEF EventInv, Inv
<1>2. UNCHANGED <<store, isset, asked, cancels>> /\ Stored' = Stored
  BY <1>1, StepIsThreadStep DEF ThreadStep, Stored, Abstract!Held
<1>3. \A i \in Jobs : status'[i] = "unused" => status[i] = "unused"
  BY <1>1, StepIsThreadStep DEF ThreadStep, Typed, Terminal
<1>4. OnePlace'
  BY <1>1, <1>2, <1>3, StoredAreJobs DEF EventInv, OnePlace, NoRepeats
<1>5. ASSUME NEW i \in Jobs PROVE EventKept(i)'
  <2>1. CASE i # j
    BY <1>1, <1>2, <2>1, StepAndEvents DEF EventInv, EventKept
  <2>2. CASE i = j /\ Launch(j)
    <3>1. events'[j] = "first" /\ run'[j].pc = "lookup" /\ j \notin asked
      BY <1>1, <2>2 DEF Launch, Goto, At, Inv, CancelRecorded, Typed, Thread
    <3> QED BY <1>2, <2>2, <3>1 DEF EventKept
  <2>3. CASE i = j /\ ~Launch(j)
    BY <1>1, <1>2, <2>3, StepAndEvents DEF EventInv, EventKept
  <2> QED BY <2>1, <2>2, <2>3
<1> QED BY <1>1, <1>4, <1>5 DEF EventInv

LEMMA EventStep == ASSUME EventInv, [JobsNext]_vars PROVE EventInv'
<1>1. CASE Crash
  <2>1. Inv' /\ \A k \in Kinds : store'[k] = <<>> /\ ToSet(store'[k]) = {}
    BY <1>1, CrashKeepsInv DEF Crash, EventInv, ToSet
  <2>2. Stored' = {}
    BY <2>1 DEF Stored, Abstract!Held, Abstract!ToSet, ToSet
  <2> QED BY <2>1, <2>2 DEF EventInv, OnePlace, NoRepeats, EventKept
<1>2. CASE SecondPasses \/ UNCHANGED vars
  <2>1. Inv' /\ Stored' = Stored
    BY <1>2, NextKeepsInv DEF EventInv, SecondPasses, vars, Stored, Abstract!Held
  <2> QED BY <1>2, <2>1 DEF SecondPasses, vars, EventInv, OnePlace, NoRepeats, EventKept
<1> QED
  BY <1>1, <1>2, StartKeepsEvents, CancelKeepsEvents, SignalKeepsEvents, StepKeepsEvents
     DEF JobsNext

LEMMA BeginsUncancelled ==
    ASSUME EventInv, [JobsNext]_vars, NEW j \in (asked \ cancels) \cap Stored, ~At(j, "node")
    PROVE  run'[j].pc # "node"
<1>1. Inv /\ Typed /\ j \in Jobs
  BY StoredAreJobs DEF EventInv, Inv
<1>2. <<j, "first">> \in isset /\ (At(j, "loop") => run[j].event = "first")
  BY <1>1 DEF EventInv, EventKept, At
<1>3. At(j, "loop") => CancelSeen(j)
  BY <1>2 DEF CancelSeen
<1>4. ASSUME NEW i \in Jobs, NEW k \in Kinds, Start(i, k) PROVE run'[j].pc # "node"
  BY <1>1, <1>4 DEF Start, Typed, Thread, At
<1>5. ASSUME NEW i \in Jobs, Cancel(i) \/ Signal(i) PROVE run'[j].pc # "node"
  BY <1>5 DEF Cancel, Signal, At
<1>6. ASSUME NEW i \in Jobs, Step(i) PROVE run'[j].pc # "node"
  <2>1. CASE i # j
    BY <1>1, <1>6, <2>1, StepAndEvents DEF At
  <2>2. CASE i = j
    <3> USE <1>1, <2>2 DEF Typed, Thread, At, Goto, End, Bare
    <3>1. CASE BeginNode(j)
      BY <1>3, <3>1 DEF BeginNode
    <3>2. CASE Launch(j) \/ Lookup(j) \/ ReadEvent(j) \/ Setup(j)
      BY <3>2 DEF Launch, Lookup, ReadEvent, Setup
    <3>3. CASE EndNode(j) \/ Conclude(j)
      BY <3>3 DEF EndNode, Conclude
    <3>4. CASE OpenArchive(j) \/ FillArchive(j) \/ Unlink(j) \/ Write(j)
      BY <3>4 DEF OpenArchive, FillArchive, Unlink, Write
    <3> QED BY <1>6, <3>1, <3>2, <3>3, <3>4 DEF Step
  <2> QED BY <2>1, <2>2
<1>7. CASE Crash
  BY <1>1, <1>7 DEF Crash, Bare, At
<1>8. CASE SecondPasses \/ UNCHANGED vars
  BY <1>8 DEF SecondPasses, vars, At
<1> QED BY <1>4, <1>5, <1>6, <1>7, <1>8 DEF JobsNext

\* A cancel that has answered stops its job: whatever other jobs, evictions and
\* cancels do, the event it set is the one the job's thread looks at.
THEOREM CancelStops == JobsSpec => CancelStopsJob
<1>1. EventInv /\ [JobsNext]_vars =>
        [\A j \in (asked \ cancels) \cap Stored : ~At(j, "node") => run'[j].pc # "node"]_vars
  BY BeginsUncancelled
<1> QED BY <1>1, EventInit, EventStep, PTL DEF JobsSpec, CancelStopsJob

-----------------------------------------------------------------------------
(* The default configurations.                                             *)

Late == {"archive", "unlink", "write", "done", "died"}

\* A job archives once.
ArchivesInv ==
    /\ archive \in [Jobs -> Archives]
    /\ \A j \in Jobs : archive[j] # "none" \/ j \in recent => run[j].pc \in Late

LEMMA ArchiveOpened ==
    ASSUME ArchivesInv, NEW j \in Jobs, OpenArchive(j), ~UNCHANGED backupVars
    PROVE  /\ Goto(j, "archive") /\ files' = files /\ recent' = recent \cup {j}
           /\ archive' \in [Jobs -> Archives]
           /\ \A i \in Jobs \ {j} : archive'[i] = IF i \in recent THEN "lost" ELSE archive[i]
           /\ archive'[j] # "none" /\ (files = Nodes => archive'[j] \in {"lost", "filling"})
<1>1. /\ archive' = [i \in Jobs |-> IF i = j THEN Opened
                                    ELSE IF i \in recent THEN "lost" ELSE archive[i]]
      /\ Goto(j, "archive") /\ files' = files /\ recent' = recent \cup {j}
  BY DEF OpenArchive
<1>2. Opened \in Archives \ {"none"} /\ (files = Nodes => Opened \in {"lost", "filling"})
  BY DEF Archives, Opened
<1> QED BY <1>1, <1>2 DEF ArchivesInv, Archives

LEMMA ArchivesStep ==
    ASSUME Inv, ArchivesInv, [JobsNext]_vars
    PROVE  ArchivesInv'
<1>1. Typed /\ Spoiled \in [Jobs -> Archives] /\ \A j \in Jobs : Spoiled[j] = "none" <=> archive[j] = "none"
  BY DEF Inv, ArchivesInv, Spoiled, Archives
<1>2. ASSUME NEW j \in Jobs, Step(j) PROVE ArchivesInv'
  <2> USE <1>1 DEF Typed, ArchivesInv, Archives, Thread, At, Goto, End, Bare, Late
  <2>1. \A i \in Jobs \ {j} : run'[i] = run[i]
    BY <1>2, StepAndEvents
  <2>2. CASE OpenArchive(j)
    <3>1. CASE UNCHANGED backupVars
      BY <2>1, <2>2, <3>1 DEF OpenArchive, backupVars
    <3>2. CASE ~UNCHANGED backupVars
      <4>1. run'[j].pc = "archive"
        BY <2>2, <3>2, ArchiveOpened
      <4>2. /\ archive' \in [Jobs -> Archives] /\ recent' = recent \cup {j}
            /\ \A i \in Jobs \ {j} : archive'[i] # "none" => archive[i] # "none" \/ i \in recent
        BY <2>2, <3>2, ArchiveOpened
      <4> QED BY <2>1, <4>1, <4>2
    <3> QED BY <3>1, <3>2
  <2>3. CASE FillArchive(j)
    <3>1. run'[j].pc \in Late /\ run[j].pc = "archive"
      BY <2>3 DEF FillArchive
    <3>2. /\ archive' \in [Jobs -> Archives] /\ UNCHANGED recent
          /\ \A i \in Jobs \ {j} : archive'[i] = archive[i]
      BY <2>3 DEF FillArchive
    <3> QED BY <2>1, <3>1, <3>2
  <2>4. CASE Unlink(j) \/ Write(j)
    <3>1. /\ archive' \in [Jobs -> Archives] /\ UNCHANGED recent
          /\ \A i \in Jobs : archive'[i] # "none" => archive[i] # "none"
      BY <2>4 DEF Unlink, Write
    <3>2. run'[j].pc \in Late
      <4>1. CASE Unlink(j)
        BY <4>1 DEF Unlink
      <4>2. CASE Write(j)
        <5>1. CASE End(j, "completed") \/ End(j, "error")
          BY <5>1
        <5>2. CASE run' = [run EXCEPT ![j].todo = @ \ {NextNode(j)}]
          BY <4>2, <5>2 DEF Write
        <5> QED BY <4>2, <5>1, <5>2, Zenon DEF Write
      <4> QED BY <2>4, <4>1, <4>2
    <3> QED BY <2>1, <3>1, <3>2
  <2>5. CASE Launch(j) \/ Lookup(j) \/ ReadEvent(j) \/ Setup(j) \/ BeginNode(j) \/ EndNode(j) \/ Conclude(j)
    BY <2>1, <2>5 DEF Launch, Lookup, ReadEvent, Setup, BeginNode, EndNode, Conclude,
       fileVars, backupVars
  <2> QED BY <1>2, <2>2, <2>3, <2>4, <2>5 DEF Step
<1>3. CASE Crash
  BY <1>1, <1>3 DEF Crash, ArchivesInv, Bare, Late, At
<1>4. ASSUME NEW j \in Jobs, NEW k \in Kinds, Start(j, k) PROVE ArchivesInv'
  BY <1>1, <1>4 DEF Start, ArchivesInv, Late, At, Typed, Thread, fileVars, backupVars
<1>5. CASE UNCHANGED <<archive, run>> /\ recent' \subseteq recent
  BY <1>5 DEF ArchivesInv
<1> QED BY <1>2, <1>3, <1>4, <1>5 DEF JobsNext, Cancel, Signal, SecondPasses, vars,
        fileVars, backupVars

Lost == \E j \in Jobs : archive[j] = "lost"

\* A complete archive stays one, and no thread gets to its unlinking except past
\* an archive that is complete when the files were.
LEMMA StepAndArchives ==
    ASSUME Typed, ArchivesInv, NEW j \in Jobs, Step(j), ~Lost'
    PROVE  /\ \A i \in Jobs : archive[i] = "whole" => archive'[i] = "whole"
           /\ \/ At(j, "unlink") \/ At(j, "write")
              \/ /\ files' = files /\ \A i \in Jobs \ {j} : archive'[i] = archive[i]
                 /\ \/ run'[j].pc \notin {"archive", "unlink", "write"}
                    \/ run'[j].pc = "archive" /\ (files = Nodes => archive'[j] = "filling")
                    \/ At(j, "archive") /\ (archive[j] = "filling" => archive'[j] = "whole")
                    \/ files = {}
<1> USE DEF Typed, ArchivesInv, Archives, Thread, At, Goto, End, Bare, Lost
<1>1. CASE Launch(j) \/ Lookup(j) \/ ReadEvent(j) \/ Setup(j)
  BY <1>1 DEF Launch, Lookup, ReadEvent, Setup, fileVars, backupVars
<1>2. CASE BeginNode(j) \/ EndNode(j) \/ Conclude(j)
  BY <1>2 DEF BeginNode, EndNode, Conclude, fileVars, backupVars
<1>3. CASE OpenArchive(j)
  <2>1. CASE UNCHANGED backupVars
    <3>1. run[j].pc = "backup" /\ j \notin recent /\ files' = files
      BY <1>3 DEF OpenArchive, Late
    <3>2. recent' = recent /\ archive' = archive
      BY <2>1 DEF backupVars
    <3>3. files = {} \/ End(j, "error")
      BY <1>3, <3>1, <3>2 DEF OpenArchive
    <3>4. End(j, "error") => run'[j].pc = "done"
      OBVIOUS
    <3> QED BY <3>1, <3>2, <3>3, <3>4
  <2>2. CASE ~UNCHANGED backupVars
    <3>1. archive[j] = "none" /\ Goto(j, "archive")
      BY <1>3, <2>2, ArchiveOpened DEF OpenArchive, Late
    <3>2. run'[j].pc = "archive"
      BY <3>1
    <3> QED BY <1>3, <2>2, <3>1, <3>2, ArchiveOpened
  <2> QED BY <2>1, <2>2
<1>4. CASE FillArchive(j)
  BY <1>4 DEF FillArchive
<1>5. CASE Unlink(j) \/ Write(j)
  BY <1>5 DEF Unlink, Write, Spoiled
<1> QED BY <1>1, <1>2, <1>3, <1>4, <1>5 DEF Step

LEMMA RecoverableStep ==
    ASSUME Inv, ArchivesInv, [JobsNext]_vars, Recoverable, ~Lost'
    PROVE  Recoverable'
<1>1. Typed
  BY DEF Inv
<1>2. ASSUME UNCHANGED <<files, archive>>,
             \A i \in Jobs : run'[i].pc \in {"archive", "unlink", "write"} =>
                                 run'[i].pc = run[i].pc
      PROVE  Recoverable'
  BY <1>2 DEF Recoverable, At
<1>3. ASSUME NEW j \in Jobs, NEW k \in Kinds, Start(j, k) PROVE Recoverable'
  BY <1>1, <1>2, <1>3 DEF Start, Typed, Thread, fileVars, backupVars
<1>4. ASSUME NEW j \in Jobs, Cancel(j) \/ Signal(j) PROVE Recoverable'
  BY <1>2, <1>4 DEF Cancel, Signal, fileVars, backupVars
<1>5. ASSUME NEW j \in Jobs, Step(j) PROVE Recoverable'
  <2>1. \A i \in Jobs \ {j} : run'[i] = run[i]
    BY <1>5, StepAndEvents
  <2> QED BY <1>1, <1>5, <2>1, StepAndArchives, JobsAssumption DEF Recoverable, At
<1>6. CASE Crash
  BY <1>6 DEF Crash, Bare, Recoverable, At, Spoiled
<1>7. CASE SecondPasses \/ UNCHANGED vars
  BY <1>2, <1>7 DEF SecondPasses, vars, fileVars, backupVars
<1> QED BY <1>3, <1>4, <1>5, <1>6, <1>7 DEF JobsNext

\* The default configurations of a lab are never lost, whatever set-default
\* jobs run on it at the same time and wherever they and the agent stop, while
\* no two of their archives have one name.
THEOREM DefaultsKept == JobsSpec => DefaultsRecoverable
<1>1. JobsInit => ArchivesInv
  BY DEF JobsInit, ArchivesInv, Archives, Bare
<1>2. Inv /\ ArchivesInv /\ [JobsNext]_vars =>
        [Recoverable => Recoverable' \/ \E j \in Jobs : archive'[j] = "lost"]_vars
  BY RecoverableStep DEF Lost
<1> QED BY <1>1, <1>2, ArchivesStep, JobsInvHolds, PTL DEF JobsSpec, DefaultsRecoverable

-----------------------------------------------------------------------------
(* Pushing configurations, for any lines, pushers and families.  No push   *)
(* ever brings back a line that a user added, in force or in a candidate;  *)
(* the invariant adds how far a push has got with removing them.           *)

Pushes ==
    [pc : {"unstarted", "capture"} \cup Session \cup Over, mode : {"none", "base", "cleanup"},
     kind : {"none", "merge", "override", "replace", "cleanup", "rebuild"},
     deletes : SUBSET Lines, todo : SUBSET Lines, mine : SUBSET Base,
     attempt : Nat, fallback : BOOLEAN, alone : BOOLEAN]

PushTyped ==
    /\ family \in Families /\ unseen \subseteq Lines
    /\ running \subseteq Lines /\ candidate \subseteq Lines
    /\ family \notin Shared => candidate = {}
    /\ push \in [Pushers -> Pushes]

\* Where the lines that a push types go.
Target == IF family \in Shared THEN candidate ELSE running

\* What push p has reached: which extra lines are left where it works, and what
\* its commit will bring.
PushSound(p) ==
    /\ push[p].alone /\ Busy(p) => \A q \in Pushers \ {p} : ~Busy(q)
    /\ family \in Immediate => push[p].pc # "commit"
    /\ push[p].pc = "capture" => family \in {"ios", "junos"}
    /\ push[p].kind = "override" => family = "sros"
    /\ push[p].kind = "replace" =>
          family = "iosxr" /\ (push[p].pc = "commit" => Base \ unseen \subseteq push[p].mine)
    /\ push[p].kind = "cleanup" =>
          /\ family \in {"ios", "junos"}
          /\ push[p].pc \in {"enter", "delete"} =>
                Target \cap Extra \subseteq push[p].todo \cup Left
          /\ push[p].pc \in {"load", "commit"} => Target \cap Extra \subseteq Left
          /\ family = "junos" /\ push[p].pc \in Session =>
                running \cap Extra \subseteq push[p].deletes
          /\ push[p].pc = "commit" /\ push[p].alone => Base \ unseen \subseteq candidate

PushInv ==
    /\ PushTyped
    /\ candidate \cap Extra \subseteq running
    /\ \A p \in Pushers : PushSound(p)

\* What a step of push q may do to the router.
Effect(q) ==
    /\ UNCHANGED <<family, unseen>> /\ (family \notin Shared => candidate' = {})
    /\ running' \subseteq Lines /\ candidate' \subseteq Lines
    /\ running' \cap Extra \subseteq running
    /\ candidate' \cap Extra \subseteq running'
    /\ \/ candidate' \cap Extra \subseteq candidate
       \/ \A p \in Pushers \ {q} : push[p].pc \notin Session

LEMMA TypedLines ==
    ASSUME PushInv, NEW q \in Pushers, NEW add \in SUBSET Base, NEW remove,
           Type(q, add, remove), UNCHANGED <<family, unseen>>
    PROVE  Effect(q)
<1>1. /\ running \subseteq Lines /\ candidate \subseteq Lines /\ candidate \cap Extra \subseteq running
      /\ add \subseteq Lines /\ add \cap Extra = {}
      /\ family \notin Shared => candidate = {}
  BY PushAssumption DEF PushInv, PushTyped, Lines
<1>2. CASE family \in Immediate
  <2>1. running' = (running \ remove) \cup add /\ candidate' = {}
    BY <1>1, <1>2 DEF Type, Immediate, Shared
  <2> QED BY <2>1, <1>1 DEF Effect
<1>3. CASE family \in Shared
  <2>1. candidate' = (candidate \ remove) \cup add /\ running' = running
    BY <1>3 DEF Type, Immediate, Shared
  <2> QED BY <2>1, <1>1, <1>3 DEF Effect
<1>4. CASE family \notin Immediate \cup Shared
  <2>1. UNCHANGED <<running, candidate>>
    BY <1>4 DEF Type
  <2> QED BY <2>1, <1>1 DEF Effect
<1> QED BY <1>2, <1>3, <1>4

LEMMA CommittedLines ==
    ASSUME PushInv, NEW q \in Pushers
    PROVE  /\ Committed(q) \subseteq Lines
           /\ Committed(q) \cap Extra \subseteq running
           /\ candidate \cap Extra \subseteq Committed(q)
<1>1. /\ running \subseteq Lines /\ candidate \subseteq Lines /\ candidate \cap Extra \subseteq running
      /\ push[q].mine \subseteq Lines /\ push[q].mine \cap Extra = {}
      /\ family \notin Shared => candidate = {}
  BY PushAssumption DEF PushInv, PushTyped, Pushes, Lines
<1>2. CASE family \in Shared
  <2>1. push[q].kind \notin {"override", "replace"}
    BY <1>2 DEF PushInv, PushSound, Shared
  <2> QED BY <2>1, <1>1, <1>2 DEF Committed
<1>3. CASE family \notin Shared
  <2>1. Committed(q) \in {push[q].mine, running \cup push[q].mine}
    BY <1>3 DEF Committed
  <2> QED BY <2>1, <1>1, <1>3
<1> QED BY <1>2, <1>3

LEMMA DroppedLines ==
    ASSUME PushInv, NEW q \in Pushers, Dropped(q), UNCHANGED <<family, unseen>>
    PROVE  Effect(q)
<1>1. PushTyped /\ candidate \cap Extra \subseteq running
  BY DEF PushInv
<1>2. CASE UNCHANGED <<running, candidate>>
  BY <1>1, <1>2 DEF Effect, PushTyped
<1>3. ASSUME NEW taken \in SUBSET Base, Type(q, taken, {}) PROVE Effect(q)
  BY <1>3, TypedLines
<1>4. CASE running' = Committed(q) /\ UNCHANGED candidate
  BY <1>1, <1>4, CommittedLines DEF Effect, PushTyped
<1>5. CASE /\ family \in Shared /\ \A p \in Pushers \ {q} : push[p].pc \notin Session
           /\ candidate' = running /\ UNCHANGED running
  BY <1>1, <1>5 DEF Effect, PushTyped
<1> QED BY <1>2, <1>3, <1>4, <1>5 DEF Dropped, Harm

\* Whatever step a push takes, it says of itself where it is, and stays alone
\* or not.
LEMMA StepsAndRouter ==
    ASSUME PushInv, NEW q \in Pushers, PushStep(q)
    PROVE  /\ Effect(q) /\ Busy(q)
           /\ \E new \in Pushes :
                 /\ push' = [push EXCEPT ![q] = new]
                 /\ new.pc \in Session => new.alone = push[q].alone
                 /\ new.pc \in Session \cup Over
<1>1. /\ PushTyped /\ push[q] \in Pushes /\ candidate \cap Extra \subseteq running
      /\ running \subseteq Lines /\ candidate \subseteq Lines
  BY DEF PushInv, PushTyped
<1>2. \A pc \in Over : [Unstarted EXCEPT !.pc = pc] \in Pushes
  BY DEF Unstarted, Pushes
<1>3. UNCHANGED <<family, unseen, running, candidate>> => Effect(q)
  BY <1>1 DEF Effect, PushTyped
<1>4. ExtraLines \subseteq Lines /\ MaxAttempts \in Nat /\ JunosKind \in {"merge", "rebuild"}
  BY <1>1, PushAssumption DEF ExtraLines, JunosKind
<1> DEFINE Tells ==
             \E new \in Pushes : /\ push' = [push EXCEPT ![q] = new]
                                 /\ new.pc \in Session => new.alone = push[q].alone
                                 /\ new.pc \in Session \cup Over
<1>5. ASSUME NEW new \in Pushes, Set(q, new),
             new.pc \in Over \/ (new.pc \in Session /\ new.alone = push[q].alone)
      PROVE  Tells
  BY <1>5 DEF Set, Over, Session
<1>6. ASSUME NEW pc \in Over, EndPush(q, pc) PROVE Tells
  <2>1. [Unstarted EXCEPT !.pc = pc].pc = pc
    BY DEF Unstarted
  <2> QED BY <2>1, <1>2, <1>5, <1>6 DEF EndPush
<1> HIDE DEF Tells
<1>7. CASE Capture(q)
  <2>1. Effect(q) /\ Busy(q)
    BY <1>3, <1>7 DEF Capture, Busy, Over
  <2>2. CASE running = Base
    BY <2>1, <2>2, <1>6, <1>7 DEF Capture, Over, Tells
  <2>3. CASE running # Base
    <3> DEFINE cleaning == [push[q] EXCEPT !.pc = "enter", !.kind = "cleanup",
                                           !.deletes = ExtraLines, !.todo = ExtraLines]
               merging == [push[q] EXCEPT !.pc = "enter", !.kind = JunosKind]
    <3>1. Set(q, cleaning) \/ Set(q, merging)
      BY <2>3, <1>7 DEF Capture
    <3>2. cleaning \in Pushes /\ cleaning.pc = "enter" /\ cleaning.alone = push[q].alone
      BY <1>1, <1>4 DEF Pushes, Session
    <3>3. merging \in Pushes /\ merging.pc = "enter" /\ merging.alone = push[q].alone
      BY <1>1, <1>4 DEF Pushes, Session
    <3> HIDE DEF cleaning, merging
    <3>4. Tells
      BY <3>1, <3>2, <3>3, <1>5 DEF Session
    <3> QED BY <2>1, <3>4 DEF Tells
  <2> QED BY <2>2, <2>3
<1>8. ASSUME NEW pc \in Session, Set(q, [push[q] EXCEPT !.pc = pc]) PROVE Tells
  <2> DEFINE new == [push[q] EXCEPT !.pc = pc]
  <2>1. new \in Pushes /\ new.pc = pc /\ new.alone = push[q].alone
    BY <1>1 DEF Pushes
  <2> QED BY <2>1, <1>5, <1>8
<1>9. CASE Enter(q) \/ DeletesDone(q)
  <2>1. Effect(q) /\ Busy(q)
    BY <1>3, <1>9 DEF Enter, DeletesDone, Busy, Over
  <2>2. PICK pc \in Session : Set(q, [push[q] EXCEPT !.pc = pc])
    BY <1>9 DEF Enter, DeletesDone, Session
  <2> QED BY <2>1, <2>2, <1>8 DEF Tells
<1>10. CASE Delete(q)
  <2>1. PICK x \in push[q].todo :
           /\ Type(q, {}, Subtree(x)) \/ UNCHANGED <<running, candidate>>
           /\ Set(q, [push[q] EXCEPT !.todo = @ \ {x}])
    BY <1>10 DEF Delete
  <2>2. Effect(q) /\ Busy(q)
    BY <2>1, <1>3, <1>10, TypedLines DEF Delete, Busy, Over
  <2> DEFINE new == [push[q] EXCEPT !.todo = @ \ {x}]
  <2>3. new \in Pushes /\ new.pc = "delete" /\ new.alone = push[q].alone
    BY <1>1, <1>10 DEF Pushes, Delete
  <2>4. Set(q, new)
    BY <2>1
  <2> HIDE DEF new
  <2>5. Tells
    BY <2>3, <2>4, <1>5 DEF Session
  <2> QED BY <2>2, <2>5 DEF Tells
<1>11. CASE Wipe(q)
  <2>1. Effect(q) /\ Busy(q)
    BY <1>11, TypedLines DEF Wipe, Busy, Over
  <2>2. Tells
    BY <1>8, <1>11 DEF Wipe, Session
  <2> QED BY <2>1, <2>2 DEF Tells
<1>12. CASE Load(q)
  <2>1. PICK taken \in SUBSET Base :
           /\ Type(q, taken, {})
           /\ IF family \in Immediate THEN EndPush(q, "ok")
              ELSE Set(q, [push[q] EXCEPT !.pc = "commit",
                                          !.mine = IF family \in Shared THEN {} ELSE taken])
    BY <1>12 DEF Load
  <2>2. Effect(q) /\ Busy(q)
    BY <2>1, <1>12, TypedLines DEF Load, Busy, Over
  <2>3. CASE family \in Immediate
    <3>1. Tells
      BY <2>1, <2>3, <1>6 DEF Over
    <3> QED BY <2>2, <3>1 DEF Tells
  <2>4. CASE family \notin Immediate
    <3> DEFINE own == IF family \in Shared THEN {} ELSE taken
               new == [push[q] EXCEPT !.pc = "commit", !.mine = own]
    <3>1. Set(q, new) /\ own \subseteq Base
      BY <2>1, <2>4
    <3> HIDE DEF own
    <3>2. new \in Pushes /\ new.pc = "commit" /\ new.alone = push[q].alone
      BY <3>1, <1>1 DEF Pushes, Session
    <3> HIDE DEF new
    <3>3. Tells
      BY <3>1, <3>2, <1>5 DEF Session
    <3> QED BY <2>2, <3>3 DEF Tells
  <2> QED BY <2>3, <2>4
<1>13. CASE Commit(q)
  <2>1. running' \in {Committed(q), running} /\ UNCHANGED <<family, unseen, candidate>>
    BY <1>13 DEF Commit
  <2>2. Effect(q)
    BY <2>1, <1>1, CommittedLines DEF Effect, PushTyped
  <2>3. Tells /\ Busy(q)
    BY <1>6, <1>13 DEF Commit, Busy, Over
  <2> QED BY <2>2, <2>3 DEF Tells
<1>14. ASSUME NEW k \in {"none", "merge", "override", "replace", "cleanup", "rebuild"},
              NEW n \in Nat, NEW b \in BOOLEAN, Again(q, k, n, b)
       PROVE  Tells
  <2> DEFINE dels == IF k = "cleanup" THEN push[q].deletes ELSE {}
             new == [push[q] EXCEPT !.pc = "enter", !.kind = k, !.attempt = n,
                                    !.fallback = b, !.todo = dels, !.deletes = dels]
  <2>1. Set(q, new)
    BY <1>14 DEF Again
  <2>2. dels \subseteq Lines
    BY <1>1 DEF Pushes
  <2> HIDE DEF dels
  <2>3. new \in Pushes /\ new.pc = "enter" /\ new.alone = push[q].alone
    BY <2>2, <1>1 DEF Pushes, Session
  <2> HIDE DEF new
  <2> QED BY <2>1, <2>3, <1>5 DEF Session
<1>15. CASE Retry(q) \/ RebuildInstead(q) \/ MergeInstead(q)
  <2>1. Effect(q) /\ Busy(q)
    BY <1>15, DroppedLines DEF Retry, RebuildInstead, MergeInstead, Busy, Over, Session
  <2>2. /\ push[q].attempt + 1 \in Nat /\ push[q].fallback \in BOOLEAN
        /\ push[q].kind \in {"none", "merge", "override", "replace", "cleanup", "rebuild"}
    BY <1>1 DEF Pushes
  <2>3. Retry(q) => Tells
    BY <2>2, <1>14 DEF Retry
  <2>4. RebuildInstead(q) => Tells
    BY <2>2, <1>4, <1>14 DEF RebuildInstead
  <2>5. MergeInstead(q) => Tells
    BY <1>4, <1>14 DEF MergeInstead
  <2> QED BY <2>1, <2>3, <2>4, <2>5, <1>15 DEF Tells
<1>16. CASE GiveUp(q)
  <2>1. Tells /\ Effect(q) /\ Busy(q)
    BY <1>6, <1>16, DroppedLines DEF GiveUp, Busy, Over, Session
  <2> QED BY <2>1 DEF Tells
<1> QED BY <1>7, <1>9, <1>10, <1>11, <1>12, <1>13, <1>15, <1>16 DEF PushStep

SameButAlone(p) ==
    /\ push'[p].pc = push[p].pc /\ push'[p].kind = push[p].kind
    /\ push'[p].todo = push[p].todo /\ push'[p].deletes = push[p].deletes
    /\ push'[p].mine = push[p].mine
    /\ push'[p].alone => ~Busy(p)

\* A start tells the others that they are no longer alone.
LEMMA Starts ==
    ASSUME PushInv, NEW q \in Pushers, StartPush(q)
    PROVE  /\ Effect(q) /\ UNCHANGED <<running, candidate>>
           /\ push' \in [Pushers -> Pushes]
           /\ push'[q].pc \in {"capture", "enter"}
           /\ push'[q].pc = "enter" => push'[q].kind # "cleanup"
           /\ push'[q].pc = "capture" => family \in {"ios", "junos"}
           /\ push'[q].alone => \A p \in Pushers : ~Busy(p)
           /\ push'[q].kind = "replace" => family = "iosxr"
           /\ push'[q].kind = "override" => family = "sros"
           /\ push'[q].kind = "cleanup" => family = "ios"
           /\ \A p \in Pushers \ {q} : SameButAlone(p)
<1>1. PushTyped /\ candidate \cap Extra \subseteq running
  BY DEF PushInv
<1>2. PICK mode \in {"base", "cleanup"} :
         push' = [p \in Pushers |->
                    IF p = q
                    THEN [Unstarted EXCEPT
                            !.pc = IF family = "junos" \/ Kind(mode) = "cleanup"
                                   THEN "capture" ELSE "enter",
                            !.mode = mode, !.kind = Kind(mode),
                            !.alone = ~\E r \in Pushers : Busy(r)]
                    ELSE [push[p] EXCEPT !.alone = @ /\ ~Busy(p)]]
  BY DEF StartPush
<1>3. UNCHANGED <<family, unseen, running, candidate>>
  BY DEF StartPush
<1>4. Effect(q)
  BY <1>1, <1>3 DEF Effect, PushTyped
<1>5. /\ Kind(mode) \in {"merge", "override", "replace", "cleanup"}
      /\ Kind(mode) = "replace" => family = "iosxr"
      /\ Kind(mode) = "override" => family = "sros"
      /\ Kind(mode) = "cleanup" => family = "ios"
  BY DEF Kind
<1> DEFINE pc == IF family = "junos" \/ Kind(mode) = "cleanup" THEN "capture" ELSE "enter"
           lone == ~\E r \in Pushers : Busy(r)
           new == [Unstarted EXCEPT !.pc = pc, !.mode = mode, !.kind = Kind(mode),
                                    !.alone = lone]
<1>6. push'[q] = new
  BY <1>2
<1>7. new.pc = pc /\ new.kind = Kind(mode) /\ new.alone = lone /\ lone \in BOOLEAN
  BY DEF Unstarted
<1>8. new \in Pushes
  BY <1>5 DEF Unstarted, Pushes, Session
<1>9. ASSUME NEW p \in Pushers \ {q}
      PROVE  SameButAlone(p) /\ push'[p] \in Pushes
  <2> DEFINE still == push[p].alone /\ ~Busy(p)
  <2>1. push'[p] = [push[p] EXCEPT !.alone = still]
    BY <1>2
  <2>2. push[p] \in Pushes /\ still \in BOOLEAN
    BY <1>1 DEF PushTyped, Pushes, Busy
  <2> HIDE DEF still
  <2>3. push'[p] \in Pushes /\ push'[p].alone = still
    BY <2>1, <2>2 DEF Pushes
  <2>4. /\ push'[p].pc = push[p].pc /\ push'[p].kind = push[p].kind
        /\ push'[p].todo = push[p].todo /\ push'[p].deletes = push[p].deletes
        /\ push'[p].mine = push[p].mine
    BY <2>1, <2>2 DEF Pushes
  <2> QED BY <2>3, <2>4 DEF SameButAlone, still
<1>10. push' \in [Pushers -> Pushes]
  <2>1. \A p \in Pushers : push'[p] \in Pushes
    BY <1>6, <1>8, <1>9
  <2>2. push' = [p \in Pushers |-> push'[p]]
    BY <1>2
  <2> QED BY <2>1, <2>2
<1> HIDE DEF new
<1>11. /\ push'[q].pc \in {"capture", "enter"}
       /\ push'[q].pc = "enter" => push'[q].kind # "cleanup"
       /\ push'[q].pc = "capture" => family \in {"ios", "junos"}
       /\ push'[q].alone => \A p \in Pushers : ~Busy(p)
       /\ push'[q].kind = Kind(mode)
  BY <1>5, <1>6, <1>7
<1> QED BY <1>3, <1>4, <1>5, <1>9, <1>10, <1>11

\* The pushes that take no part in a step stay sound.
LEMMA OthersStaySound ==
    ASSUME PushInv, NEW q \in Pushers, NEW p \in Pushers \ {q}, PushStep(q)
    PROVE  PushSound(p)'
<1>1. Effect(q) /\ Busy(q) /\ push'[p] = push[p] /\ PushSound(p)
  <2>1. Effect(q) /\ Busy(q) /\ \E new \in Pushes : push' = [push EXCEPT ![q] = new]
    BY StepsAndRouter
  <2> QED BY <2>1 DEF PushInv, PushTyped
<1>2. Busy(p) => ~push[p].alone
  BY <1>1 DEF PushSound
<1>3. push[p].pc \in Session => Busy(p)
  BY DEF Session, Busy, Over
<1>4. push[p].pc \in Session /\ push[p].kind = "cleanup" => Target' \cap Extra \subseteq Target
  BY <1>1 DEF Effect, Target, Shared
<1>5. (Busy(p)' <=> Busy(p)) /\ UNCHANGED <<family, unseen>> /\ Left' = Left
  BY <1>1 DEF Busy, Effect, Left
<1>6. push[p].kind = "cleanup" =>
         /\ push[p].pc \in {"enter", "delete"} =>
               Target' \cap Extra \subseteq push[p].todo \cup Left
         /\ push[p].pc \in {"load", "commit"} => Target' \cap Extra \subseteq Left
         /\ family = "junos" /\ push[p].pc \in Session =>
               running' \cap Extra \subseteq push[p].deletes
  BY <1>1, <1>4 DEF PushSound, Effect, Session
<1> QED BY <1>1, <1>2, <1>3, <1>5, <1>6 DEF PushSound, Session

LEMMA StartStaysSound ==
    ASSUME PushInv, NEW q \in Pushers, NEW p \in Pushers, StartPush(q)
    PROVE  PushSound(p)'
<1>1. UNCHANGED <<family, unseen, running, candidate>> /\ Target' = Target /\ Left' = Left
  BY Starts DEF Effect, Target, Left
<1>2. \A r \in Pushers \ {q} : push'[r].pc = push[r].pc
  BY Starts DEF SameButAlone
<1>3. CASE p = q
  BY <1>1, <1>2, <1>3, Starts DEF PushSound, Busy, Session, Over
<1>4. CASE p # q
  <2>1. SameButAlone(p)
    BY <1>4, Starts
  <2>2. (Busy(p)' <=> Busy(p)) /\ (push[p].pc = "commit" => Busy(p))
    BY <2>1 DEF Busy, Over, SameButAlone
  <2>3. PushSound(p)
    BY DEF PushInv
  <2> QED BY <1>1, <2>1, <2>2, <2>3 DEF PushSound, SameButAlone
<1> QED BY <1>3, <1>4

\* What a push knows of itself after a step of its own, that it is alone apart.
Reached(q) ==
    /\ family \in Immediate => push[q].pc # "commit"
    /\ push[q].pc # "capture"
    /\ push[q].kind = "override" => family = "sros"
    /\ push[q].kind = "replace" =>
          family = "iosxr" /\ (push[q].pc = "commit" => Base \ unseen \subseteq push[q].mine)
    /\ push[q].kind = "cleanup" =>
          /\ family \in {"ios", "junos"}
          /\ push[q].pc \in {"enter", "delete"} =>
                Target \cap Extra \subseteq push[q].todo \cup Left
          /\ push[q].pc \in {"load", "commit"} => Target \cap Extra \subseteq Left
          /\ family = "junos" /\ push[q].pc \in Session =>
                running \cap Extra \subseteq push[q].deletes
          /\ push[q].pc = "commit" => Base \ unseen \subseteq candidate

\* Another attempt begins in configuration mode.
LEMMA AgainReenters ==
    ASSUME PushTyped, NEW q \in Pushers, push[q] \in Pushes,
           NEW kind, NEW attempt, NEW fallback, Again(q, kind, attempt, fallback)
    PROVE  push'[q].pc = "enter" /\ push'[q].kind = kind
<1> DEFINE new ==
      [push[q] EXCEPT !.pc = "enter", !.kind = kind, !.attempt = attempt,
                      !.fallback = fallback,
                      !.todo = IF kind = "cleanup" THEN push[q].deletes ELSE {},
                      !.deletes = IF kind = "cleanup" THEN @ ELSE {}]
<1>1. new.pc = "enter" /\ new.kind = kind
  BY DEF Pushes
<1>2. Set(q, new)
  BY DEF Again
<1> HIDE DEF new
<1>3. push'[q] = new
  BY <1>2 DEF Set, PushTyped
<1> QED BY <1>1, <1>3

LEMMA OwnStepReaches ==
    ASSUME PushInv, NEW q \in Pushers, PushStep(q)
    PROVE  Reached(q)'
<1>1. /\ PushTyped /\ push[q] \in Pushes /\ PushSound(q) /\ candidate \cap Extra \subseteq running
      /\ running \subseteq Lines
  BY DEF PushInv, PushTyped
<1>2. Effect(q) /\ UNCHANGED <<family, unseen>> /\ Left' = Left
  BY StepsAndRouter DEF Effect, Left
<1>3. ASSUME NEW new, Set(q, new) PROVE push'[q] = new
  BY <1>1, <1>3 DEF Set, PushTyped
<1>4. ASSUME NEW pc \in Over, EndPush(q, pc) PROVE Reached(q)'
  <2>1. push'[q] = [Unstarted EXCEPT !.pc = pc]
    BY <1>3, <1>4 DEF EndPush
  <2> QED BY <2>1 DEF Reached, Unstarted, Over
<1>5. CASE Capture(q)
  <2>1. UNCHANGED <<running, candidate>> /\ family \in {"ios", "junos"} /\ Target' = Target
    BY <1>1, <1>5 DEF Capture, PushSound, Target
  <2>2. CASE running = Base
    BY <2>2, <1>4, <1>5 DEF Capture, Over
  <2>3. CASE Set(q, [push[q] EXCEPT !.pc = "enter", !.kind = "cleanup",
                                    !.deletes = ExtraLines, !.todo = ExtraLines])
    <3>1. /\ push'[q].pc = "enter" /\ push'[q].kind = "cleanup"
          /\ push'[q].deletes = ExtraLines /\ push'[q].todo = ExtraLines
      BY <2>3, <1>1, <1>3 DEF Pushes
    <3>2. /\ running \cap Extra \subseteq ExtraLines \cup Left
          /\ family = "junos" => running \cap Extra \subseteq ExtraLines
      BY PushAssumption DEF ExtraLines, Left
    <3>3. Target \cap Extra \subseteq ExtraLines \cup Left
      BY <3>2, <1>1 DEF Target
    <3> QED BY <3>1, <3>2, <3>3, <2>1, <1>2 DEF Reached
  <2>4. CASE Set(q, [push[q] EXCEPT !.pc = "enter", !.kind = JunosKind])
    <3>1. push'[q].pc = "enter" /\ push'[q].kind = JunosKind
      BY <2>4, <1>1, <1>3 DEF Pushes
    <3> QED BY <3>1 DEF Reached, JunosKind
  <2> QED BY <2>2, <2>3, <2>4, <1>5 DEF Capture
<1>6. CASE Enter(q)
  <2> DEFINE pc == IF push[q].kind \in {"cleanup", "rebuild"} THEN "delete" ELSE "load"
  <2>1. push'[q] = [push[q] EXCEPT !.pc = pc] /\ UNCHANGED <<running, candidate>>
    BY <1>3, <1>6 DEF Enter
  <2>2. /\ push'[q].pc = pc /\ push'[q].kind = push[q].kind
        /\ push'[q].todo = push[q].todo /\ push'[q].deletes = push[q].deletes
    BY <2>1, <1>1 DEF Pushes
  <2>3. Target' = Target /\ push[q].pc = "enter"
    BY <2>1, <1>2, <1>6 DEF Target, Enter
  <2> QED BY <2>1, <2>2, <2>3, <1>1, <1>2 DEF Reached, PushSound, Session
<1>7. CASE Delete(q)
  <2>1. PICK x \in push[q].todo :
           /\ \/ Type(q, {}, Subtree(x))
              \/ x \in unseen /\ UNCHANGED <<running, candidate>>
           /\ Set(q, [push[q] EXCEPT !.todo = @ \ {x}])
    BY <1>7 DEF Delete
  <2>2. /\ push'[q].pc = "delete" /\ push'[q].kind = "cleanup"
        /\ push'[q].todo = push[q].todo \ {x} /\ push'[q].deletes = push[q].deletes
    BY <2>1, <1>1, <1>3, <1>7 DEF Pushes, Delete
  <2>3. family \in {"ios", "junos"} /\ Target \cap Extra \subseteq push[q].todo \cup Left
    BY <1>1, <1>7 DEF Delete, PushSound
  <2>4. Target' = Target \ Subtree(x) \/ (x \in Left /\ Target' = Target)
    BY <2>1, <2>3, <1>2 DEF Type, Target, Shared, Immediate, Left
  <2>5. x \in Subtree(x)
    BY DEF Subtree
  <2>6. Target' \cap Extra \subseteq (push[q].todo \ {x}) \cup Left
    BY <2>3, <2>4, <2>5
  <2>7. family = "junos" => running' \cap Extra \subseteq push[q].deletes
    BY <1>1, <1>2, <1>7 DEF Delete, PushSound, Effect, Session
  <2> QED BY <2>2, <2>3, <2>6, <2>7, <1>2 DEF Reached
<1>8. CASE DeletesDone(q)
  <2>1. UNCHANGED <<running, candidate>> /\ push[q].kind = "cleanup" /\ push[q].todo = {}
    BY <1>8 DEF DeletesDone
  <2>2. push'[q].pc = "load" /\ push'[q].kind = "cleanup" /\ push'[q].deletes = push[q].deletes
    BY <1>1, <1>3, <1>8 DEF DeletesDone, Pushes
  <2>3. Target' = Target /\ push[q].pc = "delete"
    BY <2>1, <1>2, <1>8 DEF Target, DeletesDone
  <2> QED BY <2>1, <2>2, <2>3, <1>1, <1>2 DEF Reached, PushSound, Session
<1>9. CASE Wipe(q)
  <2>1. push'[q].pc = "load" /\ push'[q].kind = "rebuild"
    BY <1>1, <1>3, <1>9 DEF Wipe, Pushes
  <2> QED BY <2>1 DEF Reached
<1>10. CASE Load(q)
  <2>1. PICK taken \in SUBSET Base :
           /\ ReadsLoad(q) => Base \ unseen \subseteq taken
           /\ Type(q, taken, {})
           /\ IF family \in Immediate THEN EndPush(q, "ok")
              ELSE Set(q, [push[q] EXCEPT !.pc = "commit",
                                          !.mine = IF family \in Shared THEN {} ELSE taken])
    BY <1>10 DEF Load
  <2>2. CASE family \in Immediate
    BY <2>1, <2>2, <1>4 DEF Over
  <2>3. CASE family \notin Immediate
    <3> DEFINE own == IF family \in Shared THEN {} ELSE taken
    <3>1. /\ push'[q].pc = "commit" /\ push'[q].kind = push[q].kind
          /\ push'[q].mine = own /\ push'[q].deletes = push[q].deletes
      BY <2>1, <2>3, <1>1, <1>3 DEF Pushes
    <3>2. push[q].kind = "replace" => Base \ unseen \subseteq own
      BY <2>1, <1>1 DEF ReadsLoad, PushSound, Shared
    <3>3. ASSUME push[q].kind = "cleanup"
          PROVE  /\ family = "junos" /\ running' = running
                 /\ Base \ unseen \subseteq candidate'
                 /\ Target' \cap Extra \subseteq Left
                 /\ running \cap Extra \subseteq push[q].deletes
      <4>1. family = "junos"
        BY <3>3, <2>3, <1>1 DEF PushSound, Immediate
      <4>2. /\ candidate' = candidate \cup taken /\ running' = running
            /\ Base \ unseen \subseteq taken
        BY <4>1, <3>3, <2>1 DEF ReadsLoad, Type, Shared, Immediate
      <4>3. push[q].pc = "load"
        BY <1>10 DEF Load
      <4>4. candidate \cap Extra \subseteq Left /\ running \cap Extra \subseteq push[q].deletes
        BY <4>1, <4>3, <3>3, <1>1 DEF PushSound, Target, Shared, Session
      <4> QED BY <4>1, <4>2, <4>4, <1>2, PushAssumption DEF Target, Shared
    <3>4. push[q].kind = "override" => family = "sros"
      BY <1>1 DEF PushSound
    <3>5. push[q].kind = "replace" => family = "iosxr"
      BY <1>1 DEF PushSound
    <3> HIDE DEF own
    <3> QED BY <3>1, <3>2, <3>3, <3>4, <3>5, <2>3, <1>2 DEF Reached
  <2> QED BY <2>2, <2>3
<1>11. CASE Commit(q) \/ GiveUp(q)
  BY <1>4, <1>11 DEF Commit, GiveUp, Over
<1>12. CASE Retry(q)
  <2>1. family = "junos" /\ push[q].pc \in Session
    BY <1>12 DEF Retry
  <2>2. /\ push'[q].pc = "enter" /\ push'[q].kind = push[q].kind
        /\ push[q].kind = "cleanup" =>
              push'[q].deletes = push[q].deletes /\ push'[q].todo = push[q].deletes
    BY <1>1, <1>3, <1>12 DEF Retry, Again, Pushes
  <2>3. push[q].kind = "cleanup" =>
           /\ running' \cap Extra \subseteq push[q].deletes
           /\ Target' \cap Extra \subseteq push[q].deletes
    BY <2>1, <1>1, <1>2 DEF PushSound, Effect, Target, Shared
  <2> QED BY <2>1, <2>2, <2>3, <1>1, <1>2 DEF Reached, PushSound
<1>13. CASE RebuildInstead(q) \/ MergeInstead(q)
  <2>2. CASE RebuildInstead(q)
    BY <1>1, <2>2, AgainReenters DEF RebuildInstead, Reached
  <2>3. CASE MergeInstead(q)
    <3>1. push'[q].pc = "enter" /\ push'[q].kind = JunosKind
      BY <1>1, <2>3, AgainReenters DEF MergeInstead
    <3> QED BY <3>1 DEF Reached, JunosKind
  <2> QED BY <1>13, <2>2, <2>3
<1> QED BY <1>5, <1>6, <1>7, <1>8, <1>9, <1>10, <1>11, <1>12, <1>13 DEF PushStep

LEMMA PushInitHolds == PushInit => PushInv
<1> SUFFICES ASSUME PushInit PROVE PushInv
  OBVIOUS
<1>1. Unstarted \in Pushes
  BY DEF Unstarted, Pushes
<1>2. PushTyped
  BY <1>1 DEF PushInit, PushTyped
<1>3. candidate \cap Extra \subseteq running
  BY DEF PushInit
<1>4. \A p \in Pushers : push[p] = Unstarted
  BY DEF PushInit
<1>5. ASSUME NEW p \in Pushers PROVE PushSound(p)
  BY <1>4 DEF PushSound, Unstarted, Busy, Session
<1> QED BY <1>2, <1>3, <1>5 DEF PushInv

LEMMA PushKeepsInv == PushInv /\ [PushNext]_pushVars => PushInv'
<1> SUFFICES ASSUME PushInv, [PushNext]_pushVars PROVE PushInv'
  OBVIOUS
<1>1. CASE UNCHANGED pushVars
  BY <1>1 DEF pushVars, PushInv, PushTyped, PushSound, Busy, Target, Left
<1>2. ASSUME NEW q \in Pushers, StartPush(q) PROVE PushInv'
  <2>1. PushTyped'
    BY <1>2, Starts DEF PushInv, PushTyped, Effect
  <2>2. (candidate \cap Extra \subseteq running)'
    BY <1>2, Starts DEF Effect
  <2>3. \A p \in Pushers : PushSound(p)'
    BY <1>2, StartStaysSound
  <2> QED BY <2>1, <2>2, <2>3 DEF PushInv
<1>3. ASSUME NEW q \in Pushers, PushStep(q) PROVE PushInv'
  <2>1. PICK new \in Pushes :
           /\ push' = [push EXCEPT ![q] = new]
           /\ new.pc \in Session => new.alone = push[q].alone
           /\ new.pc \in Session \cup Over
    BY <1>3, StepsAndRouter
  <2>2. Effect(q) /\ Busy(q)
    BY <1>3, StepsAndRouter
  <2>3. PushTyped'
    BY <2>1, <2>2 DEF PushInv, PushTyped, Effect
  <2>4. (candidate \cap Extra \subseteq running)'
    BY <2>2 DEF Effect
  <2>5. push'[q] = new /\ \A p \in Pushers \ {q} : push'[p] = push[p]
    BY <2>1 DEF PushInv, PushTyped
  <2>6. push'[q].alone /\ Busy(q)' => \A p \in Pushers \ {q} : ~Busy(p)'
    BY <2>1, <2>2, <2>5 DEF PushInv, PushSound, Busy, Over, Session
  <2>7. PushSound(q)'
    BY <2>6, <1>3, OwnStepReaches DEF PushSound, Reached
  <2>8. \A p \in Pushers : PushSound(p)'
    BY <2>7, <1>3, OthersStaySound
  <2> QED BY <2>3, <2>4, <2>8 DEF PushInv
<1> QED BY <1>1, <1>2, <1>3 DEF PushNext

LEMMA PushInvariant == PushSpec => []PushInv
BY PushInitHolds, PushKeepsInv, PTL DEF PushSpec

-----------------------------------------------------------------------------
(* What "ok" means.                                                        *)

\* A push succeeds by a step of its own: it found nothing to do, or loaded or
\* committed its lines.
LEMMA SuccessSteps ==
    ASSUME PushInv, [PushNext]_pushVars, NEW p \in Pushers, Succeeds(p)
    PROVE  \/ UNCHANGED <<family, running>> /\ running = Base
           \/ Load(p) /\ family \in Immediate
           \/ Commit(p)
<1>1. PushTyped /\ push[p] \in Pushes
  BY DEF PushInv, PushTyped
<1>2. ~UNCHANGED pushVars
  BY DEF pushVars, Succeeds
<1>3. ~\E q \in Pushers : StartPush(q)
  <2> SUFFICES ASSUME NEW q \in Pushers, StartPush(q) PROVE FALSE
    OBVIOUS
  <2>1. push'[q].pc \in {"capture", "enter"} /\ (p # q => push'[p].pc = push[p].pc)
    BY Starts DEF SameButAlone
  <2> QED BY <2>1 DEF Succeeds
<1>4. PICK q \in Pushers : PushStep(q)
  BY <1>2, <1>3 DEF PushNext
<1>5. q = p
  <2>1. \E new \in Pushes : push' = [push EXCEPT ![q] = new]
    BY <1>4, StepsAndRouter
  <2> QED BY <2>1, <1>1 DEF PushTyped, Succeeds
<1>6. ASSUME NEW new, Set(p, new) PROVE push'[p] = new
  BY <1>1, <1>6 DEF Set, PushTyped
<1>7. CASE Capture(p)
  <2>1. CASE running = Base
    BY <2>1, <1>7 DEF Capture
  <2>2. CASE running # Base
    <3>1. \/ Set(p, [push[p] EXCEPT !.pc = "enter", !.kind = "cleanup",
                                    !.deletes = ExtraLines, !.todo = ExtraLines])
          \/ Set(p, [push[p] EXCEPT !.pc = "enter", !.kind = JunosKind])
      BY <2>2, <1>7 DEF Capture
    <3>2. push'[p].pc = "enter"
      BY <3>1, <1>1, <1>6 DEF Pushes
    <3> QED BY <3>2 DEF Succeeds
  <2> QED BY <2>1, <2>2
<1>8. CASE Enter(p)
  <2>1. push'[p].pc \in {"delete", "load"}
    BY <1>1, <1>6, <1>8 DEF Enter, Pushes
  <2> QED BY <2>1 DEF Succeeds
<1>9. CASE Delete(p)
  <2>1. push'[p].pc = "delete"
    BY <1>1, <1>6, <1>9 DEF Delete, Pushes
  <2> QED BY <2>1 DEF Succeeds
<1>10. CASE Wipe(p) \/ DeletesDone(p)
  <2>1. push'[p].pc = "load"
    BY <1>1, <1>6, <1>10 DEF Wipe, DeletesDone, Pushes
  <2> QED BY <2>1 DEF Succeeds
<1>11. CASE Load(p)
  <2>1. CASE family \notin Immediate
    <3>1. \E own : Set(p, [push[p] EXCEPT !.pc = "commit", !.mine = own])
      BY <2>1, <1>11 DEF Load
    <3>2. push'[p].pc = "commit"
      BY <3>1, <1>1, <1>6 DEF Pushes
    <3> QED BY <3>2 DEF Succeeds
  <2> QED BY <2>1, <1>11
<1>12. CASE Retry(p) \/ RebuildInstead(p) \/ MergeInstead(p)
  <2>1. PICK kind, attempt, fallback : Again(p, kind, attempt, fallback)
    BY <1>12 DEF Retry, RebuildInstead, MergeInstead
  <2>2. push'[p].pc = "enter"
    BY <2>1, <1>1, AgainReenters
  <2> QED BY <2>2 DEF Succeeds
<1>13. CASE GiveUp(p)
  <2>1. push'[p] = [Unstarted EXCEPT !.pc = "failed"]
    BY <1>6, <1>13 DEF GiveUp, EndPush
  <2> QED BY <2>1 DEF Unstarted, Succeeds
<1> QED
  BY <1>4, <1>5, <1>7, <1>8, <1>9, <1>10, <1>11, <1>12, <1>13 DEF PushStep

\* Where the code reads what the router answers, "ok" means that the whole
\* default configuration is there.
LEMMA OkStep ==
    ASSUME PushInv, [PushNext]_pushVars, NEW p \in Pushers, Succeeds(p),
           \/ family \in Immediate
           \/ push[p].kind = "replace"
           \/ push[p].kind = "cleanup" /\ push[p].alone
    PROVE  Base \ unseen \subseteq running'
<1>1. PushSound(p)
  BY DEF PushInv
<1>2. CASE Load(p) /\ family \in Immediate
  <2>1. PICK taken \in SUBSET Base :
           (ReadsLoad(p) => Base \ unseen \subseteq taken) /\ Type(p, taken, {})
    BY <1>2 DEF Load
  <2>2. Base \ unseen \subseteq taken
    BY <2>1, <1>2 DEF ReadsLoad
  <2> QED BY <2>1, <2>2, <1>2 DEF Type, Immediate, Shared
<1>3. CASE Commit(p)
  <2>1. push[p].kind \in {"replace", "cleanup"} /\ running' = Committed(p)
    BY <1>1, <1>3 DEF Commit, ReadsCommit, PushSound, Immediate
  <2>2. push[p].kind = "replace" => Base \ unseen \subseteq Committed(p)
    BY <1>1, <1>3 DEF Commit, Committed, PushSound, Shared
  <2>3. push[p].kind = "cleanup" => Base \ unseen \subseteq Committed(p)
    BY <1>1, <1>3 DEF Commit, Committed, PushSound, Shared, Immediate
  <2> QED BY <2>1, <2>2, <2>3
<1> QED BY <1>2, <1>3, SuccessSteps

\* A clean-up that reports "ok" has removed what it can remove.
LEMMA CleanupStep ==
    ASSUME PushInv, [PushNext]_pushVars, NEW p \in Pushers, Succeeds(p),
           push[p].kind \in {"replace", "cleanup"}
    PROVE  running' \cap Extra \subseteq Left
<1>1. PushSound(p)
  BY DEF PushInv
<1>2. CASE UNCHANGED <<family, running>> /\ running = Base
  BY <1>2, PushAssumption
<1>3. CASE Load(p) /\ family \in Immediate
  <2>1. push[p].kind = "cleanup" /\ family = "ios" /\ running \cap Extra \subseteq Left
    BY <1>1, <1>3 DEF Load, PushSound, Target, Immediate, Shared
  <2>2. PICK taken \in SUBSET Base : Type(p, taken, {})
    BY <1>3 DEF Load
  <2>3. running' = running \cup taken
    BY <2>2, <1>3 DEF Type, Immediate, Shared
  <2> QED BY <2>1, <2>3, PushAssumption
<1>4. CASE Commit(p)
  <2>1. running' = Committed(p) /\ push[p].pc = "commit"
    BY <1>1, <1>4 DEF Commit, ReadsCommit, PushSound, Immediate
  <2>2. push[p].kind = "replace" => Committed(p) \subseteq Base
    BY <1>1, <2>1 DEF Committed, PushInv, PushTyped, Pushes, PushSound, Shared
  <2>3. push[p].kind = "cleanup" => Committed(p) \cap Extra \subseteq Left
    BY <1>1, <2>1 DEF Committed, PushSound, Shared, Immediate, Target
  <2> QED BY <2>1, <2>2, <2>3, PushAssumption
<1> QED BY <1>2, <1>3, <1>4, SuccessSteps

\* Where the code reads the answers, "ok" means that the router has every line
\* of the default configuration, for any lines and any number of pushes.
THEOREM OkIsEarned == PushSpec => OkMeansApplied
<1>1. PushInv /\ [PushNext]_pushVars =>
         \A p \in Pushers :
            /\ Succeeds(p)
            /\ \/ family \in Immediate
               \/ push[p].kind = "replace"
               \/ push[p].kind = "cleanup" /\ push[p].alone
            => Base \ unseen \subseteq running'
  BY OkStep
<1> QED BY <1>1, PushInvariant, PTL DEF PushSpec, OkMeansApplied

\* A clean-up that succeeds leaves none of the lines it can remove, whatever
\* the other pushes do.
THEOREM CleanupsClean == PushSpec => CleanupRemovesExtras
<1>1. PushInv /\ [PushNext]_pushVars =>
         \A p \in Pushers :
            /\ Succeeds(p) /\ push[p].mode = "cleanup"
            /\ push[p].kind \in {"replace", "cleanup"}
            => running' \cap Extra \subseteq Left
  BY CleanupStep
<1> QED BY <1>1, PushInvariant, PTL DEF PushSpec, CleanupRemovesExtras
=============================================================================
