------------------------- MODULE CentralJobsProofs -------------------------
(***************************************************************************)
(* The jobs the central answers for, for any jobs, vms, labs and places:   *)
(* the provisioning of vms, and the jobs of a lab whose ends it records.   *)
(*                                                                         *)
(* Provisioning comes first: one script per id of a vm as long as the dictionary   *)
(* knows of it, and a dictionary that implements JobStore.  The invariant  *)
(* says that the jobs in the dictionary have started and were not lost     *)
(* (Kept), that no two active ones have the same vm (Apart), and what a    *)
(* script says of its job.                                                 *)
(***************************************************************************)
EXTENDS LabRuntime, Provisioning, TLAPS

States == {"unused", "pending", "running", "success", "error", "gone"}
Active(j) == state[j] \in {"pending", "running"}

ProvisionTyped ==
    /\ jobs \in Seq(ProvisionJobs)
    /\ state \in [ProvisionJobs -> States]
    /\ target \in [ProvisionJobs -> Vms \cup {"none"}]
    /\ scripts \subseteq ProvisionJobs

Kept == \A j \in ToSet(jobs) : state[j] \notin {"unused", "gone"}
Apart ==
    \A i, j \in ToSet(jobs) :
        i # j /\ Active(i) /\ Active(j) => target[i] # target[j]
ScriptStates == \A j \in scripts : state[j] \in {"running", "error", "gone"}

ProvisionInv == ProvisionTyped /\ Kept /\ Apart /\ ScriptStates

-----------------------------------------------------------------------------
\* A job enters a dictionary, and the oldest may leave it.
LEMMA Entered ==
    ASSUME NEW S, NEW s \in Seq(S), NEW e \in S
    PROVE  /\ Append(s, e) \in Seq(S) /\ Tail(Append(s, e)) \in Seq(S)
           /\ ToSet(Append(s, e)) \subseteq ToSet(s) \cup {e}
           /\ ToSet(Tail(Append(s, e))) \subseteq ToSet(s) \cup {e}
<1>1. /\ Append(s, e) \in Seq(S) /\ Len(Append(s, e)) = Len(s) + 1 /\ Len(s) \in Nat
      /\ DOMAIN Append(s, e) = 1 .. (Len(s) + 1) /\ DOMAIN s = 1 .. Len(s)
      /\ \A i \in 1 .. Len(s) : Append(s, e)[i] = s[i]
      /\ Append(s, e)[Len(s) + 1] = e
  OBVIOUS
<1> DEFINE all == Append(s, e)
<1>2. /\ Tail(all) \in Seq(S) /\ DOMAIN Tail(all) = 1 .. Len(s)
      /\ \A i \in 1 .. Len(s) : Tail(all)[i] = all[i + 1]
  BY <1>1
<1> HIDE DEF all
<1>3. ToSet(all) \subseteq ToSet(s) \cup {e}
  BY <1>1 DEF ToSet, all
<1>4. ToSet(Tail(all)) \subseteq ToSet(all)
  BY <1>1, <1>2 DEF ToSet, all
<1> QED BY <1>1, <1>2, <1>3, <1>4 DEF all

LEMMA JobsAreJobs == ASSUME ProvisionTyped PROVE ToSet(jobs) \subseteq ProvisionJobs
  BY DEF ProvisionTyped, ToSet

LEMMA StartKeeps ==
    ASSUME ProvisionInv, NEW j \in ProvisionJobs, NEW v \in Vms, StartProvision(j, v)
    PROVE  ProvisionInv'
<1>1. /\ ProvisionTyped /\ state[j] = "unused" /\ ~ActiveFor(v)
      /\ target' = [target EXCEPT ![j] = v] /\ state' = [state EXCEPT ![j] = "pending"]
      /\ UNCHANGED scripts
  BY DEF StartProvision, ProvisionInv
<1>2. jobs' \in Seq(ProvisionJobs) /\ ToSet(jobs') \subseteq ToSet(jobs) \cup {j}
  <2>1. jobs \in Seq(ProvisionJobs)
    BY <1>1 DEF ProvisionTyped
  <2> QED BY <2>1, Entered DEF StartProvision
<1>3. ProvisionTyped'
  BY <1>1, <1>2 DEF ProvisionTyped, States
<1>4. j \notin ToSet(jobs) /\ ToSet(jobs) \subseteq ProvisionJobs
  BY <1>1, JobsAreJobs DEF ProvisionInv, Kept
<1>5. /\ \A i \in ToSet(jobs) : state'[i] = state[i] /\ target'[i] = target[i]
      /\ state'[j] = "pending" /\ target'[j] = v
  BY <1>1, <1>4 DEF ProvisionTyped
<1>6. ToSet(jobs)' \subseteq ToSet(jobs) \cup {j}
  BY <1>2 DEF ToSet
<1>7. Kept'
  BY <1>5, <1>6 DEF ProvisionInv, Kept
<1>8. \A i \in ToSet(jobs) : Active(i) => target[i] # v
  BY <1>1 DEF ActiveFor, Active
<1>9. Apart'
  BY <1>5, <1>6, <1>8 DEF ProvisionInv, Apart, Active
<1>10. j \notin scripts
  BY <1>1 DEF ProvisionInv, ScriptStates
<1>11. ScriptStates'
  BY <1>1, <1>10 DEF ProvisionInv, ScriptStates, ProvisionTyped
<1> QED BY <1>3, <1>7, <1>9, <1>11 DEF ProvisionInv

LEMMA StepKeeps ==
    ASSUME ProvisionInv, NEW j \in ProvisionJobs, ProvisionStep(j)
    PROVE  ProvisionInv'
<1>1. ProvisionTyped /\ UNCHANGED <<jobs, target>> /\ ToSet(jobs)' = ToSet(jobs)
      /\ ToSet(jobs) \subseteq ProvisionJobs
  BY JobsAreJobs DEF ProvisionInv, ProvisionStep, ThreadBegins, ScriptStarts, ScriptEnds,
     ThreadFails, ScriptLeftEnds, ToSet
<1>2. /\ state' \in [ProvisionJobs -> States] /\ scripts' \subseteq ProvisionJobs
      /\ \A i \in ProvisionJobs \ {j} : state'[i] = state[i] /\ (i \in scripts' <=> i \in scripts)
      /\ state'[j] \notin {"unused", "gone"} \/ state'[j] = state[j]
      /\ state'[j] \in {"pending", "running"} => state[j] \in {"pending", "running"}
      /\ j \in scripts' => state'[j] \in {"running", "error", "gone"}
  <2> USE <1>1 DEF ProvisionTyped, States, ProvisionInv, ScriptStates
  <2>1. CASE ThreadBegins(j)
    BY <2>1 DEF ThreadBegins
  <2>2. CASE ScriptStarts(j)
    BY <2>2 DEF ScriptStarts
  <2>3. CASE ScriptEnds(j)
    BY <2>3 DEF ScriptEnds
  <2>4. CASE ThreadFails(j)
    BY <2>4 DEF ThreadFails
  <2>5. CASE ScriptLeftEnds(j)
    BY <2>5 DEF ScriptLeftEnds
  <2> QED BY <2>1, <2>2, <2>3, <2>4, <2>5 DEF ProvisionStep
<1>3. ProvisionTyped'
  BY <1>1, <1>2 DEF ProvisionTyped
<1>4. Kept'
  BY <1>1, <1>2 DEF ProvisionInv, Kept
<1>5. Apart'
  BY <1>1, <1>2 DEF ProvisionInv, Apart, Active
<1>6. ScriptStates'
  BY <1>2 DEF ProvisionInv, ScriptStates
<1> QED BY <1>3, <1>4, <1>5, <1>6 DEF ProvisionInv

LEMMA LostKeeps == ASSUME ProvisionInv, ProvisioningLost PROVE ProvisionInv'
<1>1. /\ jobs' = <<>> /\ UNCHANGED <<target, scripts>>
      /\ state' = [j \in ProvisionJobs |-> IF state[j] = "unused" THEN "unused" ELSE "gone"]
  BY DEF ProvisioningLost
<1>2. ToSet(jobs)' = {}
  BY <1>1 DEF ToSet
<1>3. ProvisionTyped'
  BY <1>1 DEF ProvisionInv, ProvisionTyped, States
<1>4. ScriptStates'
  BY <1>1 DEF ProvisionInv, ProvisionTyped, ScriptStates
<1> QED BY <1>2, <1>3, <1>4 DEF ProvisionInv, Kept, Apart

LEMMA ProvisionInitHolds == ProvisionInit => ProvisionInv
  BY DEF ProvisionInit, ProvisionInv, ProvisionTyped, States, Kept, Apart, ScriptStates, ToSet

LEMMA ProvisionKeeps ==
    ASSUME ProvisionInv, [ProvisionNext]_provisionVars
    PROVE  ProvisionInv'
<1>1. ASSUME UNCHANGED dictVars PROVE ProvisionInv'
  BY <1>1 DEF dictVars, ProvisionInv, ProvisionTyped, Kept, Apart, Active, ScriptStates,
     ToSet
<1>2. UNCHANGED dictVars \/ ProvisionInv'
  BY StartKeeps, StepKeeps, LostKeeps
     DEF ProvisionNext, RegistryChanges, EnterVm, ChangeVm, RemoveVm, provisionVars
<1> QED BY <1>1, <1>2

\* The scripts of two jobs asked for under one id never install on one machine
\* at the same time, unless the dictionary has lost one of the jobs or has called
\* it failed too early; the registry may change as it likes meanwhile.
THEOREM OneDeploy == ProvisionSpec => []OneDeployPerVm
<1>1. ProvisionInv => OneDeployPerVm
  BY DEF ProvisionInv, OneDeployPerVm, Kept, Apart, Active, ScriptStates
<1> QED BY <1>1, ProvisionInitHolds, ProvisionKeeps, PTL DEF ProvisionSpec

-----------------------------------------------------------------------------
(* The refinement.                                                         *)

Seen(j) ==
    CASE state[j] \in {"pending", "running"} -> "running"
      [] state[j] = "success" -> "completed"
      [] OTHER -> state[j]

StoreSeen == [k \in {"provision"} |-> jobs]
StatusSeen == [j \in ProvisionJobs |-> Seen(j)]

LEMMA StepsMap ==
    ASSUME ProvisionInv, [ProvisionNext]_provisionVars
    PROVE  [Abstract!StoreNext]_(Abstract!storeVars)
<1> DEFINE Same == UNCHANGED <<StoreSeen, StatusSeen>>
<1>1. state \in [ProvisionJobs -> States] /\ target \in [ProvisionJobs -> Vms \cup {"none"}]
  BY DEF ProvisionInv, ProvisionTyped
<1>2. ASSUME NEW j \in ProvisionJobs, NEW v \in Vms, StartProvision(j, v)
      PROVE  Abstract!Insert(j, "provision")
  <2>1. StatusSeen[j] = "unused" /\ StatusSeen' = [StatusSeen EXCEPT ![j] = "running"]
    BY <1>1, <1>2 DEF StartProvision, StatusSeen, Seen
  <2>2. StoreSeen' = [StoreSeen EXCEPT !["provision"] =
                         IF Len(@) < MaxProvisionJobs THEN Append(@, j) ELSE Tail(Append(@, j))]
    BY <1>2 DEF StartProvision, StoreSeen
  <2> QED BY <2>1, <2>2 DEF Abstract!Insert, StoreSeen, StatusSeen, Seen
<1>3. ASSUME NEW j \in ProvisionJobs, ThreadBegins(j) \/ ScriptStarts(j) \/ ScriptLeftEnds(j)
      PROVE  Same
  <2>1. UNCHANGED jobs /\ \A i \in ProvisionJobs : Seen(i)' = Seen(i)
    BY <1>1, <1>3 DEF ThreadBegins, ScriptStarts, ScriptLeftEnds, Seen
  <2> QED BY <2>1 DEF StoreSeen, StatusSeen
<1>4. ASSUME NEW j \in ProvisionJobs, ScriptEnds(j) \/ ThreadFails(j)
      PROVE  \E outcome \in {"completed", "error"} : Abstract!Finish(j, outcome)
  <2>1. PICK o \in {"success", "error"} : state' = [state EXCEPT ![j] = o]
    BY <1>4 DEF ScriptEnds, ThreadFails
  <2> DEFINE outcome == IF o = "success" THEN "completed" ELSE "error"
  <2>2. state[j] = "running" /\ UNCHANGED jobs
    BY <1>4 DEF ScriptEnds, ThreadFails
  <2>3. StatusSeen[j] = "running" /\ StatusSeen' = [StatusSeen EXCEPT ![j] = outcome]
    BY <1>1, <2>1, <2>2 DEF StatusSeen, Seen
  <2>4. outcome \in {"completed", "error"} /\ UNCHANGED StoreSeen
    BY <2>2 DEF StoreSeen
  <2> QED BY <2>3, <2>4 DEF Abstract!Finish, Abstract!Open, StoreSeen, StatusSeen, Seen
<1>5. ASSUME ProvisioningLost PROVE Abstract!Lose
  <2>1. StoreSeen' = [k \in {"provision"} |-> <<>>]
    BY <1>5 DEF ProvisioningLost, StoreSeen
  <2>2. StatusSeen' = [j \in ProvisionJobs |->
                          IF StatusSeen[j] = "unused" THEN "unused" ELSE "gone"]
    BY <1>1, <1>5 DEF ProvisioningLost, StatusSeen, Seen, States
  <2> QED BY <2>1, <2>2 DEF Abstract!Lose, StoreSeen, StatusSeen, Seen
<1>6. ASSUME UNCHANGED dictVars PROVE Same
  BY <1>6 DEF dictVars, StoreSeen, StatusSeen, Seen
<1>7. Same => UNCHANGED Abstract!storeVars
  BY DEF Abstract!storeVars, StoreSeen, StatusSeen, Seen
<1>8. ASSUME NEW j \in ProvisionJobs, ProvisionStep(j)
      PROVE  Same \/ \E outcome \in Abstract!Final : Abstract!Finish(j, outcome)
  BY <1>3, <1>4, <1>8 DEF ProvisionStep, Abstract!Final
<1>9. RegistryChanges \/ UNCHANGED provisionVars => UNCHANGED dictVars
  BY DEF RegistryChanges, EnterVm, ChangeVm, RemoveVm, provisionVars
<1> QED BY <1>2, <1>5, <1>6, <1>7, <1>8, <1>9 DEF ProvisionNext, Abstract!StoreNext

\* Whatever the threads and the script of a job do, its polls see what JobStore
\* promises.
THEOREM ProvisioningImplementsStore == ProvisionSpec => ProvisionStore
<1>1. ProvisionInit => Abstract!StoreInit
  BY DEF ProvisionInit, Abstract!StoreInit
<1> QED
  BY <1>1, ProvisionInitHolds, ProvisionKeeps, StepsMap, PTL
     DEF ProvisionSpec, ProvisionStore, Abstract!StoreSpec

-----------------------------------------------------------------------------
(* The jobs of a lab, as the central sees them.  The invariant says what   *)
(* the dictionaries, the threads and the truth about a job tell of each    *)
(* other (JobSound), that an answer under way and an event in the log      *)
(* match the truth (Matches), and that the newest equal ends are far apart. *)

Statuses == {"unused", "gone", "running", "cancelling", "completed", "cancelled", "error"}

Calls ==
    [Handlers -> [pc : {"idle", "started", "polled", "asked"}, user : Users \cup {"none"},
                  job : Jobs \cup {"none"}, seen : Outcomes \cup {"none"}]]

RuntimeTyped ==
    /\ agentStore \in [AgentKinds -> Seq(Jobs)]
    /\ centralStore \in [{"config_diff"} -> Seq(Jobs)]
    /\ agentStatus \in [Jobs -> Statuses] /\ centralStatus \in [Jobs -> Statuses]
    /\ kind \in [Jobs -> AllKinds \cup {"none"}] /\ good \in [Jobs -> BOOLEAN]
    /\ runner \in [Jobs -> {"none", "running", "halfway", "through"}]
    /\ truth \in [Jobs -> {"none", "good", "partly", "bad", "stopped"}]
    /\ log \in [Users -> [AllKinds -> Seq(Event)]]
    /\ call \in Calls

\* What is known of job j while its thread runs, after its first write, and
\* once its status is final.
JobSound(j) ==
    /\ kind[j] = "none" => truth[j] = "none"
    /\ kind[j] \notin AgentKinds => agentStatus[j] = "unused" /\ runner[j] # "halfway"
    /\ kind[j] # "config_diff" => centralStatus[j] = "unused"
    /\ good[j] => truth[j] = "good"
    /\ runner[j] = "running" =>
          /\ kind[j] # "none" /\ truth[j] = "none"
          /\ kind[j] \in AgentKinds => agentStatus[j] \in Agent!Open
          /\ kind[j] = "config_diff" => centralStatus[j] \in Agent!Open
    /\ runner[j] = "halfway" =>
          /\ truth[j] = "good"
          /\ IF kind[j] = "reconfigure" THEN agentStatus[j] \in Agent!Open
             ELSE agentStatus[j] = "completed"
    /\ agentStatus[j] = "cancelled" => truth[j] = "stopped"
    /\ agentStatus[j] = "error" => truth[j] = "bad"
    /\ agentStatus[j] = "completed" =>
          good[j] \/ truth[j] = "bad" \/ kind[j] = "set_default"
    /\ centralStatus[j] = "completed" => truth[j] \in {"good", "partly"}
    /\ centralStatus[j] = "error" => truth[j] = "bad"

\* The agent has a status of the jobs it still knows.
HeldHaveStatus == \A j \in Agent!Held : agentStatus[j] \notin {"unused", "gone"}

Matches(status, j) ==
    /\ status = "ok" => \/ truth[j] = "good"
                        \/ kind[j] = "config_diff" /\ truth[j] = "partly"
    /\ status = "error" => truth[j] = "bad" \/ kind[j] = "set_default"
    /\ status = "warning" => truth[j] = "stopped"

CallSound(h) ==
    /\ call[h].pc # "idle" =>
          call[h].user \in Users /\ call[h].job \in Jobs /\ kind[call[h].job] \in AgentKinds
    /\ call[h].pc = "polled" =>
          call[h].seen \in Outcomes /\ Matches(call[h].seen, call[h].job)

EndSound(u, k, e) ==
    e.stage = "completed" =>
        e.status \in Outcomes /\ e.job \in Jobs /\ kind[e.job] = k /\ Matches(e.status, e.job)

LogSound ==
    \A u \in Users, k \in AllKinds : \A i \in 1 .. Len(log[u][k]) : EndSound(u, k, log[u][k][i])

JobsSound == (\A j \in Jobs : JobSound(j)) /\ HeldHaveStatus
CallsSound == \A h \in Handlers : CallSound(h)

RuntimeInv == RuntimeTyped /\ JobsSound /\ CallsSound /\ LogSound /\ EndRecordedOnce

\* What no step undoes: a job's kind, and its end once it is known.
Lasting ==
    \A j \in Jobs : /\ truth[j] = "none" \/ truth'[j] = truth[j]
                    /\ kind[j] = "none" \/ kind'[j] = kind[j]

LEMMA SmallerOfTwo ==
    ASSUME NEW a \in Nat, NEW b \in Nat
    PROVE  Min({a, b}) = IF a <= b THEN a ELSE b
<1> DEFINE m == IF a <= b THEN a ELSE b
<1>1. m \in {a, b} /\ \A y \in {a, b} : m <= y
  OBVIOUS
<1>2. \A x \in {a, b} : (\A y \in {a, b} : x <= y) => x = m
  OBVIOUS
<1> QED BY <1>1, <1>2 DEF Min

LEMMA MatchesLasts ==
    ASSUME RuntimeTyped, Lasting, NEW j \in Jobs, NEW s \in Outcomes, Matches(s, j),
           kind[j] # "none"
    PROVE  Matches(s, j)' /\ kind'[j] = kind[j]
BY DEF Lasting, Matches, Outcomes

LEMMA EndSoundLasts ==
    ASSUME RuntimeTyped, Lasting, NEW u \in Users, NEW k \in AllKinds, NEW e,
           EndSound(u, k, e)
    PROVE  EndSound(u, k, e)'
<1> SUFFICES ASSUME e.stage = "completed"
             PROVE  e.status \in Outcomes /\ e.job \in Jobs /\ kind'[e.job] = k
                    /\ Matches(e.status, e.job)'
  BY DEF EndSound
<1>1. e.status \in Outcomes /\ e.job \in Jobs /\ kind[e.job] = k /\ Matches(e.status, e.job)
  BY DEF EndSound
<1>2. kind[e.job] # "none"
  BY <1>1 DEF AllKinds, AgentKinds
<1> QED BY <1>1, <1>2, MatchesLasts

\* A step that leaves the log alone.
LEMMA LogKept ==
    ASSUME RuntimeInv, Lasting, UNCHANGED log
    PROVE  LogSound' /\ EndRecordedOnce' /\ log' \in [Users -> [AllKinds -> Seq(Event)]]
<1>1. LogSound'
  BY EndSoundLasts DEF RuntimeInv, LogSound
<1> QED BY <1>1 DEF RuntimeInv, RuntimeTyped, EndRecordedOnce

\* A step that records an event; an end is one that matches the truth and is
\* not among the newest events.
LEMMA LogGrows ==
    ASSUME RuntimeInv, Lasting, NEW u \in Users, NEW k \in AllKinds,
           NEW s \in {"started", "ok", "error", "warning"},
           NEW stage \in {"start", "completed", "cancel_requested"},
           NEW j \in Jobs \cup {"none"},
           Record(u, k, s, stage, j),
           stage = "completed" =>
              /\ s \in Outcomes /\ j \in Jobs /\ kind[j] = k /\ Matches(s, j)
              /\ [status |-> s, stage |-> stage, job |-> j] \notin Newest(u, k)
    PROVE  LogSound' /\ EndRecordedOnce' /\ log' \in [Users -> [AllKinds -> Seq(Event)]]
<1> DEFINE e == [status |-> s, stage |-> stage, job |-> j]
           old == log[u][k]
<1>1. e \in Event /\ old \in Seq(Event) /\ Len(old) \in Nat
  <2>1. e \in Event
    BY DEF Event
  <2>2. old \in Seq(Event)
    BY DEF RuntimeInv, RuntimeTyped
  <2> QED BY <2>1, <2>2
<1> HIDE DEF e
<1>2. /\ <<e>> \o old \in Seq(Event) /\ Len(<<e>> \o old) = Len(old) + 1
      /\ (<<e>> \o old)[1] = e
      /\ \A i \in 2 .. Len(old) + 1 : (<<e>> \o old)[i] = old[i - 1]
  BY <1>1
<1> DEFINE new == <<e>> \o old
<1>3. log' = [log EXCEPT ![u] = [log[u] EXCEPT ![k] = new]]
  BY DEF Record, e
<1> HIDE DEF new
<1>4. log \in [Users -> [AllKinds -> Seq(Event)]]
  BY DEF RuntimeInv, RuntimeTyped
<1>5. /\ log' \in [Users -> [AllKinds -> Seq(Event)]]
      /\ log'[u][k] = new
      /\ \A v \in Users, q \in AllKinds : v # u \/ q # k => log'[v][q] = log[v][q]
  BY <1>2, <1>3, <1>4 DEF new
<1>6. EndSound(u, k, e)'
  <2>1. EndSound(u, k, e)
    BY DEF EndSound, e
  <2> QED BY <2>1, EndSoundLasts DEF RuntimeInv
<1>7. LogSound'
  <2> SUFFICES ASSUME NEW v \in Users, NEW q \in AllKinds, NEW i \in 1 .. Len(log'[v][q])
               PROVE  EndSound(v, q, log[v][q][i])'
    BY DEF LogSound
  <2>1. CASE v # u \/ q # k
    <3>1. i \in 1 .. Len(log[v][q]) /\ log'[v][q][i] = log[v][q][i]
      BY <2>1, <1>5
    <3>2. EndSound(v, q, log[v][q][i])
      BY <3>1 DEF RuntimeInv, LogSound
    <3> QED BY <3>1, <3>2, EndSoundLasts DEF RuntimeInv
  <2>2. CASE v = u /\ q = k /\ i = 1
    BY <2>2, <1>2, <1>5, <1>6 DEF new
  <2>3. CASE v = u /\ q = k /\ i # 1
    <3>1. i - 1 \in 1 .. Len(old) /\ log'[v][q][i] = old[i - 1]
      BY <2>3, <1>1, <1>2, <1>5 DEF new
    <3>2. EndSound(v, q, old[i - 1])
      BY <3>1, <2>3 DEF RuntimeInv, LogSound
    <3> QED BY <3>1, <3>2, EndSoundLasts DEF RuntimeInv
  <2> QED BY <2>1, <2>2, <2>3
<1>8. \A i \in 1 .. Len(old) : old[i] = e /\ stage = "completed" => i > AuditLimit
  <2> SUFFICES ASSUME NEW i \in 1 .. Len(old), old[i] = e, stage = "completed"
               PROVE  i > AuditLimit
    OBVIOUS
  <2>1. e \notin Newest(u, k)
    BY DEF e
  <2>2. i \notin 1 .. Min({AuditLimit, Len(old)})
    BY <2>1 DEF Newest
  <2>3. Min({AuditLimit, Len(old)}) = IF AuditLimit <= Len(old) THEN AuditLimit ELSE Len(old)
    BY <1>1, RuntimeAssumption, SmallerOfTwo
  <2> QED BY <2>2, <2>3, <1>1, RuntimeAssumption
<1>9. EndRecordedOnce'
  <2> SUFFICES ASSUME NEW v \in Users, NEW w \in AllKinds,
                      NEW p \in 1 .. Len(log'[v][w]), NEW q \in 1 .. Len(log'[v][w]),
                      p < q, log'[v][w][p] = log'[v][w][q],
                      log'[v][w][p].stage = "completed"
               PROVE  q - p > AuditLimit
    BY DEF EndRecordedOnce
  <2>0. EndRecordedOnce
    BY DEF RuntimeInv
  <2>1. CASE v # u \/ w # k
    BY <2>0, <2>1, <1>5 DEF EndRecordedOnce
  <2>2. CASE v = u /\ w = k
    <3>1. p \in 1 .. Len(old) + 1 /\ q \in 2 .. Len(old) + 1 /\ q - 1 \in 1 .. Len(old)
      BY <2>2, <1>1, <1>2, <1>5 DEF new
    <3>2. log'[v][w][q] = old[q - 1]
      BY <2>2, <3>1, <1>2, <1>5 DEF new
    <3>3. CASE p = 1
      <4>1. log'[v][w][p] = e
        BY <2>2, <3>3, <1>2, <1>5 DEF new
      <4>2. stage = "completed"
        BY <4>1 DEF e
      <4>3. q - 1 > AuditLimit
        BY <4>1, <4>2, <3>1, <3>2, <1>8
      <4> QED BY <4>3, <3>3, <3>1, RuntimeAssumption
    <3>4. CASE p # 1
      <4>1. p - 1 \in 1 .. Len(old) /\ log'[v][w][p] = old[p - 1]
        BY <2>2, <3>1, <3>4, <1>1, <1>2, <1>5 DEF new
      <4>2. p - 1 < q - 1
        BY <3>1
      <4>3. old[p - 1] = old[q - 1] /\ old[p - 1].stage = "completed"
        BY <4>1, <3>2, Zenon
      <4>4. (q - 1) - (p - 1) > AuditLimit
        BY <4>1, <4>2, <4>3, <3>1, <2>0 DEF EndRecordedOnce
      <4> QED BY <4>4, <3>1
    <3> QED BY <3>3, <3>4
  <2> QED BY <2>1, <2>2
<1> QED BY <1>5, <1>7, <1>9

\* A step of the handlers alone: the jobs stay as they are.
LEMMA JobsUntouched ==
    ASSUME RuntimeInv, UNCHANGED <<agentVars, centralVars, jobVars>>
    PROVE  Lasting /\ JobsSound'
BY DEF agentVars, centralVars, jobVars, Lasting, RuntimeInv, JobsSound, JobSound,
   HeldHaveStatus, Agent!Held

\* What a handler knows while it waits stays true.
LEMMA AwaitedLasts ==
    ASSUME RuntimeInv, Lasting, NEW h \in Handlers, CallSound(h), call'[h] = call[h]
    PROVE  CallSound(h)'
<1>1. RuntimeTyped
  BY DEF RuntimeInv
<1>2. CASE call[h].pc = "idle"
  BY <1>2 DEF CallSound
<1>3. CASE call[h].pc # "idle"
  <2> DEFINE j == call[h].job
  <2>1. j \in Jobs /\ kind[j] \in AgentKinds /\ call[h].user \in Users
    BY <1>3 DEF CallSound
  <2>2. kind'[j] = kind[j]
    BY <2>1 DEF Lasting, AgentKinds
  <2>3. call[h].pc = "polled" => call[h].seen \in Outcomes /\ Matches(call[h].seen, j)'
    BY <1>1, <2>1, MatchesLasts DEF CallSound, AgentKinds
  <2> QED BY <2>1, <2>2, <2>3 DEF CallSound
<1> QED BY <1>2, <1>3

\* Handlers go on waiting or are done.
LEMMA CallsKept ==
    ASSUME RuntimeInv, Lasting,
           \A h \in Handlers : call'[h] = call[h] \/ call'[h] = Idle
    PROVE  CallsSound'
BY AwaitedLasts DEF RuntimeInv, CallsSound, CallSound, Idle

\* What a handler that is awaiting something knows.
LEMMA Awaiting ==
    ASSUME RuntimeInv, NEW h \in Handlers, call[h].pc # "idle"
    PROVE  /\ call[h].user \in Users /\ call[h].job \in Jobs
           /\ kind[call[h].job] \in AgentKinds /\ kind[call[h].job] \in AllKinds
BY DEF RuntimeInv, CallsSound, CallSound, AllKinds

LEMMA CallEnds ==
    ASSUME RuntimeInv, NEW h \in Handlers, call' = [call EXCEPT ![h] = Idle]
    PROVE  /\ \A g \in Handlers : call'[g] = call[g] \/ call'[g] = Idle
           /\ call' \in Calls
BY DEF RuntimeInv, RuntimeTyped, Idle, Calls

LEMMA ResumesKeep ==
    ASSUME RuntimeInv, NEW h \in Handlers,
           ResumeStart(h) \/ ResumePoll(h) \/ ResumeCancel(h) \/ CallFails(h)
    PROVE  RuntimeInv'
<1>1. UNCHANGED <<agentVars, centralVars, jobVars>> /\ call' = [call EXCEPT ![h] = Idle]
  BY DEF ResumeStart, ResumePoll, ResumeCancel, CallFails
<1>2. Lasting /\ JobsSound' /\ CallsSound'
  BY <1>1, JobsUntouched, CallsKept, CallEnds
<1> DEFINE u == call[h].user
           j == call[h].job
<1>3. call[h].pc # "idle" => u \in Users /\ j \in Jobs /\ kind[j] \in AllKinds
  BY Awaiting
<1>4. LogSound' /\ EndRecordedOnce' /\ log' \in [Users -> [AllKinds -> Seq(Event)]]
  <2>1. CASE ResumeStart(h)
    BY <2>1, <1>2, <1>3, LogGrows DEF ResumeStart
  <2>2. CASE ResumeCancel(h)
    BY <2>2, <1>2, <1>3, LogGrows DEF ResumeCancel
  <2>3. CASE CallFails(h)
    BY <2>3, <1>2, <1>3, LogGrows, LogKept DEF CallFails
  <2>4. CASE ResumePoll(h)
    <3>1. call[h].pc = "polled" /\ RecordCompletion(u, kind[j], call[h].seen, j)
      BY <2>4 DEF ResumePoll
    <3>2. call[h].seen \in Outcomes /\ Matches(call[h].seen, j)
      BY <3>1 DEF RuntimeInv, CallsSound, CallSound
    <3>3. CASE UNCHANGED log
      BY <3>3, <1>2, LogKept
    <3>4. CASE ~UNCHANGED log
      <4>1. /\ Record(u, kind[j], call[h].seen, "completed", j)
            /\ [status |-> call[h].seen, stage |-> "completed", job |-> j]
                  \notin Newest(u, kind[j])
        BY <3>1, <3>4 DEF RecordCompletion
      <4>2. call[h].seen \in {"started", "ok", "error", "warning"}
        BY <3>2 DEF Outcomes
      <4> QED BY <4>1, <4>2, <3>1, <3>2, <1>2, <1>3, LogGrows
    <3> QED BY <3>3, <3>4
  <2> QED BY <2>1, <2>2, <2>3, <2>4
<1>5. RuntimeTyped'
  BY <1>1, <1>4, CallEnds DEF RuntimeInv, RuntimeTyped, agentVars, centralVars, jobVars
<1> QED BY <1>2, <1>4, <1>5 DEF RuntimeInv

LEMMA StartFailsKeeps ==
    ASSUME RuntimeInv, NEW u \in Users, NEW k \in AgentKinds, StartFails(u, k)
    PROVE  RuntimeInv'
<1>1. UNCHANGED <<agentVars, centralVars, jobVars, call>> /\ k \in AllKinds
  BY DEF StartFails, AllKinds
<1>2. Lasting /\ JobsSound' /\ CallsSound'
  BY <1>1, JobsUntouched, CallsKept
<1>3. LogSound' /\ EndRecordedOnce' /\ log' \in [Users -> [AllKinds -> Seq(Event)]]
  BY <1>1, <1>2, LogGrows DEF StartFails
<1>4. RuntimeTyped'
  BY <1>1, <1>3 DEF RuntimeInv, RuntimeTyped, agentVars, centralVars, jobVars
<1> QED BY <1>2, <1>3, <1>4 DEF RuntimeInv

LEMMA PollDiffKeeps ==
    ASSUME RuntimeInv, NEW u \in Users, NEW j \in Jobs, PollDiff(u, j)
    PROVE  RuntimeInv'
<1>1. UNCHANGED <<agentVars, centralVars, jobVars, call>>
  BY DEF PollDiff
<1>2. Lasting /\ JobsSound' /\ CallsSound'
  BY <1>1, JobsUntouched, CallsKept
<1> DEFINE s == IF centralStatus[j] = "completed" THEN "ok" ELSE "error"
<1>3. s \in Outcomes /\ s \in {"started", "ok", "error", "warning"}
  BY DEF Outcomes
<1>4. kind[j] = "config_diff" /\ "config_diff" \in AllKinds /\ Matches(s, j)
  <2>1. JobSound(j) /\ centralStatus[j] \in {"completed", "error"}
    BY DEF PollDiff, RuntimeInv, JobsSound
  <2> QED BY <2>1 DEF JobSound, Matches, AllKinds
<1>5. RecordCompletion(u, "config_diff", s, j)
  BY DEF PollDiff
<1> HIDE DEF s
<1>6. LogSound' /\ EndRecordedOnce' /\ log' \in [Users -> [AllKinds -> Seq(Event)]]
  <2>1. CASE UNCHANGED log
    BY <2>1, <1>2, LogKept
  <2>2. CASE ~UNCHANGED log
    <3>1. /\ Record(u, "config_diff", s, "completed", j)
          /\ [status |-> s, stage |-> "completed", job |-> j] \notin Newest(u, "config_diff")
      BY <2>2, <1>5 DEF RecordCompletion
    <3> QED BY <3>1, <1>2, <1>3, <1>4, LogGrows
  <2> QED BY <2>1, <2>2
<1>7. RuntimeTyped'
  BY <1>1, <1>6 DEF RuntimeInv, RuntimeTyped, agentVars, centralVars, jobVars
<1> QED BY <1>2, <1>6, <1>7 DEF RuntimeInv

\* All that is known of a job, its dictionaries included.
Same(j) ==
    /\ kind'[j] = kind[j] /\ good'[j] = good[j]
    /\ runner'[j] = runner[j] /\ truth'[j] = truth[j]
    /\ agentStatus'[j] = agentStatus[j] /\ centralStatus'[j] = centralStatus[j]

LEMMA OneJobChanges ==
    ASSUME RuntimeInv, NEW j \in Jobs, \A i \in Jobs \ {j} : Same(i), JobSound(j)',
           Agent!Held' \subseteq Agent!Held \cup {j},
           j \in Agent!Held' => agentStatus'[j] \notin {"unused", "gone"},
           truth[j] = "none" \/ truth'[j] = truth[j],
           kind[j] = "none" \/ kind'[j] = kind[j]
    PROVE  Lasting /\ JobsSound'
<1>1. Agent!Held \subseteq Jobs
  BY DEF RuntimeInv, RuntimeTyped, Agent!Held, Agent!ToSet
<1>2. \A i \in Jobs : JobSound(i)'
  BY DEF Same, RuntimeInv, JobsSound, JobSound
<1>3. HeldHaveStatus'
  BY <1>1 DEF Same, RuntimeInv, JobsSound, HeldHaveStatus
<1>4. Lasting
  BY DEF Same, Lasting
<1> QED BY <1>2, <1>3, <1>4 DEF JobsSound

\* A new id in a dictionary of the agent, or in the central's.
LEMMA AgentInserts ==
    ASSUME RuntimeInv, NEW j \in Jobs, NEW k \in AgentKinds, Agent!Insert(j, k)
    PROVE  /\ agentStatus[j] = "unused" /\ agentStatus' = [agentStatus EXCEPT ![j] = "running"]
           /\ agentStore' \in [AgentKinds -> Seq(Jobs)]
           /\ Agent!Held' \subseteq Agent!Held \cup {j}
<1>1. agentStore \in [AgentKinds -> Seq(Jobs)]
  BY DEF RuntimeInv, RuntimeTyped
<1>2. /\ Append(agentStore[k], j) \in Seq(Jobs) /\ Tail(Append(agentStore[k], j)) \in Seq(Jobs)
      /\ ToSet(Append(agentStore[k], j)) \subseteq ToSet(agentStore[k]) \cup {j}
      /\ ToSet(Tail(Append(agentStore[k], j))) \subseteq ToSet(agentStore[k]) \cup {j}
  BY <1>1, Entered
<1> DEFINE new == IF Len(agentStore[k]) < MaxJobs THEN Append(agentStore[k], j)
                  ELSE Tail(Append(agentStore[k], j))
<1>3. new \in Seq(Jobs) /\ ToSet(new) \subseteq ToSet(agentStore[k]) \cup {j}
  BY <1>2
<1>4. agentStore' = [agentStore EXCEPT ![k] = new]
  BY DEF Agent!Insert
<1> HIDE DEF new
<1>5. /\ agentStore' \in [AgentKinds -> Seq(Jobs)]
      /\ \A q \in AgentKinds : ToSet(agentStore'[q]) \subseteq ToSet(agentStore[q]) \cup {j}
  BY <1>1, <1>3, <1>4
<1>6. Agent!Held' \subseteq Agent!Held \cup {j}
  <2> SUFFICES ASSUME NEW i \in Agent!Held' PROVE i \in Agent!Held \cup {j}
    OBVIOUS
  <2>1. PICK q \in AgentKinds : i \in ToSet(agentStore'[q])
    BY DEF Agent!Held, Agent!ToSet, ToSet
  <2>2. i \in ToSet(agentStore[q]) \cup {j}
    BY <2>1, <1>5
  <2> QED BY <2>2 DEF Agent!Held, Agent!ToSet, ToSet
<1> QED BY <1>5, <1>6 DEF Agent!Insert

LEMMA CentralInserts ==
    ASSUME RuntimeInv, NEW j \in Jobs, Central!Insert(j, "config_diff")
    PROVE  /\ centralStatus[j] = "unused"
           /\ centralStatus' = [centralStatus EXCEPT ![j] = "running"]
           /\ centralStore' \in [{"config_diff"} -> Seq(Jobs)]
<1>1. centralStore \in [{"config_diff"} -> Seq(Jobs)]
  BY DEF RuntimeInv, RuntimeTyped
<1> DEFINE old == centralStore["config_diff"]
<1>2. Append(old, j) \in Seq(Jobs) /\ Tail(Append(old, j)) \in Seq(Jobs)
  BY <1>1, Entered
<1> QED BY <1>1, <1>2 DEF Central!Insert

LEMMA AgentStartKeeps ==
    ASSUME RuntimeInv, NEW h \in Handlers, NEW u \in Users, NEW k \in AgentKinds,
           NEW j \in Jobs, AgentStart(h, u, k, j)
    PROVE  RuntimeInv'
<1>1. /\ UNCHANGED <<centralStore, centralStatus, good, truth, log>>
      /\ kind[j] = "none" /\ kind' = [kind EXCEPT ![j] = k]
      /\ runner' = [runner EXCEPT ![j] = "running"]
      /\ call' = [call EXCEPT ![h] = [pc |-> "started", user |-> u, job |-> j, seen |-> "none"]]
      /\ Agent!Insert(j, k)
  BY DEF AgentStart, centralVars
<1>2. RuntimeTyped /\ JobSound(j) /\ k \in AllKinds /\ kind[j] \notin AgentKinds
  BY <1>1 DEF RuntimeInv, JobsSound, AllKinds, AgentKinds
<1>3. /\ kind'[j] = k /\ runner'[j] = "running" /\ agentStatus'[j] = "running"
      /\ truth'[j] = truth[j] /\ good'[j] = good[j] /\ centralStatus'[j] = centralStatus[j]
      /\ \A i \in Jobs \ {j} : Same(i)
  BY <1>1, <1>2, AgentInserts DEF Same, RuntimeTyped
<1>4. truth[j] = "none"
  BY <1>1, <1>2 DEF JobSound
<1>5. JobSound(j)'
  BY <1>1, <1>2, <1>3, <1>4 DEF JobSound, AgentKinds, Agent!Open
<1>6. Lasting /\ JobsSound'
  BY <1>1, <1>3, <1>5, AgentInserts, OneJobChanges
<1>7. LogSound' /\ EndRecordedOnce' /\ log' \in [Users -> [AllKinds -> Seq(Event)]]
  BY <1>1, <1>6, LogKept
<1>8. CallsSound'
  <2> SUFFICES ASSUME NEW g \in Handlers PROVE CallSound(g)'
    BY DEF CallsSound
  <2>1. CASE g = h
    BY <2>1, <1>1, <1>2, <1>3 DEF CallSound, RuntimeTyped, Calls
  <2>2. CASE g # h
    <3>1. call'[g] = call[g] /\ CallSound(g)
      BY <2>2, <1>1, <1>2 DEF RuntimeTyped, Calls, RuntimeInv, CallsSound
    <3> QED BY <3>1, <1>6, AwaitedLasts
  <2> QED BY <2>1, <2>2
<1>9. agentStatus' \in [Jobs -> Statuses] /\ agentStore' \in [AgentKinds -> Seq(Jobs)]
  <2>1. /\ agentStatus' = [agentStatus EXCEPT ![j] = "running"]
        /\ agentStore' \in [AgentKinds -> Seq(Jobs)]
    BY <1>1, AgentInserts
  <2> QED BY <2>1, <1>2 DEF RuntimeTyped, Statuses
<1>10. /\ kind' \in [Jobs -> AllKinds \cup {"none"}]
       /\ runner' \in [Jobs -> {"none", "running", "halfway", "through"}]
       /\ call' \in Calls
  BY <1>1, <1>2 DEF RuntimeTyped, Calls
<1>11. RuntimeTyped'
  BY <1>1, <1>2, <1>7, <1>9, <1>10 DEF RuntimeTyped
<1> QED BY <1>6, <1>7, <1>8, <1>11 DEF RuntimeInv

\* A poll answered by the agent carries what is true of the job.
LEMMA AgentAnswerPollKeeps ==
    ASSUME RuntimeInv, NEW h \in Handlers, NEW u \in Users, NEW j \in Jobs,
           AgentAnswerPoll(h, u, j)
    PROVE  RuntimeInv'
<1>1. /\ UNCHANGED <<agentVars, centralVars, jobVars, log>>
      /\ kind[j] \in AgentKinds /\ j \in Agent!Held /\ Reported(j) \in Outcomes
      /\ call' = [call EXCEPT ![h] = [pc |-> "polled", user |-> u, job |-> j,
                                      seen |-> Reported(j)]]
  BY DEF AgentAnswerPoll
<1>2. Lasting /\ JobsSound'
  BY <1>1, JobsUntouched
<1>3. LogSound' /\ EndRecordedOnce' /\ log' \in [Users -> [AllKinds -> Seq(Event)]]
  BY <1>1, <1>2, LogKept
<1>4. RuntimeTyped
  BY DEF RuntimeInv
<1>5. Matches(Reported(j), j)
  <2>1. JobSound(j) /\ agentStatus[j] \in Statuses \ {"unused", "gone"}
    BY <1>1, <1>4 DEF RuntimeInv, JobsSound, HeldHaveStatus, RuntimeTyped
  <2>2. CASE agentStatus[j] = "cancelled"
    BY <2>1, <2>2 DEF Reported, Matches, JobSound
  <2>3. CASE agentStatus[j] = "completed"
    BY <2>1, <2>3 DEF Reported, Matches, JobSound, Agent!Open
  <2>4. CASE agentStatus[j] = "error"
    BY <2>1, <2>4 DEF Reported, Matches, JobSound, Agent!Open
  <2>5. CASE agentStatus[j] \in Agent!Open
    BY <2>5, <1>1 DEF Reported, Agent!Open, Outcomes
  <2> QED BY <2>1, <2>2, <2>3, <2>4, <2>5 DEF Statuses, Agent!Open
<1>6. CallsSound'
  <2>0. PICK s \in Outcomes : s = Reported(j)
    BY <1>1
  <2> SUFFICES ASSUME NEW g \in Handlers PROVE CallSound(g)'
    BY DEF CallsSound
  <2>1. CASE g = h
    <3>1. call'[g] = [pc |-> "polled", user |-> u, job |-> j, seen |-> s]
      BY <2>0, <2>1, <1>1, <1>4 DEF RuntimeTyped, Calls
    <3>2. kind'[j] = kind[j] /\ Matches(s, j)'
      BY <2>0, <1>1, <1>2, <1>4, <1>5, MatchesLasts DEF AgentKinds
    <3> QED BY <3>1, <3>2, <1>1 DEF CallSound
  <2>2. CASE g # h
    <3>1. call'[g] = call[g] /\ CallSound(g)
      BY <2>2, <1>1, <1>4 DEF RuntimeTyped, Calls, RuntimeInv, CallsSound
    <3> QED BY <3>1, <1>2, AwaitedLasts
  <2> QED BY <2>1, <2>2
<1>7. RuntimeTyped'
  BY <1>1, <1>3, <1>4 DEF RuntimeTyped, Calls, agentVars, centralVars, jobVars
<1> QED BY <1>2, <1>3, <1>6, <1>7 DEF RuntimeInv

LEMMA AgentCancelKeeps ==
    ASSUME RuntimeInv, NEW h \in Handlers, NEW u \in Users, NEW j \in Jobs,
           AgentCancel(h, u, j)
    PROVE  RuntimeInv'
<1>1. /\ UNCHANGED <<agentStore, centralStore, centralStatus, kind, good, runner, truth, log>>
      /\ kind[j] \in AgentKinds /\ runner[j] # "halfway"
      /\ call' = [call EXCEPT ![h] = [pc |-> "asked", user |-> u, job |-> j, seen |-> "none"]]
      /\ \/ UNCHANGED agentStatus
         \/ /\ agentStatus[j] \in Agent!Open
            /\ agentStatus' = [agentStatus EXCEPT ![j] = "cancelling"]
  BY DEF AgentCancel, Agent!AskCancel, agentVars, centralVars, jobVars
<1>2. RuntimeTyped /\ JobSound(j)
  BY DEF RuntimeInv, JobsSound
<1>3. Lasting /\ JobsSound'
  <2>1. CASE UNCHANGED agentStatus
    BY <2>1, <1>1, JobsUntouched DEF agentVars, centralVars, jobVars
  <2>2. CASE /\ agentStatus[j] \in Agent!Open
             /\ agentStatus' = [agentStatus EXCEPT ![j] = "cancelling"]
    <3>1. \A i \in Jobs \ {j} : Same(i)
      BY <2>2, <1>1, <1>2 DEF Same, RuntimeTyped
    <3>2. agentStatus'[j] = "cancelling"
      BY <2>2, <1>2 DEF RuntimeTyped
    <3>3. JobSound(j)'
      BY <3>2, <2>2, <1>1, <1>2 DEF JobSound, Agent!Open
    <3>4. Agent!Held' = Agent!Held
      BY <1>1 DEF Agent!Held
    <3> QED BY <3>1, <3>2, <3>3, <3>4, <1>1, OneJobChanges
  <2> QED BY <2>1, <2>2, <1>1
<1>4. LogSound' /\ EndRecordedOnce' /\ log' \in [Users -> [AllKinds -> Seq(Event)]]
  BY <1>1, <1>3, LogKept
<1>5. CallsSound'
  <2> SUFFICES ASSUME NEW g \in Handlers PROVE CallSound(g)'
    BY DEF CallsSound
  <2>1. CASE g = h
    BY <2>1, <1>1, <1>2 DEF CallSound, RuntimeTyped, Calls
  <2>2. CASE g # h
    <3>1. call'[g] = call[g] /\ CallSound(g)
      BY <2>2, <1>1, <1>2 DEF RuntimeTyped, Calls, RuntimeInv, CallsSound
    <3> QED BY <3>1, <1>3, AwaitedLasts
  <2> QED BY <2>1, <2>2
<1>6. agentStatus' \in [Jobs -> Statuses]
  BY <1>1, <1>2 DEF RuntimeTyped, Statuses
<1>7. call' \in Calls
  BY <1>1, <1>2 DEF RuntimeTyped, Calls
<1>8. RuntimeTyped'
  BY <1>1, <1>2, <1>4, <1>6, <1>7 DEF RuntimeTyped
<1> QED BY <1>3, <1>4, <1>5, <1>8 DEF RuntimeInv

\* Neither an id nor a status of the central's dictionary changes.
LEMMA AgentFinishes ==
    ASSUME RuntimeInv, NEW j \in Jobs, NEW outcome \in Agent!Final, Agent!Finish(j, outcome)
    PROVE  /\ UNCHANGED agentStore /\ Agent!Held' = Agent!Held
           /\ agentStatus[j] \in Agent!Open
           /\ agentStatus' = [agentStatus EXCEPT ![j] = outcome]
           /\ agentStatus' \in [Jobs -> Statuses]
           /\ outcome \notin {"unused", "gone"}
BY DEF Agent!Finish, Agent!Held, Agent!Final, RuntimeInv, RuntimeTyped, Statuses

\* A step of the threads: no handler is involved and nothing is recorded.
LEMMA ThreadStepKeeps ==
    ASSUME RuntimeInv, Lasting, JobsSound', UNCHANGED <<agentStore, centralStore, kind, log, call>>,
           agentStatus' \in [Jobs -> Statuses], centralStatus' \in [Jobs -> Statuses],
           good' \in [Jobs -> BOOLEAN],
           runner' \in [Jobs -> {"none", "running", "halfway", "through"}],
           truth' \in [Jobs -> {"none", "good", "partly", "bad", "stopped"}]
    PROVE  RuntimeInv'
<1>1. LogSound' /\ EndRecordedOnce' /\ CallsSound'
  BY LogKept, CallsKept
<1>2. RuntimeTyped'
  BY DEF RuntimeInv, RuntimeTyped
<1> QED BY <1>1, <1>2 DEF RuntimeInv

LEMMA EndsWellKeeps ==
    ASSUME RuntimeInv, NEW j \in Jobs, EndsWell(j)
    PROVE  RuntimeInv'
<1>1. /\ UNCHANGED <<centralStore, centralStatus, kind, log, call>>
      /\ kind[j] \in AgentKinds /\ runner[j] = "running"
      /\ truth' = [truth EXCEPT ![j] = "good"] /\ runner' = [runner EXCEPT ![j] = "halfway"]
  BY DEF EndsWell, centralVars
<1>2. RuntimeTyped /\ JobSound(j)
  BY DEF RuntimeInv, JobsSound
<1>3. /\ truth'[j] = "good" /\ runner'[j] = "halfway"
      /\ \A i \in Jobs \ {j} : truth'[i] = truth[i] /\ runner'[i] = runner[i]
      /\ truth' \in [Jobs -> {"none", "good", "partly", "bad", "stopped"}]
      /\ runner' \in [Jobs -> {"none", "running", "halfway", "through"}]
  BY <1>1, <1>2 DEF RuntimeTyped
<1>4. truth[j] = "none"
  BY <1>1, <1>2 DEF JobSound
<1>5. CASE kind[j] = "reconfigure"
  <2>1. good' = [good EXCEPT ![j] = TRUE] /\ UNCHANGED <<agentStore, agentStatus>>
    BY <1>5 DEF EndsWell, agentVars
  <2>2. JobSound(j)'
    BY <2>1, <1>1, <1>2, <1>3, <1>5 DEF JobSound, AgentKinds, Agent!Open
  <2>3. \A i \in Jobs \ {j} : Same(i)
    BY <2>1, <1>1, <1>2, <1>3 DEF Same, RuntimeTyped
  <2>4. Agent!Held' = Agent!Held /\ (j \in Agent!Held => agentStatus[j] \notin {"unused", "gone"})
    BY <2>1 DEF Agent!Held, RuntimeInv, JobsSound, HeldHaveStatus
  <2>5. Lasting /\ JobsSound'
    BY <2>1, <2>2, <2>3, <2>4, <1>1, <1>4, OneJobChanges
  <2>6. good' \in [Jobs -> BOOLEAN]
    BY <2>1, <1>2 DEF RuntimeTyped
  <2>7. agentStatus' \in [Jobs -> Statuses] /\ centralStatus' \in [Jobs -> Statuses]
    BY <2>1, <1>1, <1>2 DEF RuntimeTyped
  <2> QED BY <2>1, <2>5, <2>6, <2>7, <1>1, <1>3, ThreadStepKeeps
<1>6. CASE kind[j] = "set_default"
  <2>1. Agent!Finish(j, "completed") /\ UNCHANGED good /\ "completed" \in Agent!Final
    BY <1>6 DEF EndsWell, Agent!Final
  <2>2. /\ agentStatus'[j] = "completed" /\ agentStatus[j] \in Agent!Open
        /\ \A i \in Jobs \ {j} : agentStatus'[i] = agentStatus[i]
        /\ agentStatus' \in [Jobs -> Statuses]
        /\ UNCHANGED agentStore /\ Agent!Held' = Agent!Held
    BY <2>1, <1>2, AgentFinishes DEF RuntimeTyped
  <2>3. JobSound(j)'
    BY <2>1, <2>2, <1>1, <1>2, <1>3, <1>6 DEF JobSound, AgentKinds, Agent!Open
  <2>4. \A i \in Jobs \ {j} : Same(i)
    BY <2>1, <2>2, <1>1, <1>3 DEF Same
  <2>5. Lasting /\ JobsSound'
    BY <2>2, <2>3, <2>4, <1>1, <1>4, OneJobChanges
  <2>6. good' \in [Jobs -> BOOLEAN] /\ centralStatus' \in [Jobs -> Statuses]
    BY <2>1, <1>1, <1>2 DEF RuntimeTyped
  <2> QED BY <2>2, <2>5, <2>6, <1>1, <1>3, ThreadStepKeeps
<1> QED BY <1>1, <1>5, <1>6 DEF AgentKinds

LEMMA SecondWriteKeeps ==
    ASSUME RuntimeInv, NEW j \in Jobs, SecondWrite(j)
    PROVE  RuntimeInv'
<1>1. /\ UNCHANGED <<centralStore, centralStatus, kind, truth, log, call>>
      /\ runner[j] = "halfway"
      /\ runner' = [runner EXCEPT ![j] = "through"] /\ good' = [good EXCEPT ![j] = TRUE]
  BY DEF SecondWrite, centralVars
<1>2. RuntimeTyped /\ JobSound(j)
  BY DEF RuntimeInv, JobsSound
<1>3. /\ good'[j] = TRUE /\ runner'[j] = "through"
      /\ \A i \in Jobs \ {j} : good'[i] = good[i] /\ runner'[i] = runner[i]
      /\ good' \in [Jobs -> BOOLEAN]
      /\ runner' \in [Jobs -> {"none", "running", "halfway", "through"}]
  BY <1>1, <1>2 DEF RuntimeTyped
<1>4. /\ agentStatus'[j] = "completed"
      /\ \A i \in Jobs \ {j} : agentStatus'[i] = agentStatus[i]
      /\ agentStatus' \in [Jobs -> Statuses]
      /\ UNCHANGED agentStore /\ Agent!Held' = Agent!Held
  <2>1. CASE agentStatus[j] \in Agent!Open
    <3>1. Agent!Finish(j, "completed") /\ "completed" \in Agent!Final
      BY <2>1 DEF SecondWrite, Agent!Final
    <3> QED BY <3>1, <1>2, AgentFinishes DEF RuntimeTyped
  <2>2. CASE agentStatus[j] \notin Agent!Open
    <3>1. UNCHANGED <<agentStore, agentStatus>>
      BY <2>2 DEF SecondWrite, agentVars
    <3>2. agentStatus[j] = "completed"
      BY <2>2, <1>1, <1>2 DEF JobSound
    <3> QED BY <3>1, <3>2, <1>2 DEF RuntimeTyped, Agent!Held
  <2> QED BY <2>1, <2>2
<1>5. JobSound(j)'
  BY <1>1, <1>2, <1>3, <1>4 DEF JobSound
<1>6. \A i \in Jobs \ {j} : Same(i)
  BY <1>1, <1>3, <1>4 DEF Same
<1>7. Lasting /\ JobsSound'
  BY <1>1, <1>4, <1>5, <1>6, OneJobChanges
<1>8. centralStatus' \in [Jobs -> Statuses] /\ truth' \in [Jobs -> {"none", "good", "partly", "bad", "stopped"}]
  BY <1>1, <1>2 DEF RuntimeTyped
<1> QED BY <1>1, <1>3, <1>4, <1>7, <1>8, ThreadStepKeeps

LEMMA EndsOtherwiseKeeps ==
    ASSUME RuntimeInv, NEW j \in Jobs, EndsOtherwise(j)
    PROVE  RuntimeInv'
<1>1. /\ UNCHANGED <<centralStore, centralStatus, kind, good, log, call>>
      /\ kind[j] \in AgentKinds /\ runner[j] = "running"
      /\ runner' = [runner EXCEPT ![j] = "through"]
  BY DEF EndsOtherwise, centralVars
<1>2. PICK outcome \in Agent!Final :
         /\ Agent!Finish(j, outcome)
         /\ truth' = [truth EXCEPT ![j] = IF outcome = "cancelled" THEN "stopped" ELSE "bad"]
  BY DEF EndsOtherwise
<1>3. RuntimeTyped /\ JobSound(j)
  BY DEF RuntimeInv, JobsSound
<1> DEFINE t == IF outcome = "cancelled" THEN "stopped" ELSE "bad"
<1>4. /\ truth'[j] = t /\ runner'[j] = "through"
      /\ \A i \in Jobs \ {j} : truth'[i] = truth[i] /\ runner'[i] = runner[i]
      /\ truth' \in [Jobs -> {"none", "good", "partly", "bad", "stopped"}]
      /\ runner' \in [Jobs -> {"none", "running", "halfway", "through"}]
  BY <1>1, <1>2, <1>3 DEF RuntimeTyped
<1>5. /\ agentStatus'[j] = outcome
      /\ \A i \in Jobs \ {j} : agentStatus'[i] = agentStatus[i]
      /\ agentStatus' \in [Jobs -> Statuses]
      /\ UNCHANGED agentStore /\ Agent!Held' = Agent!Held
      /\ outcome \notin {"unused", "gone"}
  BY <1>2, <1>3, AgentFinishes DEF RuntimeTyped
<1>6. truth[j] = "none"
  BY <1>1, <1>3 DEF JobSound
<1>7. JobSound(j)'
  BY <1>1, <1>2, <1>3, <1>4, <1>5, <1>6 DEF JobSound, AgentKinds, Agent!Final
<1>8. \A i \in Jobs \ {j} : Same(i)
  BY <1>1, <1>4, <1>5 DEF Same
<1>9. Lasting /\ JobsSound'
  BY <1>1, <1>5, <1>6, <1>7, <1>8, OneJobChanges
<1>10. centralStatus' \in [Jobs -> Statuses] /\ good' \in [Jobs -> BOOLEAN]
  BY <1>1, <1>3 DEF RuntimeTyped
<1> QED BY <1>1, <1>4, <1>5, <1>9, <1>10, ThreadStepKeeps

LEMMA EndDiffKeeps ==
    ASSUME RuntimeInv, NEW j \in Jobs, EndDiff(j)
    PROVE  RuntimeInv'
<1>1. /\ UNCHANGED <<agentStore, agentStatus, centralStore, kind, good, log, call>>
      /\ kind[j] = "config_diff" /\ runner[j] = "running"
      /\ runner' = [runner EXCEPT ![j] = "through"]
  BY DEF EndDiff, agentVars, Central!Finish
<1>2. PICK done \in {"good", "partly", "bad"} :
         /\ centralStatus' =
              [centralStatus EXCEPT ![j] = IF done = "bad" THEN "error" ELSE "completed"]
         /\ truth' = [truth EXCEPT ![j] = done]
  BY DEF EndDiff, Central!Finish
<1>3. RuntimeTyped /\ JobSound(j)
  BY DEF RuntimeInv, JobsSound
<1>4. /\ runner'[j] = "through"
      /\ truth'[j] = done
      /\ centralStatus'[j] = (IF done = "bad" THEN "error" ELSE "completed")
      /\ \A i \in Jobs \ {j} : /\ truth'[i] = truth[i] /\ runner'[i] = runner[i]
                               /\ centralStatus'[i] = centralStatus[i]
      /\ truth' \in [Jobs -> {"none", "good", "partly", "bad", "stopped"}]
      /\ runner' \in [Jobs -> {"none", "running", "halfway", "through"}]
      /\ centralStatus' \in [Jobs -> Statuses]
  BY <1>1, <1>2, <1>3 DEF RuntimeTyped, Statuses
<1>5. truth[j] = "none" /\ ~good[j] /\ agentStatus[j] = "unused"
  BY <1>1, <1>3 DEF JobSound, AgentKinds
<1>6. JobSound(j)'
  BY <1>1, <1>4, <1>5 DEF JobSound, AgentKinds
<1>7. \A i \in Jobs \ {j} : Same(i)
  BY <1>1, <1>4 DEF Same
<1>8. Agent!Held' = Agent!Held /\ (j \in Agent!Held => agentStatus[j] \notin {"unused", "gone"})
  BY <1>1 DEF Agent!Held, RuntimeInv, JobsSound, HeldHaveStatus
<1>9. Lasting /\ JobsSound'
  BY <1>1, <1>5, <1>6, <1>7, <1>8, OneJobChanges
<1>10. agentStatus' \in [Jobs -> Statuses] /\ good' \in [Jobs -> BOOLEAN]
  BY <1>1, <1>3 DEF RuntimeTyped
<1> QED BY <1>1, <1>4, <1>9, <1>10, ThreadStepKeeps

LEMMA StartDiffKeeps ==
    ASSUME RuntimeInv, NEW u \in Users, NEW j \in Jobs, StartDiff(u, j)
    PROVE  RuntimeInv'
<1>1. /\ UNCHANGED <<agentStore, agentStatus, good, truth, call>>
      /\ kind[j] = "none" /\ kind' = [kind EXCEPT ![j] = "config_diff"]
      /\ runner' = [runner EXCEPT ![j] = "running"]
      /\ Record(u, "config_diff", "started", "start", j)
      /\ Central!Insert(j, "config_diff")
  BY DEF StartDiff, agentVars
<1>2. RuntimeTyped /\ JobSound(j) /\ "config_diff" \in AllKinds
  BY DEF RuntimeInv, JobsSound, AllKinds
<1>3. /\ kind'[j] = "config_diff" /\ runner'[j] = "running" /\ centralStatus'[j] = "running"
      /\ \A i \in Jobs \ {j} : Same(i)
  BY <1>1, <1>2, CentralInserts DEF Same, RuntimeTyped
<1>4. truth[j] = "none" /\ agentStatus[j] = "unused"
  BY <1>1, <1>2 DEF JobSound, AgentKinds
<1>5. JobSound(j)'
  BY <1>1, <1>2, <1>3, <1>4 DEF JobSound, AgentKinds, Agent!Open
<1>6. Agent!Held' = Agent!Held /\ (j \in Agent!Held => agentStatus[j] \notin {"unused", "gone"})
  BY <1>1 DEF Agent!Held, RuntimeInv, JobsSound, HeldHaveStatus
<1>7. Lasting /\ JobsSound'
  BY <1>1, <1>3, <1>5, <1>6, OneJobChanges
<1>8. LogSound' /\ EndRecordedOnce' /\ log' \in [Users -> [AllKinds -> Seq(Event)]]
  BY <1>1, <1>2, <1>7, LogGrows
<1>9. CallsSound'
  BY <1>1, <1>7, CallsKept
<1>10. /\ kind' \in [Jobs -> AllKinds \cup {"none"}]
       /\ runner' \in [Jobs -> {"none", "running", "halfway", "through"}]
       /\ centralStatus' \in [Jobs -> Statuses] /\ centralStore' \in [{"config_diff"} -> Seq(Jobs)]
  BY <1>1, <1>2, CentralInserts DEF RuntimeTyped, Statuses
<1>11. RuntimeTyped'
  BY <1>1, <1>2, <1>8, <1>10 DEF RuntimeTyped
<1> QED BY <1>7, <1>8, <1>9, <1>11 DEF RuntimeInv

LEMMA AgentRestartKeeps == ASSUME RuntimeInv, AgentRestart PROVE RuntimeInv'
<1>1. /\ UNCHANGED <<centralStore, centralStatus, kind, good, truth, log, call>>
      /\ agentStore' = [k \in AgentKinds |-> <<>>]
      /\ agentStatus' = [j \in Jobs |-> IF agentStatus[j] = "unused" THEN "unused" ELSE "gone"]
      /\ runner' = [j \in Jobs |-> IF kind[j] \in AgentKinds THEN "none" ELSE runner[j]]
  BY DEF AgentRestart, Agent!Lose, centralVars
<1>2. RuntimeTyped
  BY DEF RuntimeInv
<1>3. Lasting
  BY <1>1 DEF Lasting
<1>4. HeldHaveStatus'
  BY <1>1 DEF HeldHaveStatus, Agent!Held, Agent!ToSet
<1>5. ASSUME NEW j \in Jobs PROVE JobSound(j)'
  <2>1. JobSound(j)
    BY DEF RuntimeInv, JobsSound
  <2>2. /\ agentStatus'[j] \in {"unused", "gone"}
        /\ agentStatus[j] = "unused" => agentStatus'[j] = "unused"
        /\ runner'[j] = IF kind[j] \in AgentKinds THEN "none" ELSE runner[j]
    BY <1>1
  <2> QED BY <2>1, <2>2, <1>1 DEF JobSound
<1>6. LogSound' /\ EndRecordedOnce' /\ CallsSound'
  BY <1>1, <1>3, LogKept, CallsKept
<1>7. /\ agentStore' \in [AgentKinds -> Seq(Jobs)] /\ agentStatus' \in [Jobs -> Statuses]
      /\ runner' \in [Jobs -> {"none", "running", "halfway", "through"}]
  BY <1>1, <1>2 DEF RuntimeTyped, Statuses
<1>8. RuntimeTyped'
  BY <1>1, <1>2, <1>7 DEF RuntimeTyped
<1> QED BY <1>4, <1>5, <1>6, <1>8 DEF RuntimeInv, JobsSound

LEMMA CentralRestartKeeps == ASSUME RuntimeInv, CentralRestart PROVE RuntimeInv'
<1>1. /\ UNCHANGED <<agentStore, agentStatus, kind, good, truth, log>>
      /\ centralStore' = [k \in {"config_diff"} |-> <<>>]
      /\ centralStatus' = [j \in Jobs |->
                              IF centralStatus[j] = "unused" THEN "unused" ELSE "gone"]
      /\ runner' = [j \in Jobs |-> IF kind[j] = "config_diff" THEN "none" ELSE runner[j]]
      /\ call' = [h \in Handlers |-> Idle]
  BY DEF CentralRestart, Central!Lose, agentVars
<1>2. RuntimeTyped
  BY DEF RuntimeInv
<1>3. Lasting
  BY <1>1 DEF Lasting
<1>4. HeldHaveStatus'
  BY <1>1 DEF HeldHaveStatus, Agent!Held, RuntimeInv, JobsSound
<1>5. ASSUME NEW j \in Jobs PROVE JobSound(j)'
  <2>1. JobSound(j)
    BY DEF RuntimeInv, JobsSound
  <2>2. /\ centralStatus'[j] \in {"unused", "gone"}
        /\ centralStatus[j] = "unused" => centralStatus'[j] = "unused"
        /\ runner'[j] = IF kind[j] = "config_diff" THEN "none" ELSE runner[j]
    BY <1>1
  <2> QED BY <2>1, <2>2, <1>1 DEF JobSound, AgentKinds
<1>6. LogSound' /\ EndRecordedOnce' /\ CallsSound'
  BY <1>1, <1>3, LogKept, CallsKept
<1>7. /\ centralStore' \in [{"config_diff"} -> Seq(Jobs)] /\ centralStatus' \in [Jobs -> Statuses]
      /\ runner' \in [Jobs -> {"none", "running", "halfway", "through"}]
      /\ call' \in Calls
  BY <1>1, <1>2 DEF RuntimeTyped, Statuses, Calls, Idle
<1>8. RuntimeTyped'
  BY <1>1, <1>2, <1>7 DEF RuntimeTyped
<1> QED BY <1>4, <1>5, <1>6, <1>8 DEF RuntimeInv, JobsSound

LEMMA RuntimeInitHolds == RuntimeInit => RuntimeInv
<1> SUFFICES ASSUME RuntimeInit PROVE RuntimeInv
  OBVIOUS
<1>1. RuntimeTyped
  BY DEF RuntimeInit, Agent!StoreInit, Central!StoreInit, RuntimeTyped, Statuses, Calls, Idle
<1>2. JobsSound
  BY DEF RuntimeInit, Agent!StoreInit, Central!StoreInit, JobsSound, JobSound, HeldHaveStatus,
     Agent!Held, Agent!ToSet
<1>3. CallsSound
  BY DEF RuntimeInit, CallsSound, CallSound, Idle
<1>4. \A u \in Users, k \in AllKinds : log[u][k] = <<>>
  BY DEF RuntimeInit
<1>5. LogSound /\ EndRecordedOnce
  BY <1>4 DEF LogSound, EndRecordedOnce
<1> QED BY <1>1, <1>2, <1>3, <1>5 DEF RuntimeInv

LEMMA RuntimeStep == RuntimeInv /\ [RuntimeNext]_runtimeVars => RuntimeInv'
<1> SUFFICES ASSUME RuntimeInv, [RuntimeNext]_runtimeVars PROVE RuntimeInv'
  OBVIOUS
<1>1. CASE UNCHANGED runtimeVars
  <2>1. UNCHANGED <<agentVars, centralVars, jobVars, log, call>>
    BY <1>1 DEF runtimeVars, agentVars, centralVars, jobVars
  <2>2. Lasting /\ JobsSound'
    BY <2>1, JobsUntouched
  <2> QED BY <2>1, <2>2, ThreadStepKeeps
        DEF RuntimeInv, RuntimeTyped, agentVars, centralVars, jobVars
<1> QED
  BY <1>1, AgentStartKeeps, AgentAnswerPollKeeps, AgentCancelKeeps, ResumesKeep,
     StartFailsKeeps, EndsWellKeeps, SecondWriteKeeps, EndsOtherwiseKeeps, EndDiffKeeps,
     StartDiffKeeps, PollDiffKeeps, AgentRestartKeeps, CentralRestartKeeps
     DEF RuntimeNext

LEMMA RuntimeInvariant == RuntimeSpec => []RuntimeInv
BY RuntimeInitHolds, RuntimeStep, PTL DEF RuntimeSpec

\* What the audit log says of a job's end is what happened, whatever polls read
\* without the lock and whenever their answers are used.
THEOREM AuditTellsTheTruth == RuntimeSpec => []OutcomesAreTrue
<1>1. RuntimeInv => OutcomesAreTrue
  BY DEF RuntimeInv, LogSound, EndSound, Matches, OutcomesAreTrue
<1> QED BY <1>1, RuntimeInvariant, PTL

\* The same end is recorded again only beyond the reach of the look-up.
THEOREM AuditEndsOnce == RuntimeSpec => []EndRecordedOnce
<1>1. RuntimeInv => EndRecordedOnce
  BY DEF RuntimeInv
<1> QED BY <1>1, RuntimeInvariant, PTL

-----------------------------------------------------------------------------
(* The dictionaries of the composition.                                    *)

LEMMA StepsOfTheStores ==
    ASSUME [RuntimeNext]_runtimeVars
    PROVE  /\ [Agent!StoreNext]_(Agent!storeVars)
           /\ [Central!StoreNext]_(Central!storeVars)
<1> DEFINE AgentIdles == UNCHANGED <<agentStore, agentStatus>>
           CentralIdles == UNCHANGED <<centralStore, centralStatus>>
<1> USE DEF agentVars, centralVars, jobVars
<1>1. ASSUME NEW h \in Handlers, NEW u \in Users, NEW k \in AgentKinds, NEW j \in Jobs,
             AgentStart(h, u, k, j)
      PROVE  Agent!StoreNext /\ CentralIdles
  BY <1>1 DEF AgentStart, Agent!StoreNext
<1>2. ASSUME NEW h \in Handlers, NEW u \in Users, NEW j \in Jobs,
             AgentAnswerPoll(h, u, j) \/ AgentCancel(h, u, j)
      PROVE  (Agent!StoreNext \/ AgentIdles) /\ CentralIdles
  BY <1>2 DEF AgentAnswerPoll, AgentCancel, Agent!StoreNext
<1>3. ASSUME NEW h \in Handlers,
             ResumeStart(h) \/ ResumePoll(h) \/ ResumeCancel(h) \/ CallFails(h)
      PROVE  AgentIdles /\ CentralIdles
  BY <1>3 DEF ResumeStart, ResumePoll, ResumeCancel, CallFails
<1>4. ASSUME NEW u \in Users, NEW k \in AgentKinds, StartFails(u, k)
      PROVE  AgentIdles /\ CentralIdles
  BY <1>4 DEF StartFails
<1>5. ASSUME NEW j \in Jobs, EndsWell(j) \/ SecondWrite(j) \/ EndsOtherwise(j)
      PROVE  (Agent!StoreNext \/ AgentIdles) /\ CentralIdles
  <2>1. CentralIdles
    BY <1>5 DEF EndsWell, SecondWrite, EndsOtherwise
  <2>2. AgentIdles \/ \E outcome \in Agent!Final : Agent!Finish(j, outcome)
    BY <1>5 DEF EndsWell, SecondWrite, EndsOtherwise, Agent!Final
  <2> QED BY <2>1, <2>2 DEF Agent!StoreNext
<1>6. ASSUME NEW j \in Jobs, EndDiff(j)
      PROVE  AgentIdles /\ Central!StoreNext
  <2>1. \E outcome \in Central!Final : Central!Finish(j, outcome)
    BY <1>6 DEF EndDiff, Central!Final
  <2> QED BY <2>1, <1>6 DEF EndDiff, Central!StoreNext
<1>7. ASSUME NEW u \in Users, NEW j \in Jobs, StartDiff(u, j)
      PROVE  AgentIdles /\ Central!StoreNext
  BY <1>7 DEF StartDiff, Central!StoreNext
<1>8. ASSUME NEW u \in Users, NEW j \in Jobs, PollDiff(u, j)
      PROVE  AgentIdles /\ CentralIdles
  BY <1>8 DEF PollDiff
<1>9. AgentRestart => Agent!StoreNext /\ CentralIdles
  BY DEF AgentRestart, Agent!StoreNext
<1>10. CentralRestart => AgentIdles /\ Central!StoreNext
  BY DEF CentralRestart, Central!StoreNext
<1>11. UNCHANGED runtimeVars => AgentIdles /\ CentralIdles
  BY DEF runtimeVars
<1>12. (Agent!StoreNext \/ AgentIdles) /\ (Central!StoreNext \/ CentralIdles)
  BY <1>1, <1>2, <1>3, <1>4, <1>5, <1>6, <1>7, <1>8, <1>9, <1>10, <1>11 DEF RuntimeNext
<1> QED BY <1>12 DEF Agent!storeVars, Central!storeVars

\* The handlers and threads use both dictionaries as JobStore says, so that
\* what is known of a JobStore holds of the composition.
THEOREM RuntimeUsesStores == RuntimeSpec => Agent!StoreSpec /\ Central!StoreSpec
<1>1. RuntimeInit => Agent!StoreInit /\ Central!StoreInit
  BY DEF RuntimeInit
<1> QED BY <1>1, StepsOfTheStores, PTL DEF RuntimeSpec, Agent!StoreSpec, Central!StoreSpec
=============================================================================
