------------------------------ MODULE AtomicLab ------------------------------
(***************************************************************************)
(* What the sandbox operations of one lab promise to those who call them:  *)
(* an apply or a reset, which takes a vm-agent minutes and many steps,     *)
(* changes the lab's topology at once, at its answer, or not at all.       *)
(* What else can be met before that answer is said by Leftovers.  Of the   *)
(* containers only the answers "ok" and "restored" tell: an operation that *)
(* failed ("rollback incomplet") may leave some of its edit running.       *)
(* SandboxAgent implements this module.                                    *)
(***************************************************************************)
CONSTANTS Threads, Edits, AdminTopologies, Initial, NoFile, Torn, Down

VARIABLES
    topology, \* what the next operation will find in the lab's file
    running,  \* the topology that its containers come from
    client    \* client[t]: the operation thread t is asked for, or its answer

labVars == <<topology, running, client>>

Done(answer) == [op |-> "none", text |-> NoFile, answer |-> answer]

Open(t) == client[t].op # "none"

\* What the lab's file may hold at any moment: between the operations its
\* topology, during one also what it writes or the admin saves meanwhile.
Leftovers ==
    IF \E t \in Threads : Open(t)
    THEN {topology, Torn} \cup AdminTopologies
            \cup {client[t].text : t \in {u \in Threads : client[u].op = "apply"}}
    ELSE {topology}

\* What may run after a deployment that goes wrong, a start or a stop: some of
\* what ran before or of what the file may hold.
Up(r) == r \in {running, Down} \cup (Leftovers \ {Torn})

LabInit ==
    /\ topology = Initial /\ running \in {Initial, Down}
    /\ client = [t \in Threads |-> Done("none")]

Ask(t, op, text) ==
    /\ ~Open(t)
    /\ op = "reset" => text = NoFile
    /\ client' = [client EXCEPT ![t] = [op |-> op, text |-> text, answer |-> "none"]]
    /\ UNCHANGED <<topology, running>>

Answer(t, answer) == Open(t) /\ client' = [client EXCEPT ![t] = Done(answer)]

\* What was asked for is in place and runs, unless the admin has saved another
\* topology meanwhile, which then is and does.
Succeed(t) ==
    /\ Answer(t, "ok")
    /\ \/ topology' \in AdminTopologies
       \/ client[t].op = "apply" /\ topology' = client[t].text
    /\ running' = topology'

\* The edit is the topology already.
Skip(t) ==
    /\ Answer(t, "unchanged")
    /\ client[t].op = "apply" /\ client[t].text = topology
    /\ UNCHANGED <<topology, running>>

Fail(t) ==
    /\ Answer(t, "failed")
    /\ Up(running')
    /\ UNCHANGED topology

Restored(t) ==
    /\ Answer(t, "restored")
    /\ running' = topology
    /\ UNCHANGED topology

Save(y) == topology' = y /\ UNCHANGED <<running, client>>

StartOrStop == Up(running') /\ UNCHANGED <<topology, client>>

Crash ==
    /\ topology' \in Leftovers \cup {Torn}
    /\ client' = [t \in Threads |-> Done("none")]
    /\ Up(running')

LabNext ==
    \/ \E t \in Threads :
          \/ \E op \in {"apply", "reset"}, y \in Edits \cup AdminTopologies \cup {NoFile} :
                Ask(t, op, y)
          \/ Succeed(t)
          \/ Skip(t)
          \/ Fail(t)
          \/ Restored(t)
    \/ \E y \in AdminTopologies : Save(y)
    \/ StartOrStop
    \/ Crash

LabSpec == LabInit /\ [][LabNext]_labVars
=============================================================================
