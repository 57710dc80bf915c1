------------------------------ MODULE JobStore ------------------------------
(***************************************************************************)
(* What a dictionary of background jobs promises to those who hold a job   *)
(* id: the job is there until newer ones push it out or its process dies,  *)
(* and its status goes from running, perhaps over cancelling, to a final   *)
(* one that stays.  The vm-agent keeps three such dictionaries             *)
(* (AgentJobs implements this module), the central calls them over HTTP    *)
(* (LabRuntime is composed with it).                                       *)
(***************************************************************************)
EXTENDS Naturals, Sequences, SequencesExt

CONSTANTS
    Jobs,     \* job ids
    Kinds,    \* the dictionaries
    MaxJobs   \* places in each of them, at least one

VARIABLES
    store,   \* store[k]: the ids in dictionary k, oldest first
    status   \* the status of each job, whether or not a dictionary still has it

storeVars == <<store, status>>

Final == {"completed", "cancelled", "error"}
Open == {"running", "cancelling"}

Held == UNION {ToSet(store[k]) : k \in Kinds}

\* What a poll for job j answers.
Answer(j) == IF j \in Held THEN status[j] ELSE "absent"

StoreInit ==
    /\ store = [k \in Kinds |-> <<>>]
    /\ status = [j \in Jobs |-> "unused"]

\* A new job; in a full dictionary the oldest makes room, running or not.
Insert(j, k) ==
    /\ status[j] = "unused"
    /\ store' = [store EXCEPT ![k] = IF Len(@) < MaxJobs THEN Append(@, j)
                                     ELSE Tail(Append(@, j))]
    /\ status' = [status EXCEPT ![j] = "running"]

AskCancel(j) ==
    /\ j \in Held
    /\ status[j] \in Open
    /\ status' = [status EXCEPT ![j] = "cancelling"]
    /\ UNCHANGED store

\* Only a job that somebody asked to cancel ends as cancelled.
Finish(j, outcome) ==
    /\ status[j] \in Open
    /\ outcome = "cancelled" => status[j] = "cancelling"
    /\ status' = [status EXCEPT ![j] = outcome]
    /\ UNCHANGED store

\* The process dies, and the dictionaries with it.
Lose ==
    /\ store' = [k \in Kinds |-> <<>>]
    /\ status' = [j \in Jobs |-> IF status[j] = "unused" THEN "unused" ELSE "gone"]

StoreNext ==
    \/ \E j \in Jobs :
          \/ \E k \in Kinds : Insert(j, k)
          \/ AskCancel(j)
          \/ \E outcome \in Final : Finish(j, outcome)
    \/ Lose

StoreSpec == StoreInit /\ [][StoreNext]_storeVars

-----------------------------------------------------------------------------
\* A final answer is the last one: later polls get the same, or nothing.
AnswersAreFinal ==
    [][\A j \in Jobs : Answer(j) \in Final => Answer(j)' \in {Answer(j), "absent"}]_storeVars
=============================================================================
