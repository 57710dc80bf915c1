----------------------------- MODULE ConfigPush -----------------------------
(***************************************************************************)
(* How the vm-agent puts the default configuration on a router             *)
(* (vm-agent/src/config_management_service.py: _apply_cisco_reconfigure,   *)
(* _apply_junos, _apply_sros, ... as _run_reconfigure_job and              *)
(* reconfigure_lab_from_static_db call them): it types into the router's   *)
(* command line and reads the prompts.  The families differ in where the   *)
(* lines go before they count, in whether the code reads what the router   *)
(* answers to them, and in what is tried after a failure.                  *)
(*                                                                         *)
(* One router; the Pushers are the threads of the jobs that reach it, one  *)
(* push each, and may overlap.  Nobody else configures the router then.    *)
(* Data abstraction: a configuration is a set of lines.  The router is     *)
(* free to refuse any line and any commit, to answer too late or not at    *)
(* all.  Which refusals the code can see is a matter of its expressions:   *)
(* \berror:\b never matches Junos' "error: ...", and _IOS_APPLY_ERROR_RE   *)
(* and _IOSXR_APPLY_ERROR_RE know some of the answers that begin with %.   *)
(* A line whose refusal would go unnoticed is in unseen.                   *)
(***************************************************************************)
EXTENDS Naturals

CONSTANTS
    Pushers,
    Base,        \* the lines of <node>.cfg
    Extra,       \* other lines that users may have added
    Nested,      \* lines of a submode, under a top-level line of Base
    SameUnit,    \* pairs of lines of one interface unit
    MaxAttempts  \* max_attempts of _apply_junos and _apply_junos_cleanup

ASSUME PushAssumption ==
    /\ Base \cap Extra = {} /\ Nested \subseteq Base \cup Extra
    /\ SameUnit \subseteq (Base \cup Extra) \X (Base \cup Extra)
    /\ MaxAttempts \in Nat \ {0}

VARIABLES
    family,     \* SUPPORTED_FAMILIES[kind of the router]
    rebuild,    \* VLM_JUNOS_FORCE_REBUILD, VLM_JUNOS_ALLOW_REBUILD_FALLBACK
    unseen,     \* the lines that the router may refuse without the code noticing
    running,    \* the configuration in force
    candidate,  \* the candidate that all sessions share (Junos, SR Linux)
    push        \* push[p]: what pusher p is doing

pushVars == <<family, rebuild, unseen, running, candidate, push>>

Lines == Base \cup Extra
Shared == {"junos", "srl"}
Immediate == {"ios", "ceos"}
Families == Shared \cup Immediate \cup {"iosxr", "sros"}
Session == {"enter", "delete", "load", "commit"}
Over == {"ok", "failed"}

\* deletes: the lines to delete, todo: those not deleted yet; mine: the candidate
\* of a session of its own (IOS-XR, SR OS); fallback: in the _apply_junos of the
\* outer "except"; alone: no other push since it began.
Unstarted ==
    [pc |-> "unstarted", mode |-> "none", kind |-> "none", deletes |-> {}, todo |-> {},
     mine |-> {}, attempt |-> 1, fallback |-> FALSE, alone |-> TRUE]

Busy(p) == push[p].pc \notin {"unstarted"} \cup Over

PushInit ==
    /\ family \in Families
    /\ rebuild \in IF family = "junos" THEN {"never", "fallback", "force"} ELSE {"never"}
    /\ unseen \in SUBSET Lines
    /\ running \in SUBSET Lines
    /\ candidate = IF family \in Shared THEN running ELSE {}
    /\ push = [p \in Pushers |-> Unstarted]

Set(p, new) == push' = [push EXCEPT ![p] = new]
EndPush(p, pc) == Set(p, [Unstarted EXCEPT !.pc = pc])

-----------------------------------------------------------------------------
(* The plan of a push.                                                     *)

\* How a family loads the lines, cleaning up or not.
Kind(mode) ==
    CASE family = "sros" -> "override"
      [] family = "iosxr" /\ mode = "cleanup" -> "replace"
      [] family = "ios" /\ mode = "cleanup" -> "cleanup"
      [] OTHER -> "merge"

\* _apply_junos
JunosKind == IF rebuild = "force" THEN "rebuild" ELSE "merge"

\* _calculate_config_diff: the lines to delete.  In IOS only top-level lines.
ExtraLinesMutant ==   \* base - running
    Base \ running

ExtraLines == (running \ Base) \ (IF family = "ios" THEN Nested ELSE {})

\* The lines a delete command takes with it (_generate_delete_commands_junos).
Subtree(x) == {x} \cup IF family = "junos" THEN {y \in Lines : <<x, y>> \in SameUnit} ELSE {}

\* Whether the code searches the answers to the lines for errors: not for SR OS, SR Linux and
\* the merges and rebuilds of Junos; after an IOS-XR merge it stops at the first
\* prompt, which may be that of the first line.
ReadsLoadMutant(p) ==   \* the output of "load" is not searched for errors
    family \in Immediate \/ push[p].kind = "cleanup"

ReadsLoad(p) == family \in Immediate \/ push[p].kind \in {"cleanup", "replace"}

\* ... and to the commit: the same, less Junos.
ReadsCommit(p) == family = "junos" \/ push[p].kind = "replace"

\* One job after another takes the router.
StartPush(p) ==
    /\ push[p].pc = "unstarted"
    /\ \E mode \in {"base", "cleanup"} :
          push' = [q \in Pushers |->
                     IF q = p
                     THEN [Unstarted EXCEPT
                             !.pc = IF family = "junos" \/ Kind(mode) = "cleanup"
                                    THEN "capture" ELSE "enter",
                             !.mode = mode, !.kind = Kind(mode),
                             !.alone = ~\E r \in Pushers : Busy(r)]
                     ELSE [push[q] EXCEPT !.alone = @ /\ ~Busy(q)]]
    /\ UNCHANGED <<family, rebuild, unseen, running, candidate>>

-----------------------------------------------------------------------------
(* The session.                                                            *)

\* _capture_running_config and the diff: nothing to do, or a plan.
Capture(p) ==
    /\ push[p].pc = "capture"
    /\ IF running = Base THEN EndPush(p, "ok")
       ELSE IF push[p].mode = "cleanup"
       THEN Set(p, [push[p] EXCEPT !.pc = "enter", !.kind = "cleanup",
                                   !.deletes = ExtraLines, !.todo = ExtraLines])
       ELSE Set(p, [push[p] EXCEPT !.pc = "enter", !.kind = JunosKind])
    /\ UNCHANGED <<family, rebuild, unseen, running, candidate>>

\* SR OS waits for the exclusive session.
Enter(p) ==
    /\ push[p].pc = "enter"
    /\ family = "sros" =>
          \A q \in Pushers \ {p} : push[q].pc \notin Session \ {"enter"}
    /\ Set(p, [push[p] EXCEPT !.pc = IF push[p].kind \in {"cleanup", "rebuild"}
                                     THEN "delete" ELSE "load"])
    /\ UNCHANGED <<family, rebuild, unseen, running, candidate>>

\* The configuration that what is typed goes to.
Type(p, add, remove) ==
    CASE family \in Immediate ->
            running' = (running \ remove) \cup add /\ UNCHANGED candidate
      [] family \in Shared ->
            candidate' = (candidate \ remove) \cup add /\ UNCHANGED running
      [] OTHER -> UNCHANGED <<running, candidate>>

\* One delete command; Junos may not find the statement, which is no error.  A
\* refusal that the code does not recognise counts as done.
Delete(p) ==
    /\ push[p].pc = "delete" /\ push[p].kind = "cleanup"
    /\ \E x \in push[p].todo :
          /\ \/ Type(p, {}, Subtree(x))
             \/ x \in unseen /\ UNCHANGED <<running, candidate>>
          /\ Set(p, [push[p] EXCEPT !.todo = @ \ {x}])
    /\ UNCHANGED <<family, rebuild, unseen>>

\* "delete", "yes".
Wipe(p) ==
    /\ push[p].pc = "delete" /\ push[p].kind = "rebuild"
    /\ Type(p, {}, Lines)
    /\ Set(p, [push[p] EXCEPT !.pc = "load"])
    /\ UNCHANGED <<family, rebuild, unseen>>

DeletesDone(p) ==
    /\ push[p].pc = "delete" /\ push[p].kind = "cleanup" /\ push[p].todo = {}
    /\ Set(p, [push[p] EXCEPT !.pc = "load"])
    /\ UNCHANGED <<family, rebuild, unseen, running, candidate>>

\* The lines are typed, the router takes all or some of them; where the answers
\* are searched, all but some whose refusal is not recognised.  IOS and EOS are
\* through then.
Load(p) ==
    /\ push[p].pc = "load"
    /\ \E taken \in SUBSET Base :
          /\ ReadsLoad(p) => Base \ unseen \subseteq taken
          /\ Type(p, taken, {})
          /\ IF family \in Immediate THEN EndPush(p, "ok")
             ELSE Set(p, [push[p] EXCEPT !.pc = "commit",
                                         !.mine = IF family \in Shared THEN {} ELSE taken])
    /\ UNCHANGED <<family, rebuild, unseen>>

Committed(p) ==
    CASE family \in Shared -> candidate
      [] push[p].kind \in {"override", "replace"} -> push[p].mine
      [] OTHER -> running \cup push[p].mine

\* The router commits; or it does not and the code takes its prompt for success.
Commit(p) ==
    /\ push[p].pc = "commit"
    /\ \/ running' = Committed(p)
       \/ ~ReadsCommit(p) /\ UNCHANGED running
    /\ EndPush(p, "ok")
    /\ UNCHANGED <<family, rebuild, unseen, candidate>>

-----------------------------------------------------------------------------
(* Failures: the router refuses and the code sees it, a prompt does not    *)
(* come in time, the connection is lost.                                   *)

\* What the failing step has done on the router: some lines are taken, the
\* commit may be.
Harm(p) ==
    \/ UNCHANGED <<running, candidate>>
    \/ push[p].pc = "load" /\ \E taken \in SUBSET Base : Type(p, taken, {})
    \/ push[p].pc = "commit" /\ running' = Committed(p) /\ UNCHANGED candidate

\* The candidate stays for the next session, or is discarded with the last one.
Dropped(p) ==
    \/ Harm(p)
    \/ /\ family \in Shared /\ \A q \in Pushers \ {p} : push[q].pc \notin Session
       /\ candidate' = running /\ UNCHANGED running

Again(p, kind, attempt, fallback) ==
    Set(p, [push[p] EXCEPT !.pc = "enter", !.kind = kind, !.attempt = attempt,
                           !.fallback = fallback,
                           !.todo = IF kind = "cleanup" THEN push[p].deletes ELSE {},
                           !.deletes = IF kind = "cleanup" THEN @ ELSE {}])

\* _try_junos_recovery unlocks the database or the licence and succeeds; the
\* delete commands stay what they were.
RetryMutant(p) ==   \* as long as the recovery succeeds
    /\ family = "junos" /\ push[p].pc \in Session
    /\ push[p].kind # "rebuild" \/ rebuild = "force"
    /\ Dropped(p)
    /\ Again(p, push[p].kind, push[p].attempt, push[p].fallback)
    /\ UNCHANGED <<family, rebuild, unseen>>

Retry(p) ==
    /\ family = "junos" /\ push[p].pc \in Session
    /\ push[p].attempt < MaxAttempts
    /\ push[p].kind # "rebuild" \/ rebuild = "force"
    /\ Dropped(p)
    /\ Again(p, push[p].kind, push[p].attempt + 1, push[p].fallback)
    /\ UNCHANGED <<family, rebuild, unseen>>

\* The merge failed for good and may be followed by a rebuild.
RebuildInstead(p) ==
    /\ family = "junos" /\ push[p].pc \in Session
    /\ rebuild = "fallback" /\ push[p].kind = "merge"
    /\ Dropped(p)
    /\ Again(p, "rebuild", MaxAttempts, push[p].fallback)
    /\ UNCHANGED <<family, rebuild, unseen>>

\* The outer "except Exception": whatever failed, a merge (or rebuild) is tried.
MergeInstead(p) ==
    /\ family = "junos" /\ push[p].pc \in Session \cup {"capture"}
    /\ ~push[p].fallback
    /\ Dropped(p)
    /\ Again(p, JunosKind, 1, TRUE)
    /\ UNCHANGED <<family, rebuild, unseen>>

\* The node's result is an error; also when there is no connection at all.
GiveUp(p) ==
    /\ push[p].pc \in Session \cup {"capture"}
    /\ family = "junos" => push[p].fallback \/ push[p].pc = "capture"
    /\ Dropped(p)
    /\ EndPush(p, "failed")
    /\ UNCHANGED <<family, rebuild, unseen>>

PushStep(p) ==
    \/ Capture(p) \/ Enter(p) \/ Delete(p) \/ Wipe(p) \/ DeletesDone(p) \/ Load(p) \/ Commit(p)
    \/ Retry(p) \/ RebuildInstead(p) \/ MergeInstead(p) \/ GiveUp(p)

PushNext == \E p \in Pushers : StartPush(p) \/ PushStep(p)

PushSpec == PushInit /\ [][PushNext]_pushVars

\* Every wait for a prompt has a timeout.
FairPushSpec == PushSpec /\ \A p \in Pushers : WF_pushVars(PushStep(p))

-----------------------------------------------------------------------------
(* Properties.                                                             *)

Succeeds(p) == push[p].pc # "ok" /\ push'[p].pc = "ok"

\* "ok" for a node means that the router has every line of the default
\* configuration that it did not refuse unnoticed, whatever failed and was tried
\* again before: for IOS, EOS and IOS-XR clean-ups even when two jobs push at
\* once, for a Junos clean-up when no other job shares its candidate.  Unnoticed
\* is any refusal of a line in a Junos clean-up, and with the others one whose
\* answer the code's expressions do not know.  The other pushes do not search
\* the answers at all and can report "ok" for less (_apply_sros, _apply_srl,
\* _apply_iosxr, _apply_junos_once_merge).
OkMeansApplied ==
    [][\A p \in Pushers :
          /\ Succeeds(p)
          /\ \/ family \in Immediate
             \/ push[p].kind = "replace"
             \/ push[p].kind = "cleanup" /\ push[p].alone
          => Base \ unseen \subseteq running']_pushVars

\* What a clean-up may leave of what users added.
Left == unseen \cup IF family = "ios" THEN Nested ELSE {}

\* A clean-up that reports "ok" has removed what users added, whatever other
\* jobs type and commit meanwhile, but for lines of IOS submodes and for those
\* whose deletion the router refused unnoticed (on Junos any refusal but that
\* of the commit); unless it failed and the merge that was tried in its place
\* succeeded (the outer "except" of _run_reconfigure_job).
CleanupRemovesExtras ==
    [][\A p \in Pushers :
          /\ Succeeds(p) /\ push[p].mode = "cleanup"
          /\ push[p].kind \in {"replace", "cleanup"}
          => running' \cap Extra \subseteq Left]_pushVars

\* Every push ends, however many retries, recoveries and fallbacks it takes.
PushesEnd == \A p \in Pushers : Busy(p) ~> push[p].pc \in Over
=============================================================================
