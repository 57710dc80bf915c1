----------------------------- MODULE VmRegistry -----------------------------
(***************************************************************************)
(* The registry of vms: an admin registers, changes and removes vms        *)
(* (admin_create_vm, admin_update_vm, admin_delete_vm of                   *)
(* central/src/api/routes.py).  A vm may own a management subnet; the      *)
(* central's host then needs a route to it, which the handlers write into  *)
(* the netplan file and apply before they save config.yaml.                *)
(*                                                                         *)
(* The handlers await nothing, so no two of them interleave; but each is a *)
(* chain of writes to three places, any of which can fail or be the last   *)
(* before the central dies.  Every write is a step.                        *)
(*                                                                         *)
(* Data abstraction.  Of a vm the model keeps subnet and address; subnets  *)
(* are model values with the relation Overlap.  config.yaml is written     *)
(* through one buffer: open() empties it, the end of the dump fills it.    *)
(***************************************************************************)
EXTENDS Naturals

CONSTANTS
    VmIds,
    Subnets,
    Overlap,   \* set of pairs of subnets
    Ips,
    Foreign,   \* subnets the netplan routes elsewhere
    MaxFaults  \* bound: failures and restarts

ASSUME RegistryAssumption ==
    /\ MaxFaults \in Nat /\ Foreign \subseteq Subnets /\ "none" \notin Subnets
    /\ Ips \cap {"none", "elsewhere"} = {}
    /\ \A s, t \in Subnets : <<s, t>> \in Overlap <=> <<t, s>> \in Overlap
    /\ \A s \in Subnets : <<s, s>> \in Overlap

VARIABLES
    agents,   \* config.yaml: the vms by id
    netplan,  \* the netplan file: the next hop for each subnet, or Broken
    kernel,   \* the routes in force
    op,       \* the handler that is running
    suspect,  \* history: subnets of which a failed operation may have left parts
    faults

registryVars == <<agents, netplan, kernel, op, suspect, faults>>

NoSubnet == "none"
Broken == [s \in {} |-> "none"]   \* emptied by a failing write: no interface to put a route on
NoVms == [v \in {} |-> "none"]
Quiet == [pc |-> "idle"]

SubnetsOf(vms) == {vms[v].subnet : v \in DOMAIN vms} \ {NoSubnet}

\* The next hop subnet s should have with these vms registered.
Wanted(vms, s) ==
    CASE s \in Foreign -> "elsewhere"
      [] s \in SubnetsOf(vms) \ Foreign -> vms[CHOOSE v \in DOMAIN vms : vms[v].subnet = s].ip
      [] OTHER -> "none"

RegistryInit ==
    /\ agents = NoVms
    /\ netplan = [s \in Subnets |-> IF s \in Foreign THEN "elsewhere" ELSE "none"]
    /\ kernel = netplan
    /\ op = Quiet /\ suspect = {} /\ faults = 0

-----------------------------------------------------------------------------
(* The checks and the start of a handler.                                  *)

Clash(s, t) == <<s, t>> \in Overlap

\* _ensure_management_subnet_available: against the other vms and against the
\* routes of the netplan, less what may stay.
AvailableMutant(s, others, allowed) ==   \* the registry alone is asked
    s # NoSubnet => \A t \in SubnetsOf(others) : ~Clash(s, t)

Available(s, others, allowed) ==
    s # NoSubnet =>
        /\ \A t \in SubnetsOf(others) : ~Clash(s, t)
        /\ netplan # Broken =>
              \A t \in Subnets \ allowed : netplan[t] # "none" => ~Clash(s, t)

\* _upsert_netplan_route, _remove_netplan_route.
WithRoute(routes, s, ip) == [routes EXCEPT ![s] = ip]
WithoutRoute(routes, s) == [routes EXCEPT ![s] = "none"]

\* A file with no interface makes every handler that needs it fail, and the text
\* that is written back is the one that was there.
BeginOp(kind, vms, touched, routes) ==
    /\ touched # {} => netplan # Broken
    /\ op' = [pc |-> IF touched = {} THEN "open" ELSE "save", kind |-> kind,
              vms |-> vms, touched |-> touched, backup |-> netplan, routes |-> routes]
    /\ UNCHANGED <<agents, netplan, kernel, suspect, faults>>

Without(v) == [w \in DOMAIN agents \ {v} |-> agents[w]]
Having(vms, v, s, ip) ==
    [w \in DOMAIN vms \cup {v} |-> IF w = v THEN [subnet |-> s, ip |-> ip] ELSE vms[w]]

\* POST /api/admin/vms, with an id or without: _generate_next_vm_id takes one that
\* is free, perhaps of a vm that was removed.
CreateVm(v, s, ip) ==
    /\ op = Quiet
    /\ v \notin DOMAIN agents
    /\ Available(s, agents, {})
    /\ BeginOp("create", Having(agents, v, s, ip), {s} \ {NoSubnet},
               IF s # NoSubnet /\ netplan # Broken THEN WithRoute(netplan, s, ip) ELSE netplan)

\* PATCH /api/admin/vms/{v}: a new id, subnet or address.
UpdateVm(v, w, s, ip) ==
    LET previous == agents[v].subnet
        removed == IF previous \notin {NoSubnet, s} THEN WithoutRoute(netplan, previous)
                   ELSE netplan
    IN  /\ op = Quiet
        /\ v \in DOMAIN agents
        /\ w = v \/ w \notin DOMAIN agents
        /\ Available(s, Without(v), {previous})
        /\ BeginOp("update", Having(Without(v), w, s, ip), {previous, s} \ {NoSubnet},
                   IF netplan = Broken THEN netplan
                   ELSE IF s = NoSubnet THEN removed ELSE WithRoute(removed, s, ip))

\* DELETE /api/admin/vms/{v}
DeleteVm(v) ==
    /\ op = Quiet
    /\ v \in DOMAIN agents
    /\ BeginOp("delete", Without(v), {agents[v].subnet} \ {NoSubnet},
               IF agents[v].subnet = NoSubnet \/ netplan = Broken THEN netplan
               ELSE WithoutRoute(netplan, agents[v].subnet))

-----------------------------------------------------------------------------
(* The writes.                                                             *)

Goto(pc) == op' = [op EXCEPT !.pc = pc]

\* _save_netplan_data
Save ==
    /\ op.pc = "save"
    /\ netplan' = op.routes
    /\ Goto("apply")
    /\ UNCHANGED <<agents, kernel, suspect, faults>>

\* _apply_netplan
Apply ==
    /\ op.pc = "apply"
    /\ kernel' = netplan
    /\ Goto("open")
    /\ UNCHANGED <<agents, netplan, suspect, faults>>

\* _persist_settings: the file is opened, and thereby emptied ...
OpenConfig ==
    /\ op.pc = "open"
    /\ agents' = NoVms
    /\ Goto("dump")
    /\ UNCHANGED <<netplan, kernel, suspect, faults>>

\* ... and filled.
Dump ==
    /\ op.pc = "dump"
    /\ agents' = op.vms
    /\ op' = Quiet
    /\ suspect' = suspect \ op.touched
    /\ UNCHANGED <<netplan, kernel, faults>>

Fault == faults < MaxFaults /\ faults' = faults + 1

\* A write that fails may have emptied the file or done its work; an apply that
\* fails may have done it too.  What follows: the backup is written back, except
\* that admin_delete_vm gives up at once on a ValueError, RuntimeError or OSError.
NetplanFails ==
    /\ op.pc \in {"save", "apply"}
    /\ Fault
    /\ IF op.pc = "save"
       THEN netplan' \in {netplan, op.routes, Broken} /\ UNCHANGED kernel
       ELSE kernel' \in {kernel, netplan} /\ UNCHANGED netplan
    /\ \/ Goto("undo") /\ UNCHANGED suspect
       \/ /\ op.kind = "delete"
          /\ op' = Quiet
          /\ suspect' = IF netplan' = Broken THEN Subnets ELSE suspect \cup op.touched
    /\ UNCHANGED agents

\* open() fails, or the dump does and leaves an empty file.
ConfigFails ==
    /\ op.pc \in {"open", "dump"}
    /\ Fault
    /\ suspect' = IF op.pc = "dump" THEN Subnets ELSE suspect
    /\ IF op.touched # {} THEN Goto("undo") ELSE op' = Quiet
    /\ UNCHANGED <<agents, netplan, kernel>>

\* The rollback: write the backup, apply it.
UndoSaveMutant ==   \* the rollback writes what it had meant to write
    /\ op.pc = "undo"
    /\ netplan' = op.routes
    /\ Goto("undo apply")
    /\ UNCHANGED <<agents, kernel, suspect, faults>>

UndoSave ==
    /\ op.pc = "undo"
    /\ netplan' = op.backup
    /\ Goto("undo apply")
    /\ UNCHANGED <<agents, kernel, suspect, faults>>

UndoApply ==
    /\ op.pc = "undo apply"
    /\ kernel' = netplan
    /\ op' = Quiet
    /\ UNCHANGED <<agents, netplan, suspect, faults>>

\* Its failure is logged.
UndoFails ==
    /\ op.pc \in {"undo", "undo apply"}
    /\ Fault
    /\ IF op.pc = "undo"
       THEN netplan' \in {netplan, op.backup, Broken} /\ UNCHANGED kernel
       ELSE kernel' \in {kernel, netplan} /\ UNCHANGED netplan
    /\ suspect' = IF netplan' = Broken THEN Subnets ELSE suspect \cup op.touched
    /\ op' = Quiet
    /\ UNCHANGED agents

\* The central dies and starts again; with its host, which applies the netplan.
Restart ==
    /\ Fault
    /\ kernel' \in {kernel} \cup IF netplan = Broken THEN {} ELSE {netplan}
    /\ suspect' = CASE op = Quiet -> suspect
                    [] op # Quiet /\ (op.pc = "dump" \/ netplan = Broken) -> Subnets
                    [] OTHER -> suspect \cup op.touched
    /\ op' = Quiet
    /\ UNCHANGED <<agents, netplan>>

Writes ==
    Save \/ Apply \/ OpenConfig \/ Dump \/ NetplanFails \/ ConfigFails
    \/ UndoSave \/ UndoApply \/ UndoFails

RegistryNext ==
    \/ \E v \in VmIds, s \in Subnets \cup {NoSubnet}, ip \in Ips :
          \/ CreateVm(v, s, ip)
          \/ \E w \in VmIds : UpdateVm(v, w, s, ip)
    \/ \E v \in VmIds : DeleteVm(v)
    \/ Writes \/ Restart

RegistrySpec == RegistryInit /\ [][RegistryNext]_registryVars

-----------------------------------------------------------------------------
(* Properties.                                                             *)

Disjoint(vms) ==
    \A v, w \in DOMAIN vms :
        v # w /\ NoSubnet \notin {vms[v].subnet, vms[w].subnet}
            => ~Clash(vms[v].subnet, vms[w].subnet)

Apart(routes) ==
    routes # Broken =>
        \A s, t \in Subnets :
            s # t /\ "none" \notin {routes[s], routes[t]} /\ ~({s, t} \subseteq Foreign)
                => ~Clash(s, t)

\* No two vms own overlapping subnets, and no route of the netplan that is not
\* the host's own overlaps another, whatever failed or crashed before: what a
\* failed operation left behind still counts as taken
\* (_ensure_management_subnet_available).
NoOverlap == Disjoint(agents) /\ Apart(netplan)

\* Between operations each subnet has the route its owner needs, in the netplan
\* and in the kernel, and the others none; except the subnets of an operation
\* that was cut short or could not be undone, until one on them succeeds, and
\* except all of them once a file has been lost.
RoutesFollowRegistry ==
    op = Quiet => \A s \in Subnets \ suspect :
                      netplan[s] = Wanted(agents, s) /\ kernel[s] = Wanted(agents, s)
=============================================================================
