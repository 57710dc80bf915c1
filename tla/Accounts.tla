------------------------------- MODULE Accounts -------------------------------
(***************************************************************************)
(* Users, groups and the Linux accounts that mirror the users:             *)
(*   central/src/services/auth.py            the store and its rules        *)
(*   central/src/services/linux_accounts.py  useradd, chpasswd, userdel ... *)
(*   central/src/api/admin_users_routes.py, admin_groups_routes.py,         *)
(*   auth_misc_routes.py                     the handlers                   *)
(*                                                                         *)
(* The handlers never await, so each one is a single step; but the store   *)
(* and Linux are changed one after the other, and any Linux command may    *)
(* fail and leave the handler half done.  Who may call a handler is decided *)
(* earlier, by a dependency that runs in a thread of its own: a request    *)
(* let through may find another store when its handler starts.             *)
(*                                                                         *)
(* Data abstraction.  Of a Linux password the model knows whether it is    *)
(* the one in the store.  Names, mail addresses, the vms and labs of a     *)
(* group, the must_change_password gate and the dictionary of reset links  *)
(* are left out (somebody may hold a link for any user); requests that the *)
(* validation refuses change nothing and are left out too.                 *)
(***************************************************************************)
EXTENDS Naturals, FiniteSets

CONSTANTS
    Names,      \* usernames
    Bootstrap,  \* _DEFAULT_ADMIN_USERNAME
    Groups,     \* group names
    MaxDrift,   \* bound: users out of step with Linux when a command fails
    MaxLate     \* bound: requests let through whose handler has not started

ASSUME AccountsAssumption ==
    Bootstrap \in Names /\ IsFiniteSet(Names) /\ MaxDrift \in Nat /\ MaxLate \in Nat

VARIABLES
    role,     \* role[u] of the users in the store, "none" for the others
    active,   \* users whose record is active
    groups,   \* names of the existing groups
    members,  \* members[g]
    logins,   \* users with a Linux account
    sudoers,  \* users in the Linux admin group
    current,  \* users whose Linux password is the stored one
    late,     \* clearances of the requests let through and not yet handled
    reported  \* history: what the last error answer left out of step

storeVars == <<role, active, groups, members>>
linuxVars == <<logins, sudoers, current>>
vars == <<storeVars, linuxVars, late, reported>>

Roles == {"user", "group-admin", "admin"}
Aspects == {"password", "role"}
Drift(u) == {u} \X Aspects

-----------------------------------------------------------------------------
Known == {u \in Names : role[u] # "none"}

\* get_current_user and _active_admin_count: only active admins act and count.
ActiveAdmins == {u \in active : role[u] = "admin"}

GroupsOf(u) == {g \in groups : u \in members[g]}

\* What require_admin and require_admin_or_group_admin hand to the handler:
\* the actor as the store had it.  Only a group-admin's groups are used.
Clearance(a) ==
    [actor |-> a, role |-> role[a],
     groups |-> IF role[a] = "admin" THEN {} ELSE GroupsOf(a)]

Privileged == {a \in active : role[a] \in {"admin", "group-admin"}}

Clearances == late \cup {Clearance(a) : a \in Privileged}

\* A handler starts with clearance c, at once or as one of the late ones.
Starts(c) ==
    \/ /\ \E a \in Privileged : c = Clearance(a)
       /\ UNCHANGED late
    \/ /\ c \in late
       /\ late' = late \ {c}

\* can_group_admin_manage_user: the role is the clearance's, the groups are
\* read again.
Manages(c, u) ==
    \/ c.role = "admin"
    \/ /\ c.role = "group-admin" /\ c.actor \in Known
       /\ role[u] = "user"
       /\ GroupsOf(c.actor) \cap GroupsOf(u) # {}

\* A Linux command may fail, unless the bound on its traces is reached.
LinuxFails == Cardinality((logins \ Known) \cup {d[1] : d \in reported}) < MaxDrift

\* _set_user_group_membership: G has at most one group.
MovedTo(u, G) ==
    [g \in Groups |-> IF g \in G THEN members[g] \cup {u} ELSE members[g] \ {u}]

\* sync_role, or the role part of sync_create_or_update_user.
SudoersWithMutant(u, r) == IF r = "admin" THEN sudoers \cup {u} ELSE sudoers

SudoersWith(u, r) == IF r = "admin" THEN sudoers \cup {u} ELSE sudoers \ {u}

-----------------------------------------------------------------------------
AccountsInit ==
    /\ role = [u \in Names |-> IF u = Bootstrap THEN "admin" ELSE "none"]
    /\ active = {Bootstrap}
    /\ groups = {} /\ members = [g \in Groups |-> {}]
    /\ logins = {} /\ sudoers = {} /\ current = {}
    /\ reported = Drift(Bootstrap)   \* nobody creates its Linux account
    /\ late = {}

\* The dependency lets a request through; its handler has to wait.
LetThrough(a) ==
    /\ a \in Privileged
    /\ Cardinality(late) < MaxLate
    /\ late' = late \cup {Clearance(a)}
    /\ UNCHANGED <<storeVars, linuxVars, reported>>

\* A group-admin creates plain users in a group of its own, the last time
\* it was looked at.
MayCreate(c, u, r, G) ==
    /\ role[u] = "none"
    /\ c.role = "group-admin" => r = "user" /\ G # {} /\ G \subseteq c.groups

\* create_user
Enter(u, r, G) ==
    /\ role' = [role EXCEPT ![u] = r]
    /\ active' = active \cup {u}
    /\ members' = MovedTo(u, G)
    /\ UNCHANGED groups

\* admin_create_user: create_user, then sync_create_or_update_user.
Create(c, u, r, G) ==
    /\ Starts(c) /\ MayCreate(c, u, r, G)
    /\ Enter(u, r, G)
    /\ logins' = logins \cup {u}
    /\ sudoers' = SudoersWith(u, r)
    /\ current' = current \cup {u}
    /\ reported' = reported \ Drift(u)

\* One of its Linux commands fails and the account stays as far as it got.
\* The user is deleted again, unless the failure is not a RuntimeError or
\* delete_user refuses because the actor, deleted in the meantime, created
\* itself.
CreateFails(c, u, r, G) ==
    /\ LinuxFails
    /\ Starts(c) /\ MayCreate(c, u, r, G)
    /\ \/ UNCHANGED <<logins, sudoers>>
       \/ logins' = logins \cup {u} /\ sudoers' \in {sudoers, SudoersWith(u, r)}
    /\ \/ u # c.actor /\ UNCHANGED <<storeVars, reported>>
       \/ Enter(u, r, G) /\ reported' = reported \cup Drift(u)
    /\ UNCHANGED current

\* The new role, or the old one where the request gives none.
RoleAfter(u, r) == IF r = "keep" THEN role[u] ELSE r

AdminsAfter(u, r) == {v \in active : (IF v = u THEN RoleAfter(u, r) ELSE role[v]) = "admin"}

\* update_user: neither the actor nor the last active admin loses the role
\* or the account.
MayUpdate(a, u, r, on) ==
    /\ u = a => on # "off" /\ r \in {"keep", "admin"}
    /\ role[u] = "admin" /\ RoleAfter(u, r) # "admin" => Cardinality(ActiveAdmins) > 1
    /\ on = "off" /\ RoleAfter(u, r) = "admin" => Cardinality(AdminsAfter(u, r)) > 1

\* admin_update_user: update_user, then sync_role if a role was given.
Update(c, u, r, on, G) ==
    /\ Starts(c) /\ c.role = "admin" /\ u \in Known
    /\ MayUpdate(c.actor, u, r, on)
    /\ role' = [role EXCEPT ![u] = RoleAfter(u, r)]
    /\ active' = CASE on = "on" -> active \cup {u}
                   [] on = "off" -> active \ {u}
                   [] OTHER -> active
    /\ members' = IF G = {"keep"} THEN members ELSE MovedTo(u, G)
    /\ \/ /\ r = "keep"
          /\ UNCHANGED <<sudoers, reported>>
       \/ /\ r # "keep" /\ u \in logins
          /\ sudoers' = SudoersWith(u, r)
          /\ reported' = reported \ {<<u, "role">>}
       \/ /\ r # "keep" /\ (LinuxFails \/ u \notin logins)
          /\ reported' = reported \cup {<<u, "role">>}
          /\ UNCHANGED sudoers
    /\ UNCHANGED <<groups, logins, current>>

\* change_password or reset_user_password, then sync_password.
SetPassword(u) ==
    /\ u \in Known
    /\ \/ /\ u \in logins
          /\ current' = current \cup {u}
          /\ reported' = reported \ {<<u, "password">>}
       \/ /\ LinuxFails \/ u \notin logins
          /\ current' = current \ {u}
          /\ reported' = reported \cup {<<u, "password">>}
    /\ UNCHANGED <<storeVars, logins, sudoers>>

\* authenticate_user looks again whether the user is active.
ChangeOwnPassword(u) == u \in active /\ SetPassword(u) /\ UNCHANGED late

ResetPassword(c, u) == Starts(c) /\ Manages(c, u) /\ SetPassword(u)

\* reset_password_with_token, also for an inactive user.
UseLink(u) == SetPassword(u) /\ UNCHANGED late

\* delete_user refuses the actor itself and the last active admin.
MayDeleteMutant(a, u) == u \in Known /\ u # a

MayDelete(a, u) ==
    /\ u \in Known /\ u # a
    /\ u \in ActiveAdmins => Cardinality(ActiveAdmins) > 1

\* admin_delete_user: sync_delete_user comes first, delete_user may then
\* refuse.
Delete(c, u) ==
    /\ Starts(c) /\ Manages(c, u)
    /\ logins' = logins \ {u} /\ sudoers' = sudoers \ {u} /\ current' = current \ {u}
    /\ IF MayDelete(c.actor, u)
       THEN /\ role' = [role EXCEPT ![u] = "none"]
            /\ active' = active \ {u}
            /\ members' = MovedTo(u, {})
            /\ reported' = reported \ Drift(u)
            /\ UNCHANGED groups
       ELSE /\ reported' = reported \cup (IF u \in Known THEN Drift(u) ELSE {})
            /\ UNCHANGED storeVars

\* userdel fails, having deleted the account or not.
DeleteFails(c, u) ==
    /\ LinuxFails
    /\ Starts(c) /\ Manages(c, u) /\ u \in logins
    /\ \/ UNCHANGED linuxVars
       \/ logins' = logins \ {u} /\ sudoers' = sudoers \ {u} /\ current' = current \ {u}
    /\ reported' = reported \cup (IF u \in Known THEN Drift(u) ELSE {})
    /\ UNCHANGED storeVars

-----------------------------------------------------------------------------
(* Groups; the admins only, and no handler looks at the actor.             *)

\* _validate_single_group_membership
FreeForMutant(M, g) == TRUE

FreeFor(M, g) == \A h \in groups \ {g} : M \cap members[h] = {}

AdminStarts ==
    \/ ActiveAdmins # {} /\ UNCHANGED late
    \/ \E c \in late : c.role = "admin" /\ late' = late \ {c}

CreateGroup(g, M) ==
    /\ AdminStarts
    /\ g \notin groups
    /\ M \subseteq Known /\ FreeFor(M, g)
    /\ groups' = groups \cup {g}
    /\ members' = [members EXCEPT ![g] = M]
    /\ UNCHANGED <<role, active, linuxVars, reported>>

\* The group is renamed from g to h, or h = g, and gets the members M.
UpdateGroup(g, h, M) ==
    /\ AdminStarts
    /\ g \in groups
    /\ h # g => h \notin groups
    /\ M \subseteq Known /\ FreeFor(M, g)
    /\ groups' = (groups \ {g}) \cup {h}
    /\ members' = [[members EXCEPT ![g] = {}] EXCEPT ![h] = M]
    /\ UNCHANGED <<role, active, linuxVars, reported>>

DeleteGroup(g) ==
    /\ AdminStarts
    /\ g \in groups
    /\ groups' = groups \ {g}
    /\ members' = [members EXCEPT ![g] = {}]
    /\ UNCHANGED <<role, active, linuxVars, reported>>

-----------------------------------------------------------------------------
\* At most one existing group.
AtMostOneGroup == {{}} \cup {{g} : g \in groups}

AccountsNext ==
    \/ \E c \in Clearances, u \in Names :
        \/ \E r \in Roles, G \in AtMostOneGroup : Create(c, u, r, G) \/ CreateFails(c, u, r, G)
        \/ \E r \in Roles \cup {"keep"}, on \in {"on", "off", "keep"} : Update(c, u, r, on, {"keep"})
        \/ \E G \in AtMostOneGroup : Update(c, u, "keep", "keep", G)
        \/ ResetPassword(c, u)
        \/ Delete(c, u)
        \/ DeleteFails(c, u)
    \/ \E u \in Names :
        \/ LetThrough(u)
        \/ ChangeOwnPassword(u)
        \/ UseLink(u)
    \/ \E g \in Groups :
        \/ \E M \in SUBSET Names : CreateGroup(g, M)
        \/ \E h \in Groups, M \in SUBSET Names : UpdateGroup(g, h, M)
        \/ DeleteGroup(g)

AccountsSpec == AccountsInit /\ [][AccountsNext]_vars

-----------------------------------------------------------------------------
(* Properties.                                                             *)

AccountsTypeOK ==
    /\ role \in [Names -> Roles \cup {"none"}]
    /\ active \subseteq Known
    /\ groups \subseteq Groups
    /\ members \in [Groups -> SUBSET Names]
    /\ logins \subseteq Names
    /\ sudoers \subseteq logins
    /\ current \subseteq logins
    /\ reported \subseteq Names \X Aspects
    /\ late \subseteq [actor : Names, role : {"admin", "group-admin"}, groups : SUBSET Groups]

\* Somebody can always administer: whatever admins do to each other and to
\* themselves, also by requests let through while they were admins and
\* handled when they no longer are, one active admin remains (update_user,
\* delete_user).
AdminRemains == \E u \in active : role[u] = "admin"

\* No user is in two groups, and the members of a group are users, through
\* renames, reassignments, deletions and re-creations ("Un utilisateur ne peut
\* appartenir qu'a un seul groupe").
GroupsPartition ==
    /\ \A g \in Groups : members[g] \subseteq Known /\ (g \notin groups => members[g] = {})
    /\ \A g, h \in Groups : g # h => members[g] \cap members[h] = {}

\* Linux and the store say the same of a user, role and password, unless the
\* last request about it was answered with an error: no mix of failed
\* creations, leftover accounts, re-creations, role changes and resets lets
\* them drift apart in silence.
DriftIsReported ==
    \A u \in Known :
        /\ <<u, "password">> \notin reported => u \in current
        /\ <<u, "role">> \notin reported =>
              u \in logins /\ (u \in sudoers <=> role[u] = "admin")

=============================================================================
