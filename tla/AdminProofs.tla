---------------------------- MODULE AdminProofs ----------------------------
(***************************************************************************)
(* What the admins of a lab manage, for any vms, subnets, names and        *)
(* faults: the registry of vms keeps subnets apart and routes in step with *)
(* it; an admin remains, groups share no member, and Linux accounts that   *)
(* drift from the store are reported.  The two components share nothing.   *)
(*                                                                         *)
(* The registry comes first.  An operation carries two pictures of the     *)
(* netplan, the one it found and the one it means to write; the invariant  *)
(* says what each is worth (Plan), which of them the file holds at each    *)
(* point (Progress), and that the subnets nobody touches have their routes *)
(* all along (Settled).                                                    *)
(***************************************************************************)
EXTENDS Accounts, VmRegistry, FiniteSetTheorems, TLAPS

Records == [subnet : Subnets \cup {NoSubnet}, ip : Ips]
Registries == UNION {[S -> Records] : S \in SUBSET VmIds}
Routes == {Broken} \cup [Subnets -> Ips \cup {"none", "elsewhere"}]
Operations ==
    [pc : {"save", "apply", "open", "dump", "undo", "undo apply"},
     kind : {"create", "update", "delete"},
     vms : Registries, touched : SUBSET Subnets, backup : Routes, routes : Routes]

RegistryTyped ==
    /\ agents \in Registries /\ netplan \in Routes /\ kernel \in Routes
    /\ op \in Operations \cup {Quiet}
    /\ faults \in Nat

\* The routes of the host stay, and no vm takes their subnets.
HostKept(routes) == routes # Broken => \A s \in Foreign : routes[s] = "elsewhere"
NotTheHosts(vms) == \A v \in DOMAIN vms : vms[v].subnet \notin Foreign

FineVms(vms) == Disjoint(vms) /\ NotTheHosts(vms)
FineRoutes(routes) == Apart(routes) /\ HostKept(routes)

\* What an operation means to do: the new registry, and routes that differ
\* from those it found only in the subnets it touches, which are right then.
Plan(o) ==
    /\ FineVms(o.vms) /\ FineRoutes(o.routes) /\ FineRoutes(o.backup)
    /\ o.touched = {} => o.routes = o.backup
    /\ o.touched # {} =>
          /\ o.routes # Broken /\ o.backup # Broken
          /\ \A s \in o.touched : o.routes[s] = Wanted(o.vms, s)
          /\ \A s \in Subnets \ o.touched : o.routes[s] = o.backup[s]

Forward == {"save", "apply", "open"}
Backward == {"undo", "undo apply"}

Progress ==
    /\ op.pc \notin {"open", "dump"} => op.touched # {}
    /\ op.pc \in Forward =>
          \A s \in Subnets \ op.touched : Wanted(op.vms, s) = Wanted(agents, s)
    /\ op.pc # "dump" /\ op.touched # {} =>
          \A s \in Subnets \ suspect : op.backup[s] = Wanted(agents, s)
    /\ op.pc \in {"save", "undo apply"} => netplan = op.backup
    /\ op.pc \in {"apply", "open", "dump"} => netplan = op.routes
    /\ op.pc \in {"open", "dump"} => \A s \in op.touched : kernel[s] = op.routes[s]
    /\ op.pc \in {"open", "dump"} /\ netplan = Broken => Subnets \subseteq suspect

\* The subnets that are neither suspect nor being changed.
Current == IF op # Quiet /\ op.pc = "dump" THEN op.vms ELSE agents
Doubtful == IF op = Quiet THEN suspect ELSE suspect \cup op.touched
Settled ==
    \A s \in Subnets \ Doubtful :
        /\ kernel[s] = Wanted(Current, s)
        /\ netplan # Broken => netplan[s] = Wanted(Current, s)

RegistryInv ==
    /\ RegistryTyped
    /\ FineVms(agents) /\ FineRoutes(netplan)
    /\ op # Quiet => Plan(op) /\ Progress
    /\ op = Quiet /\ netplan = Broken => Subnets \subseteq suspect
    /\ Settled

-----------------------------------------------------------------------------
(* Registries.                                                             *)

LEMMA RegistryFields ==
    ASSUME NEW vms \in Registries
    PROVE  /\ DOMAIN vms \subseteq VmIds
           /\ \A v \in DOMAIN vms : /\ vms[v].subnet \in Subnets \cup {NoSubnet}
                                    /\ vms[v].ip \in Ips
<1>1. PICK S \in SUBSET VmIds : vms \in [S -> Records]
  BY DEF Registries
<1> QED BY <1>1 DEF Records

LEMMA NobodyIsFine == NoVms \in Registries /\ FineVms(NoVms)
<1>1. NoVms \in [{} -> Records] /\ DOMAIN NoVms = {}
  BY DEF NoVms
<1> QED BY <1>1 DEF Registries, FineVms, Disjoint, NotTheHosts

\* Who owns a subnet decides its route.
LEMMA OwnerDecides ==
    ASSUME NEW vms \in Registries, FineVms(vms), NEW s \in Subnets
    PROVE  /\ s \in Foreign => Wanted(vms, s) = "elsewhere"
           /\ \A v \in DOMAIN vms : vms[v].subnet = s => Wanted(vms, s) = vms[v].ip
           /\ s \notin Foreign /\ (\A v \in DOMAIN vms : vms[v].subnet # s)
                 => Wanted(vms, s) = "none"
<1>1. ASSUME s \in Foreign PROVE Wanted(vms, s) = "elsewhere"
  BY <1>1 DEF Wanted
<1>2. ASSUME NEW v \in DOMAIN vms, vms[v].subnet = s PROVE Wanted(vms, s) = vms[v].ip
  <2>1. s \notin Foreign /\ s # NoSubnet
    BY <1>2, RegistryAssumption DEF FineVms, NotTheHosts, NoSubnet
  <2>2. s \in SubnetsOf(vms) \ Foreign
    BY <1>2, <2>1 DEF SubnetsOf
  <2> DEFINE w == CHOOSE w \in DOMAIN vms : vms[w].subnet = s
  <2>3. w \in DOMAIN vms /\ vms[w].subnet = s
    BY <1>2
  <2>4. <<s, s>> \in Overlap
    BY RegistryAssumption
  <2>5. w = v
    BY <1>2, <2>1, <2>3, <2>4 DEF FineVms, Disjoint, Clash
  <2> QED BY <2>1, <2>2, <2>5 DEF Wanted
<1>3. ASSUME s \notin Foreign, \A v \in DOMAIN vms : vms[v].subnet # s
      PROVE  Wanted(vms, s) = "none"
  <2>1. s \notin SubnetsOf(vms)
    BY <1>3 DEF SubnetsOf
  <2> QED BY <1>3, <2>1 DEF Wanted
<1> QED BY <1>1, <1>2, <1>3

LEMMA TakingOut ==
    ASSUME agents \in Registries, FineVms(agents), NEW v
    PROVE  /\ Without(v) \in Registries /\ FineVms(Without(v))
           /\ DOMAIN Without(v) = DOMAIN agents \ {v}
           /\ \A w \in DOMAIN Without(v) : Without(v)[w] = agents[w]
<1>1. PICK S \in SUBSET VmIds : agents \in [S -> Records]
  BY DEF Registries
<1>2. /\ DOMAIN Without(v) = S \ {v} /\ DOMAIN agents = S
      /\ \A w \in S \ {v} : Without(v)[w] = agents[w]
      /\ Without(v) \in [S \ {v} -> Records]
  BY <1>1 DEF Without
<1>3. FineVms(Without(v))
  BY <1>2 DEF FineVms, Disjoint, NotTheHosts
<1> QED BY <1>2, <1>3 DEF Registries

LEMMA PuttingIn ==
    ASSUME NEW vms \in Registries, FineVms(vms), NEW v \in VmIds,
           NEW s \in Subnets \cup {NoSubnet}, NEW ip \in Ips,
           s \notin Foreign, v \notin DOMAIN vms,
           s # NoSubnet => \A t \in SubnetsOf(vms) : ~Clash(s, t)
    PROVE  /\ Having(vms, v, s, ip) \in Registries /\ FineVms(Having(vms, v, s, ip))
           /\ DOMAIN Having(vms, v, s, ip) = DOMAIN vms \cup {v}
           /\ Having(vms, v, s, ip)[v].subnet = s /\ Having(vms, v, s, ip)[v].ip = ip
           /\ \A w \in DOMAIN vms : Having(vms, v, s, ip)[w] = vms[w]
<1> DEFINE new == Having(vms, v, s, ip)
<1>1. PICK S \in SUBSET VmIds : vms \in [S -> Records]
  BY DEF Registries
<1>2. [subnet |-> s, ip |-> ip] \in Records
  BY DEF Records
<1>3. /\ DOMAIN new = S \cup {v} /\ DOMAIN vms = S
      /\ new[v] = [subnet |-> s, ip |-> ip]
      /\ \A w \in S : new[w] = vms[w]
      /\ new \in [S \cup {v} -> Records]
  BY <1>1, <1>2 DEF Having
<1> HIDE DEF new
<1>4. \A w \in S : vms[w].subnet # NoSubnet => vms[w].subnet \in SubnetsOf(vms)
  BY <1>3 DEF SubnetsOf
<1>5. \A w \in S : s # NoSubnet /\ vms[w].subnet # NoSubnet
                     => ~Clash(s, vms[w].subnet) /\ ~Clash(vms[w].subnet, s)
  BY <1>3, <1>4, RegistryFields, RegistryAssumption DEF Clash
<1>6. Disjoint(new)
  BY <1>3, <1>5 DEF FineVms, Disjoint
<1>7. NotTheHosts(new)
  BY <1>3 DEF FineVms, NotTheHosts
<1>8. S \cup {v} \in SUBSET VmIds /\ new[v].subnet = s /\ new[v].ip = ip
  BY <1>3
<1> QED BY <1>3, <1>6, <1>7, <1>8 DEF FineVms, Registries, new

-----------------------------------------------------------------------------
(* Routes.                                                                 *)

LEMMA RouteFields ==
    ASSUME NEW r \in Routes, r # Broken
    PROVE  r \in [Subnets -> Ips \cup {"none", "elsewhere"}]
  BY DEF Routes

LEMMA WholeRoutes ==
    ASSUME NEW r \in [Subnets -> Ips \cup {"none", "elsewhere"}], Subnets # {}
    PROVE  r \in Routes /\ r # Broken
<1>1. DOMAIN r = Subnets /\ DOMAIN Broken = {}
  BY DEF Broken
<1> QED BY <1>1 DEF Routes

LEMMA RouteAdded ==
    ASSUME NEW r \in Routes, r # Broken, FineRoutes(r),
           NEW s \in Subnets \ Foreign, NEW ip \in Ips,
           \A t \in Subnets \ {s} : r[t] # "none" => ~Clash(s, t)
    PROVE  /\ WithRoute(r, s, ip) \in Routes \ {Broken} /\ FineRoutes(WithRoute(r, s, ip))
           /\ WithRoute(r, s, ip)[s] = ip
           /\ \A t \in Subnets \ {s} : WithRoute(r, s, ip)[t] = r[t]
<1> DEFINE new == WithRoute(r, s, ip)
<1>1. r \in [Subnets -> Ips \cup {"none", "elsewhere"}]
  BY RouteFields
<1>2. /\ new \in [Subnets -> Ips \cup {"none", "elsewhere"}]
      /\ new[s] = ip /\ \A t \in Subnets \ {s} : new[t] = r[t]
  BY <1>1 DEF WithRoute
<1>3. new \in Routes /\ new # Broken
  BY <1>2, WholeRoutes
<1> HIDE DEF new
<1>4. \A t \in Subnets \ {s} : new[t] # "none" => ~Clash(s, t) /\ ~Clash(t, s)
  BY <1>2, RegistryAssumption DEF Clash
<1>5. Apart(new)
  BY <1>2, <1>4 DEF FineRoutes, Apart
<1>6. HostKept(new)
  BY <1>2, RegistryAssumption DEF FineRoutes, HostKept
<1> QED BY <1>2, <1>3, <1>5, <1>6 DEF FineRoutes, new

LEMMA RouteRemoved ==
    ASSUME NEW r \in Routes, r # Broken, FineRoutes(r), NEW s \in Subnets \ Foreign
    PROVE  /\ WithoutRoute(r, s) \in Routes \ {Broken} /\ FineRoutes(WithoutRoute(r, s))
           /\ WithoutRoute(r, s)[s] = "none"
           /\ \A t \in Subnets \ {s} : WithoutRoute(r, s)[t] = r[t]
<1> DEFINE new == WithoutRoute(r, s)
<1>1. r \in [Subnets -> Ips \cup {"none", "elsewhere"}]
  BY RouteFields
<1>2. /\ new \in [Subnets -> Ips \cup {"none", "elsewhere"}]
      /\ new[s] = "none" /\ \A t \in Subnets \ {s} : new[t] = r[t]
  BY <1>1 DEF WithoutRoute
<1>3. new \in Routes /\ new # Broken
  BY <1>2, WholeRoutes
<1> HIDE DEF new
<1>4. Apart(new)
  BY <1>2 DEF FineRoutes, Apart
<1>5. HostKept(new)
  BY <1>2, RegistryAssumption DEF FineRoutes, HostKept
<1> QED BY <1>2, <1>3, <1>4, <1>5 DEF FineRoutes, new

LEMMA AvailableIsNotTheHosts ==
    ASSUME RegistryInv, NEW s \in Subnets \cup {NoSubnet}, NEW others, NEW allowed,
           Available(s, others, allowed), allowed \cap Foreign = {},
           s # NoSubnet => netplan # Broken
    PROVE  s \notin Foreign
<1>1. "none" \notin Foreign /\ \A t \in Subnets : <<t, t>> \in Overlap
  BY RegistryAssumption
<1>2. netplan # Broken => \A t \in Foreign : netplan[t] = "elsewhere"
  BY DEF RegistryInv, FineRoutes, HostKept
<1> QED BY <1>1, <1>2 DEF Available, Clash, NoSubnet

-----------------------------------------------------------------------------
(* The handlers start.                                                     *)

LEMMA Begins ==
    ASSUME RegistryInv, op = Quiet,
           NEW kind \in {"create", "update", "delete"}, NEW vms \in Registries,
           NEW touched \in SUBSET Subnets, NEW routes \in Routes,
           BeginOp(kind, vms, touched, routes),
           FineVms(vms), FineRoutes(routes),
           touched = {} => routes = netplan,
           touched # {} => /\ routes # Broken
                           /\ \A s \in touched : routes[s] = Wanted(vms, s)
                           /\ \A s \in Subnets \ touched : routes[s] = netplan[s],
           \A s \in Subnets \ touched : Wanted(vms, s) = Wanted(agents, s)
    PROVE  RegistryInv'
<1>1. /\ touched # {} => netplan # Broken
      /\ op' = [pc |-> IF touched = {} THEN "open" ELSE "save", kind |-> kind,
                vms |-> vms, touched |-> touched, backup |-> netplan, routes |-> routes]
      /\ UNCHANGED <<agents, netplan, kernel, suspect, faults>>
  BY DEF BeginOp
<1>2. /\ op'.pc = (IF touched = {} THEN "open" ELSE "save") /\ op'.kind = kind
      /\ op'.vms = vms /\ op'.touched = touched /\ op'.backup = netplan /\ op'.routes = routes
      /\ op' \in Operations /\ op' # Quiet
  BY <1>1 DEF Operations, RegistryInv, RegistryTyped, Quiet
<1>3. RegistryTyped'
  BY <1>1, <1>2 DEF RegistryInv, RegistryTyped
<1>4. Plan(op')
  BY <1>1, <1>2 DEF Plan, RegistryInv
<1>5. /\ \A s \in Subnets \ suspect : netplan # Broken => netplan[s] = Wanted(agents, s)
      /\ \A s \in Subnets \ suspect : kernel[s] = Wanted(agents, s)
      /\ netplan = Broken => Subnets \subseteq suspect
  BY DEF RegistryInv, Settled, Doubtful, Current
<1>6. Progress'
  <2>1. CASE touched = {}
    BY <1>1, <1>2, <1>5, <2>1 DEF Progress, Forward
  <2>2. CASE touched # {}
    BY <1>1, <1>2, <1>5, <2>2 DEF Progress, Forward
  <2> QED BY <2>1, <2>2
<1>7. Settled'
  BY <1>1, <1>2, <1>5 DEF Settled, Doubtful, Current
<1>8. (FineVms(agents) /\ FineRoutes(netplan))'
  BY <1>1 DEF RegistryInv, FineVms, Disjoint, NotTheHosts, FineRoutes, Apart, HostKept
<1>9. Plan(op)'
  BY <1>4 DEF Plan, FineVms, Disjoint, NotTheHosts, FineRoutes, Apart, HostKept, Wanted, SubnetsOf
<1> QED BY <1>2, <1>3, <1>6, <1>7, <1>8, <1>9 DEF RegistryInv

LEMMA CreateKeepsInv ==
    ASSUME RegistryInv, NEW v \in VmIds, NEW s \in Subnets \cup {NoSubnet}, NEW ip \in Ips,
           CreateVm(v, s, ip)
    PROVE  RegistryInv'
<1> DEFINE vms == Having(agents, v, s, ip)
           touched == {s} \ {NoSubnet}
           routes == IF s # NoSubnet /\ netplan # Broken THEN WithRoute(netplan, s, ip)
                     ELSE netplan
<1>1. /\ op = Quiet /\ v \notin DOMAIN agents /\ Available(s, agents, {})
      /\ BeginOp("create", vms, touched, routes)
  BY DEF CreateVm
<1>2. /\ agents \in Registries /\ FineVms(agents) /\ netplan \in Routes /\ FineRoutes(netplan)
      /\ (s # NoSubnet => netplan # Broken)
  BY <1>1 DEF RegistryInv, RegistryTyped, BeginOp
<1>3. s \notin Foreign
  BY <1>1, <1>2, AvailableIsNotTheHosts
<1>4. /\ vms \in Registries /\ FineVms(vms) /\ DOMAIN vms = DOMAIN agents \cup {v}
      /\ vms[v].subnet = s /\ vms[v].ip = ip
      /\ \A w \in DOMAIN agents : vms[w] = agents[w]
  <2>1. s # NoSubnet => \A t \in SubnetsOf(agents) : ~Clash(s, t)
    BY <1>1 DEF Available
  <2> QED BY <1>1, <1>2, <1>3, <2>1, PuttingIn
<1> HIDE DEF vms
<1>5. CASE s = NoSubnet
  <2>1. touched = {} /\ routes = netplan
    BY <1>5
  <2>2. \A t \in Subnets : Wanted(vms, t) = Wanted(agents, t)
    BY <1>2, <1>4, <1>5, OwnerDecides, RegistryAssumption DEF NoSubnet
  <2> QED BY <1>1, <1>2, <1>4, <2>1, <2>2, Begins
<1>6. CASE s # NoSubnet
  <2>1. touched = {s} /\ routes = WithRoute(netplan, s, ip) /\ s \in Subnets \ Foreign
    BY <1>2, <1>3, <1>6
  <2>2. \A t \in Subnets \ {s} : netplan[t] # "none" => ~Clash(s, t)
    BY <1>1, <1>2, <1>6 DEF Available
  <2>3. /\ routes \in Routes /\ routes # Broken /\ FineRoutes(routes)
        /\ routes[s] = ip /\ \A t \in Subnets \ {s} : routes[t] = netplan[t]
    BY <1>2, <1>6, <2>1, <2>2, RouteAdded
  <2>4. Wanted(vms, s) = ip
    BY <1>4, <2>1, OwnerDecides
  <2>5. \A t \in Subnets \ {s} : Wanted(vms, t) = Wanted(agents, t)
    BY <1>2, <1>4, OwnerDecides
  <2> HIDE DEF routes, touched
  <2> QED BY <1>1, <1>2, <1>4, <2>1, <2>3, <2>4, <2>5, Begins
<1> QED BY <1>5, <1>6

LEMMA UpdateKeepsInv ==
    ASSUME RegistryInv, NEW v \in VmIds, NEW w \in VmIds,
           NEW s \in Subnets \cup {NoSubnet}, NEW ip \in Ips,
           UpdateVm(v, w, s, ip)
    PROVE  RegistryInv'
<1> DEFINE previous == agents[v].subnet
           removed == IF previous \notin {NoSubnet, s} THEN WithoutRoute(netplan, previous)
                      ELSE netplan
           others == Without(v)
           vms == Having(others, w, s, ip)
           touched == {previous, s} \ {NoSubnet}
           routes == IF netplan = Broken THEN netplan
                     ELSE IF s = NoSubnet THEN removed ELSE WithRoute(removed, s, ip)
<1>1. /\ op = Quiet /\ v \in DOMAIN agents /\ (w = v \/ w \notin DOMAIN agents)
      /\ Available(s, others, {previous})
      /\ BeginOp("update", vms, touched, routes)
  BY DEF UpdateVm
<1>2. /\ agents \in Registries /\ FineVms(agents) /\ netplan \in Routes /\ FineRoutes(netplan)
      /\ (touched # {} => netplan # Broken)
  BY <1>1 DEF RegistryInv, RegistryTyped, BeginOp
<1>3. previous \in Subnets \cup {NoSubnet} /\ previous \notin Foreign
  BY <1>1, <1>2, RegistryFields DEF FineVms, NotTheHosts
<1>4. s \notin Foreign
  BY <1>1, <1>2, <1>3, AvailableIsNotTheHosts
<1>5. /\ others \in Registries /\ FineVms(others) /\ DOMAIN others = DOMAIN agents \ {v}
      /\ \A x \in DOMAIN others : others[x] = agents[x]
  BY <1>2, TakingOut
<1> HIDE DEF others
<1>6. /\ vms \in Registries /\ FineVms(vms) /\ DOMAIN vms = DOMAIN others \cup {w}
      /\ vms[w].subnet = s /\ vms[w].ip = ip
      /\ \A x \in DOMAIN others : vms[x] = others[x]
  <2>1. w \notin DOMAIN others
    BY <1>1, <1>5
  <2>2. s # NoSubnet => \A t \in SubnetsOf(others) : ~Clash(s, t)
    BY <1>1 DEF Available
  <2>3. others \in Registries /\ FineVms(others)
    BY <1>5
  <2> QED BY <1>4, <2>1, <2>2, <2>3, PuttingIn
<1> HIDE DEF vms
<1>7. NoSubnet \notin Subnets
  BY RegistryAssumption DEF NoSubnet
\* The subnets the operation does not touch keep their owners.
<1>8. \A t \in Subnets \ touched : Wanted(vms, t) = Wanted(agents, t)
  <2> SUFFICES ASSUME NEW t \in Subnets \ touched PROVE Wanted(vms, t) = Wanted(agents, t)
    OBVIOUS
  <2>1. t # previous /\ t # s
    BY <1>7
  <2>2. CASE t \in Foreign
    BY <1>2, <1>6, <2>2, OwnerDecides
  <2>3. CASE \E x \in DOMAIN others : others[x].subnet = t
    BY <1>2, <1>5, <1>6, <2>3, OwnerDecides
  <2>4. CASE t \notin Foreign /\ \A x \in DOMAIN others : others[x].subnet # t
    <3>1. \A x \in DOMAIN vms : vms[x].subnet # t
      BY <1>6, <2>1, <2>4
    <3>2. \A x \in DOMAIN agents : agents[x].subnet # t
      BY <1>5, <2>1, <2>4
    <3> QED BY <1>2, <1>6, <2>4, <3>1, <3>2, OwnerDecides
  <2> QED BY <2>2, <2>3, <2>4
<1>9. CASE touched = {}
  <2>1. previous = NoSubnet /\ s = NoSubnet /\ routes = netplan
    BY <1>9
  <2> HIDE DEF touched, routes
  <2> QED BY <1>1, <1>2, <1>6, <1>8, <1>9, <2>1, Begins
<1>10. CASE touched # {}
  <2>1. netplan # Broken
    BY <1>2, <1>10
  <2>2. /\ removed \in Routes /\ removed # Broken /\ FineRoutes(removed)
        /\ (previous \notin {NoSubnet, s} => removed[previous] = "none")
        /\ \A t \in Subnets \ ({previous} \ {s}) : removed[t] = netplan[t]
    <3>1. CASE previous \in {NoSubnet, s}
      BY <1>2, <2>1, <3>1
    <3>2. CASE previous \notin {NoSubnet, s}
      BY <1>2, <1>3, <2>1, <3>2, RouteRemoved
    <3> QED BY <3>1, <3>2
  <2>3. \A t \in Subnets \ {s} : s # NoSubnet /\ removed[t] # "none" => ~Clash(s, t)
    BY <1>1, <1>7, <2>1, <2>2 DEF Available
  <2> HIDE DEF removed
  <2>4. /\ routes \in Routes /\ routes # Broken /\ FineRoutes(routes)
        /\ (s # NoSubnet => routes[s] = ip)
        /\ \A t \in Subnets \ {s} : routes[t] = removed[t]
    <3>1. CASE s = NoSubnet
      BY <2>1, <2>2, <3>1
    <3>2. CASE s # NoSubnet
      BY <1>4, <2>1, <2>2, <2>3, <3>2, RouteAdded
    <3> QED BY <3>1, <3>2
  <2> HIDE DEF routes
  <2>5. s # NoSubnet => Wanted(vms, s) = ip
    BY <1>6, OwnerDecides
  <2>6. previous \notin {NoSubnet, s} => Wanted(vms, previous) = "none"
    <3> SUFFICES ASSUME previous \notin {NoSubnet, s} PROVE Wanted(vms, previous) = "none"
      OBVIOUS
    <3>1. <<previous, previous>> \in Overlap
      BY <1>3, RegistryAssumption
    <3>2. \A x \in DOMAIN others : others[x].subnet # previous
      BY <1>1, <1>2, <1>5, <3>1 DEF FineVms, Disjoint, Clash
    <3>3. \A x \in DOMAIN vms : vms[x].subnet # previous
      BY <1>6, <3>2
    <3> QED BY <1>3, <1>6, <3>3, OwnerDecides
  <2>7. \A t \in touched : routes[t] = Wanted(vms, t)
    BY <1>3, <2>2, <2>4, <2>5, <2>6
  <2>8. \A t \in Subnets \ touched : routes[t] = netplan[t]
    BY <1>7, <2>2, <2>4
  <2>9. touched \in SUBSET Subnets
    BY <1>3
  <2> HIDE DEF touched
  <2> QED BY <1>1, <1>2, <1>6, <1>8, <1>10, <2>4, <2>7, <2>8, <2>9, Begins
<1> QED BY <1>9, <1>10

LEMMA DeleteKeepsInv ==
    ASSUME RegistryInv, NEW v \in VmIds, DeleteVm(v)
    PROVE  RegistryInv'
<1> DEFINE s == agents[v].subnet
           touched == {s} \ {NoSubnet}
           vms == Without(v)
           routes == IF s = NoSubnet \/ netplan = Broken THEN netplan
                     ELSE WithoutRoute(netplan, s)
<1>1. op = Quiet /\ v \in DOMAIN agents /\ BeginOp("delete", vms, touched, routes)
  BY DEF DeleteVm
<1>2. /\ agents \in Registries /\ FineVms(agents) /\ netplan \in Routes /\ FineRoutes(netplan)
      /\ (s # NoSubnet => netplan # Broken)
  BY <1>1 DEF RegistryInv, RegistryTyped, BeginOp
<1>3. s \in Subnets \cup {NoSubnet} /\ s \notin Foreign
  BY <1>1, <1>2, RegistryFields DEF FineVms, NotTheHosts
<1>4. /\ vms \in Registries /\ FineVms(vms) /\ DOMAIN vms = DOMAIN agents \ {v}
      /\ \A x \in DOMAIN vms : vms[x] = agents[x]
  BY <1>2, TakingOut
<1>5. NoSubnet \notin Subnets
  BY RegistryAssumption DEF NoSubnet
<1> HIDE DEF vms
<1>6. \A t \in Subnets \ {s} : Wanted(vms, t) = Wanted(agents, t)
  BY <1>2, <1>4, OwnerDecides
<1>7. CASE s = NoSubnet
  <2>1. touched = {} /\ routes = netplan
    BY <1>7
  <2> HIDE DEF touched, routes
  <2> QED BY <1>1, <1>2, <1>4, <1>5, <1>6, <1>7, <2>1, Begins
<1>8. CASE s # NoSubnet
  <2>1. touched = {s} /\ routes = WithoutRoute(netplan, s) /\ s \in Subnets \ Foreign
    BY <1>2, <1>3, <1>8
  <2>2. /\ routes \in Routes /\ routes # Broken /\ FineRoutes(routes)
        /\ routes[s] = "none" /\ \A t \in Subnets \ {s} : routes[t] = netplan[t]
    BY <1>2, <1>8, <2>1, RouteRemoved
  <2>3. Wanted(vms, s) = "none"
    <3>1. <<s, s>> \in Overlap
      BY <2>1, RegistryAssumption
    <3>2. \A x \in DOMAIN vms : vms[x].subnet # s
      BY <1>1, <1>2, <1>4, <1>8, <3>1 DEF FineVms, Disjoint, Clash
    <3> QED BY <1>4, <2>1, <3>2, OwnerDecides
  <2> HIDE DEF touched, routes
  <2> QED BY <1>1, <1>2, <1>4, <1>6, <2>1, <2>2, <2>3, Begins
<1> QED BY <1>7, <1>8

-----------------------------------------------------------------------------
(* The writes.                                                             *)

LEMMA SamePlan ==
    ASSUME NEW o, NEW p, Plan(o), p.vms = o.vms, p.touched = o.touched,
           p.backup = o.backup, p.routes = o.routes
    PROVE  Plan(p)
  BY DEF Plan

\* A step that leaves the plan of the operation as it is.
LEMMA Advance ==
    ASSUME RegistryInv, op # Quiet,
           NEW pc \in {"save", "apply", "open", "dump", "undo", "undo apply"},
           op' = [op EXCEPT !.pc = pc]
    PROVE  /\ op' \in Operations /\ op' # Quiet /\ op'.pc = pc
           /\ op'.vms = op.vms /\ op'.touched = op.touched /\ op'.kind = op.kind
           /\ op'.backup = op.backup /\ op'.routes = op.routes
           /\ Plan(op)'
<1>1. op \in Operations
  BY DEF RegistryInv, RegistryTyped
<1>2. /\ op' \in Operations /\ op'.pc = pc
      /\ op'.vms = op.vms /\ op'.touched = op.touched /\ op'.kind = op.kind
      /\ op'.backup = op.backup /\ op'.routes = op.routes
  BY <1>1 DEF Operations
<1>3. op' # Quiet
  BY <1>2 DEF Quiet
<1>4. Plan(op')
  BY <1>2, SamePlan DEF RegistryInv
<1>5. Plan(op)'
  BY <1>4 DEF Plan, FineVms, Disjoint, NotTheHosts, FineRoutes, Apart, HostKept, Wanted,
     SubnetsOf
<1> QED BY <1>2, <1>3, <1>5

LEMMA InOperation ==
    ASSUME RegistryInv, NEW pcs, "idle" \notin pcs, op.pc \in pcs
    PROVE  /\ op # Quiet /\ op \in Operations /\ Plan(op) /\ Progress
           /\ op.vms \in Registries /\ op.touched \subseteq Subnets
           /\ op.backup \in Routes /\ op.routes \in Routes
<1>1. op # Quiet
  BY DEF Quiet
<1> QED BY <1>1 DEF RegistryInv, RegistryTyped, Operations

\* What may differ in the routes: nothing outside the subnets that are touched.
LEMMA PlanAgrees ==
    ASSUME RegistryInv, op # Quiet
    PROVE  \A s \in Subnets \ op.touched : op.routes[s] = op.backup[s]
  BY DEF RegistryInv, Plan

LEMMA SaveKeepsInv == ASSUME RegistryInv, Save PROVE RegistryInv'
<1>1. /\ op # Quiet /\ op \in Operations /\ Plan(op) /\ Progress
      /\ op.vms \in Registries /\ op.routes \in Routes
  BY InOperation, op.pc \in {"save"} DEF Save
<1>2. /\ op.pc = "save" /\ netplan' = op.routes /\ op' = [op EXCEPT !.pc = "apply"]
      /\ UNCHANGED <<agents, kernel, suspect, faults>>
  BY DEF Save, Goto
<1>3. /\ op' \in Operations /\ op' # Quiet /\ op'.pc = "apply"
      /\ op'.vms = op.vms /\ op'.touched = op.touched /\ op'.kind = op.kind
      /\ op'.backup = op.backup /\ op'.routes = op.routes
      /\ Plan(op)'
  BY <1>1, <1>2, Advance
<1>4. Progress'
  BY <1>1, <1>2, <1>3 DEF Progress, Forward, Backward
<1>5. Settled'
  BY <1>1, <1>2, <1>3, PlanAgrees
     DEF RegistryInv, Settled, Doubtful, Current, Progress, Plan
<1>6. FineRoutes(netplan)' /\ FineVms(agents)'
  BY <1>1, <1>2
     DEF RegistryInv, Plan, FineRoutes, Apart, HostKept, FineVms, Disjoint, NotTheHosts
<1> QED BY <1>1, <1>2, <1>3, <1>4, <1>5, <1>6 DEF RegistryInv, RegistryTyped

LEMMA ApplyKeepsInv == ASSUME RegistryInv, Apply PROVE RegistryInv'
<1>1. /\ op # Quiet /\ op \in Operations /\ Plan(op) /\ Progress
      /\ op.vms \in Registries /\ op.routes \in Routes
  BY InOperation, op.pc \in {"apply"} DEF Apply
<1>2. /\ op.pc = "apply" /\ kernel' = netplan /\ op' = [op EXCEPT !.pc = "open"]
      /\ UNCHANGED <<agents, netplan, suspect, faults>>
  BY DEF Apply, Goto
<1>3. /\ op' \in Operations /\ op' # Quiet /\ op'.pc = "open"
      /\ op'.vms = op.vms /\ op'.touched = op.touched /\ op'.kind = op.kind
      /\ op'.backup = op.backup /\ op'.routes = op.routes
      /\ Plan(op)'
  BY <1>1, <1>2, Advance
<1>4. netplan = op.routes /\ op.touched # {} /\ netplan # Broken
  BY <1>1, <1>2 DEF Progress, Plan
<1>5. Progress'
  BY <1>1, <1>2, <1>3, <1>4 DEF Progress, Forward, Backward
<1>6. Settled'
  BY <1>1, <1>2, <1>3, <1>4 DEF RegistryInv, Settled, Doubtful, Current
<1>7. FineRoutes(netplan)' /\ FineVms(agents)'
  BY <1>2 DEF RegistryInv, FineRoutes, Apart, HostKept, FineVms, Disjoint, NotTheHosts
<1> QED BY <1>1, <1>2, <1>3, <1>5, <1>6, <1>7 DEF RegistryInv, RegistryTyped

LEMMA OpenKeepsInv == ASSUME RegistryInv, OpenConfig PROVE RegistryInv'
<1>1. /\ op # Quiet /\ op \in Operations /\ Plan(op) /\ Progress
      /\ op.vms \in Registries /\ op.routes \in Routes
  BY InOperation, op.pc \in {"open"} DEF OpenConfig
<1>2. /\ op.pc = "open" /\ agents' = NoVms /\ op' = [op EXCEPT !.pc = "dump"]
      /\ UNCHANGED <<netplan, kernel, suspect, faults>>
  BY DEF OpenConfig, Goto
<1>3. /\ op' \in Operations /\ op' # Quiet /\ op'.pc = "dump"
      /\ op'.vms = op.vms /\ op'.touched = op.touched /\ op'.kind = op.kind
      /\ op'.backup = op.backup /\ op'.routes = op.routes
      /\ Plan(op)'
  BY <1>1, <1>2, Advance
<1>4. Progress'
  BY <1>1, <1>2, <1>3 DEF Progress, Forward, Backward
<1>5. \A s \in Subnets \ (suspect \cup op.touched) :
         /\ Wanted(op.vms, s) = Wanted(agents, s)
         /\ kernel[s] = Wanted(agents, s)
         /\ netplan # Broken => netplan[s] = Wanted(agents, s)
  BY <1>1, <1>2 DEF RegistryInv, Settled, Doubtful, Current, Progress, Forward
<1>6. Settled'
  BY <1>2, <1>3, <1>5 DEF Settled, Doubtful, Current
<1>7. FineVms(agents)'
  BY <1>2, NobodyIsFine DEF FineVms, Disjoint, NotTheHosts
<1>8. FineRoutes(netplan)'
  BY <1>2 DEF RegistryInv, FineRoutes, Apart, HostKept
<1> QED
  BY <1>1, <1>2, <1>3, <1>4, <1>6, <1>7, <1>8, NobodyIsFine DEF RegistryInv, RegistryTyped

\* The end of an operation.
LEMMA Ends ==
    ASSUME op' = Quiet, agents' \in Registries, netplan' \in Routes, kernel' \in Routes,
           faults' \in Nat, FineVms(agents'), FineRoutes(netplan'),
           netplan' = Broken => Subnets \subseteq suspect',
           \A s \in Subnets \ suspect' :
               kernel'[s] = Wanted(agents', s) /\ netplan'[s] = Wanted(agents', s)
    PROVE  RegistryInv'
<1>1. FineVms(agents)' /\ FineRoutes(netplan)'
  BY DEF FineVms, Disjoint, NotTheHosts, FineRoutes, Apart, HostKept
<1>2. Settled'
  BY DEF Settled, Doubtful, Current
<1> QED BY <1>1, <1>2 DEF RegistryInv, RegistryTyped

LEMMA DumpKeepsInv == ASSUME RegistryInv, Dump PROVE RegistryInv'
<1>1. /\ op # Quiet /\ op \in Operations /\ Plan(op) /\ Progress
      /\ op.vms \in Registries /\ op.routes \in Routes
  BY InOperation, op.pc \in {"dump"} DEF Dump
<1>2. /\ op.pc = "dump" /\ agents' = op.vms /\ op' = Quiet
      /\ suspect' = suspect \ op.touched
      /\ UNCHANGED <<netplan, kernel, faults>>
  BY DEF Dump
<1>3. netplan = op.routes /\ (netplan = Broken => op.touched = {} /\ Subnets \subseteq suspect)
  BY <1>1, <1>2 DEF Progress, Plan
<1>4. ASSUME NEW s \in Subnets \ suspect'
      PROVE  kernel[s] = Wanted(op.vms, s) /\ netplan[s] = Wanted(op.vms, s)
  <2>1. CASE s \in op.touched
    BY <1>1, <1>2, <2>1 DEF Progress, Plan
  <2>2. CASE s \notin op.touched
    BY <1>1, <1>2, <1>3, <2>2 DEF RegistryInv, Settled, Doubtful, Current
  <2> QED BY <2>1, <2>2
<1>5. FineVms(op.vms) /\ FineRoutes(netplan) /\ netplan \in Routes /\ kernel \in Routes
      /\ faults \in Nat
  BY <1>1 DEF RegistryInv, RegistryTyped, Plan
<1> QED BY <1>1, <1>2, <1>3, <1>4, <1>5, Ends

\* A step to the rollback, with a netplan that is the one that was found, the
\* one that was meant, or empty, and a kernel that got either.
LEMMA ToUndo ==
    ASSUME RegistryInv, op # Quiet, op.touched # {}, op.pc # "dump",
           op' = [op EXCEPT !.pc = "undo"],
           UNCHANGED <<agents, suspect>>, faults' \in Nat,
           netplan' \in {netplan, op.routes, Broken},
           kernel' \in {kernel, netplan}, netplan = Broken => kernel' = kernel
    PROVE  RegistryInv'
<1>1. op \in Operations /\ Plan(op) /\ Progress /\ op.routes \in Routes
  BY DEF RegistryInv, RegistryTyped, Operations
<1>2. /\ op' \in Operations /\ op' # Quiet /\ op'.pc = "undo"
      /\ op'.vms = op.vms /\ op'.touched = op.touched /\ op'.kind = op.kind
      /\ op'.backup = op.backup /\ op'.routes = op.routes
      /\ Plan(op)'
  BY Advance
<1>3. \A s \in Subnets \ suspect : op.backup[s] = Wanted(agents, s)
  BY <1>1 DEF Progress
<1>4. Progress'
  BY <1>2, <1>3 DEF Progress, Forward
<1>5. \A s \in Subnets \ (suspect \cup op.touched) :
         /\ kernel[s] = Wanted(agents, s) /\ op.routes[s] = Wanted(agents, s)
         /\ netplan # Broken => netplan[s] = Wanted(agents, s)
  BY <1>3, PlanAgrees DEF RegistryInv, Settled, Doubtful, Current
<1>6. Settled'
  BY <1>2, <1>5 DEF Settled, Doubtful, Current
<1>7. FineRoutes(netplan')
  <2>1. FineRoutes(Broken)
    BY DEF FineRoutes, Apart, HostKept
  <2> QED BY <1>1, <2>1 DEF RegistryInv, Plan
<1>8. (FineRoutes(netplan) /\ FineVms(agents))'
  BY <1>7 DEF RegistryInv, FineRoutes, Apart, HostKept, FineVms, Disjoint, NotTheHosts
<1>9. RegistryTyped'
  BY <1>1, <1>2 DEF RegistryInv, RegistryTyped, Routes
<1> QED BY <1>2, <1>4, <1>6, <1>8, <1>9 DEF RegistryInv

\* An operation that is left where it is, before the registry is emptied: what
\* it touches becomes suspect.
LEMMA LeftBehind ==
    ASSUME RegistryInv, op # Quiet, op.pc # "dump", op' = Quiet,
           UNCHANGED agents, faults' \in Nat,
           suspect' = IF netplan' = Broken THEN Subnets ELSE suspect \cup op.touched,
           netplan' \in {netplan, op.routes, op.backup, Broken},
           netplan' # netplan => op.touched # {},
           kernel' \in {kernel, netplan}, netplan = Broken => kernel' = kernel
    PROVE  RegistryInv'
<1>1. op \in Operations /\ Plan(op) /\ Progress /\ op.routes \in Routes /\ op.backup \in Routes
  BY DEF RegistryInv, RegistryTyped, Operations
<1>2. /\ agents' \in Registries /\ netplan' \in Routes /\ kernel' \in Routes
      /\ FineVms(agents') /\ FineRoutes(netplan')
  <2>1. FineRoutes(Broken) /\ Broken \in Routes
    BY DEF FineRoutes, Apart, HostKept, Routes
  <2> QED BY <1>1, <2>1 DEF RegistryInv, RegistryTyped, Plan
<1>3. ASSUME netplan' # Broken, NEW s \in Subnets \ (suspect \cup op.touched)
      PROVE  kernel'[s] = Wanted(agents, s) /\ netplan'[s] = Wanted(agents, s)
  <2>1. kernel[s] = Wanted(agents, s) /\ (netplan # Broken => netplan[s] = Wanted(agents, s))
    BY DEF RegistryInv, Settled, Doubtful, Current
  <2>2. op.touched # {} => op.backup[s] = Wanted(agents, s) /\ op.routes[s] = op.backup[s]
    BY <1>1, PlanAgrees DEF Progress
  <2> QED BY <1>3, <2>1, <2>2
<1> QED BY <1>2, <1>3, Ends

\* What a restart or a failure leaves of an empty registry.
LEMMA AllSuspect ==
    ASSUME RegistryInv, op' = Quiet, UNCHANGED <<agents, netplan>>, faults' \in Nat,
           kernel' \in Routes, suspect' = Subnets
    PROVE  RegistryInv'
<1>1. \A s \in Subnets \ suspect' : FALSE
  OBVIOUS
<1> QED BY <1>1, Ends DEF RegistryInv, RegistryTyped

LEMMA FaultCounts == ASSUME RegistryInv, Fault PROVE faults' \in Nat
  BY DEF RegistryInv, RegistryTyped, Fault

LEMMA NetplanFailsKeepsInv == ASSUME RegistryInv, NetplanFails PROVE RegistryInv'
<1>1. /\ op # Quiet /\ op \in Operations /\ Plan(op) /\ Progress
      /\ op.pc \in {"save", "apply"} /\ op.touched # {}
  <2>1. op.pc \in {"save", "apply"}
    BY DEF NetplanFails
  <2> QED BY <2>1, InOperation DEF Progress
<1>2. /\ netplan' \in {netplan, op.routes, Broken}
      /\ kernel' \in {kernel, netplan} /\ UNCHANGED agents /\ faults' \in Nat
  BY FaultCounts DEF NetplanFails
<1>3. netplan # Broken
  BY <1>1 DEF Progress, Plan
<1>4. CASE Goto("undo") /\ UNCHANGED suspect
  BY <1>1, <1>2, <1>3, <1>4, ToUndo DEF Goto
<1>5. CASE /\ op' = Quiet
           /\ suspect' = IF netplan' = Broken THEN Subnets ELSE suspect \cup op.touched
  BY <1>1, <1>2, <1>3, <1>5, LeftBehind
<1> QED BY <1>4, <1>5 DEF NetplanFails

LEMMA ConfigFailsKeepsInv == ASSUME RegistryInv, ConfigFails PROVE RegistryInv'
<1>1. op.pc \in {"open", "dump"} /\ UNCHANGED <<agents, netplan, kernel>> /\ faults' \in Nat
  BY FaultCounts DEF ConfigFails
<1>2. op # Quiet /\ op \in Operations /\ Plan(op) /\ Progress /\ op.routes \in Routes
  BY <1>1, InOperation
<1>3. CASE op.pc = "open" /\ op.touched # {}
  BY <1>1, <1>2, <1>3, ToUndo DEF ConfigFails, Goto
<1>4. CASE op.pc = "open" /\ op.touched = {}
  <2>1. op' = Quiet /\ UNCHANGED suspect
    BY <1>4 DEF ConfigFails
  <2>2. \A s \in Subnets \ suspect :
            kernel[s] = Wanted(agents, s) /\ netplan[s] = Wanted(agents, s)
    BY <1>2, <1>4 DEF RegistryInv, Settled, Doubtful, Current, Progress
  <2>3. netplan = Broken => Subnets \subseteq suspect
    BY <1>2, <1>4 DEF Progress
  <2> QED BY <1>1, <2>1, <2>2, <2>3, Ends DEF RegistryInv, RegistryTyped
<1>5. CASE op.pc = "dump" /\ op.touched = {}
  BY <1>1, <1>5, AllSuspect DEF ConfigFails, RegistryInv, RegistryTyped
<1>6. CASE op.pc = "dump" /\ op.touched # {}
  <2>1. op' = [op EXCEPT !.pc = "undo"] /\ suspect' = Subnets
    BY <1>6 DEF ConfigFails, Goto
  <2>2. /\ op' \in Operations /\ op' # Quiet /\ op'.pc = "undo"
        /\ op'.touched = op.touched /\ Plan(op)'
    BY <1>2, <2>1, Advance
  <2>3. Progress' /\ Settled'
    BY <1>6, <2>1, <2>2 DEF Progress, Forward, Settled, Doubtful
  <2>4. (FineRoutes(netplan) /\ FineVms(agents))'
    BY <1>1 DEF RegistryInv, FineRoutes, Apart, HostKept, FineVms, Disjoint, NotTheHosts
  <2> QED BY <1>1, <2>2, <2>3, <2>4 DEF RegistryInv, RegistryTyped
<1> QED BY <1>1, <1>3, <1>4, <1>5, <1>6

LEMMA UndoSaveKeepsInv == ASSUME RegistryInv, UndoSave PROVE RegistryInv'
<1>1. /\ op # Quiet /\ op \in Operations /\ Plan(op) /\ Progress
      /\ op.vms \in Registries /\ op.backup \in Routes
  BY InOperation, op.pc \in {"undo"} DEF UndoSave
<1>2. /\ op.pc = "undo" /\ netplan' = op.backup /\ op' = [op EXCEPT !.pc = "undo apply"]
      /\ UNCHANGED <<agents, kernel, suspect, faults>>
  BY DEF UndoSave, Goto
<1>3. /\ op' \in Operations /\ op' # Quiet /\ op'.pc = "undo apply"
      /\ op'.vms = op.vms /\ op'.touched = op.touched /\ op'.kind = op.kind
      /\ op'.backup = op.backup /\ op'.routes = op.routes
      /\ Plan(op)'
  BY <1>1, <1>2, Advance
<1>4. op.touched # {} /\ \A s \in Subnets \ suspect : op.backup[s] = Wanted(agents, s)
  BY <1>1, <1>2 DEF Progress
<1>5. Progress'
  BY <1>2, <1>3, <1>4 DEF Progress, Forward
<1>6. Settled'
  BY <1>1, <1>2, <1>3, <1>4 DEF RegistryInv, Settled, Doubtful, Current
<1>7. FineRoutes(netplan)' /\ FineVms(agents)'
  BY <1>1, <1>2
     DEF RegistryInv, Plan, FineRoutes, Apart, HostKept, FineVms, Disjoint, NotTheHosts
<1> QED BY <1>1, <1>2, <1>3, <1>5, <1>6, <1>7 DEF RegistryInv, RegistryTyped

LEMMA UndoApplyKeepsInv == ASSUME RegistryInv, UndoApply PROVE RegistryInv'
<1>1. /\ op # Quiet /\ op.pc = "undo apply" /\ Plan(op) /\ Progress
  BY InOperation, op.pc \in {"undo apply"} DEF UndoApply
<1>2. /\ kernel' = netplan /\ op' = Quiet /\ UNCHANGED <<agents, netplan, suspect, faults>>
  BY DEF UndoApply
<1>3. netplan = op.backup /\ op.backup # Broken
      /\ \A s \in Subnets \ suspect : op.backup[s] = Wanted(agents, s)
  BY <1>1 DEF Progress, Plan
<1> QED BY <1>2, <1>3, Ends DEF RegistryInv, RegistryTyped

LEMMA UndoFailsKeepsInv == ASSUME RegistryInv, UndoFails PROVE RegistryInv'
<1>1. op.pc \in {"undo", "undo apply"} /\ UNCHANGED agents /\ op' = Quiet /\ faults' \in Nat
      /\ suspect' = IF netplan' = Broken THEN Subnets ELSE suspect \cup op.touched
  BY FaultCounts DEF UndoFails
<1>2. op # Quiet /\ Plan(op) /\ Progress /\ op.touched # {}
  BY <1>1, InOperation DEF Progress
<1>3. netplan' \in {netplan, op.backup, Broken} /\ kernel' \in {kernel, netplan}
  BY DEF UndoFails
<1>4. netplan = Broken => kernel' = kernel
  BY <1>1, <1>2 DEF UndoFails, Progress, Plan
<1> QED BY <1>1, <1>2, <1>3, <1>4, LeftBehind

LEMMA RestartKeepsInv == ASSUME RegistryInv, Restart PROVE RegistryInv'
<1>1. /\ kernel' \in {kernel, netplan} /\ (netplan = Broken => kernel' = kernel)
      /\ op' = Quiet /\ UNCHANGED <<agents, netplan>> /\ faults' \in Nat
  BY FaultCounts DEF Restart
<1>2. CASE op = Quiet
  <2>1. UNCHANGED suspect
    BY <1>2 DEF Restart
  <2> QED BY <1>1, <1>2, <2>1, Ends DEF RegistryInv, RegistryTyped, Settled, Doubtful, Current
<1>3. CASE op # Quiet /\ (op.pc = "dump" \/ netplan = Broken)
  <2>1. suspect' = Subnets
    BY <1>3 DEF Restart
  <2> QED BY <1>1, <2>1, AllSuspect DEF RegistryInv, RegistryTyped
<1>4. CASE op # Quiet /\ op.pc # "dump" /\ netplan # Broken
  <2>1. suspect' = suspect \cup op.touched
    BY <1>4 DEF Restart
  <2> QED BY <1>1, <1>4, <2>1, LeftBehind
<1> QED BY <1>2, <1>3, <1>4

-----------------------------------------------------------------------------
(* The theorems.                                                           *)

LEMMA RegistryInitHolds == RegistryInit => RegistryInv
<1> SUFFICES ASSUME RegistryInit PROVE RegistryInv
  OBVIOUS
<1>1. netplan \in [Subnets -> Ips \cup {"none", "elsewhere"}] /\ kernel = netplan
      /\ \A s \in Subnets : netplan[s] = IF s \in Foreign THEN "elsewhere" ELSE "none"
  BY DEF RegistryInit
<1>2. netplan \in Routes /\ (netplan = Broken => Subnets = {})
  BY <1>1, WholeRoutes DEF Routes
<1>3. FineRoutes(netplan)
  BY <1>1, RegistryAssumption DEF FineRoutes, Apart, HostKept
<1>4. \A s \in Subnets : netplan[s] = Wanted(NoVms, s)
  <2>1. DOMAIN NoVms = {}
    BY DEF NoVms
  <2> QED BY <1>1, <2>1, NobodyIsFine, OwnerDecides
<1>5. Settled
  BY <1>1, <1>4 DEF RegistryInit, Settled, Current, Doubtful
<1> QED
  BY <1>1, <1>2, <1>3, <1>5, NobodyIsFine DEF RegistryInit, RegistryInv, RegistryTyped

LEMMA RegistryStep == ASSUME RegistryInv, [RegistryNext]_registryVars PROVE RegistryInv'
<1>1. CASE UNCHANGED registryVars
  <2>1. UNCHANGED <<agents, netplan, kernel, op, suspect, faults>>
    BY <1>1 DEF registryVars
  <2>2. RegistryTyped' /\ (FineVms(agents) /\ FineRoutes(netplan))'
    BY <2>1 DEF RegistryInv, RegistryTyped, FineVms, Disjoint, NotTheHosts, FineRoutes, Apart,
       HostKept
  <2>3. Settled'
    BY <2>1 DEF RegistryInv, Settled, Doubtful, Current
  <2>4. (op # Quiet => Progress)'
    BY <2>1 DEF RegistryInv, Progress
  <2>5. op # Quiet => Plan(op')
    BY <2>1, SamePlan DEF RegistryInv
  <2>6. (op # Quiet => Plan(op))'
    BY <2>1, <2>5 DEF Plan, FineVms, Disjoint, NotTheHosts, FineRoutes, Apart, HostKept, Wanted,
       SubnetsOf
  <2> QED BY <2>1, <2>2, <2>3, <2>4, <2>6 DEF RegistryInv
<1> QED
  BY <1>1, CreateKeepsInv, UpdateKeepsInv, DeleteKeepsInv, SaveKeepsInv, ApplyKeepsInv,
     OpenKeepsInv, DumpKeepsInv, NetplanFailsKeepsInv, ConfigFailsKeepsInv,
     UndoSaveKeepsInv, UndoApplyKeepsInv, UndoFailsKeepsInv, RestartKeepsInv
     DEF RegistryNext, Writes

\* Subnets never overlap, neither those of vms nor those that have routes.
THEOREM SubnetsStayApart == RegistrySpec => []NoOverlap
<1>1. RegistryInv => NoOverlap
  BY DEF RegistryInv, FineVms, FineRoutes, NoOverlap
<1> QED BY <1>1, RegistryInitHolds, RegistryStep, PTL DEF RegistrySpec

\* The routes follow the registry wherever nothing was left half done.
THEOREM RoutesFollow == RegistrySpec => []RoutesFollowRegistry
<1>1. RegistryInv => RoutesFollowRegistry
  BY DEF RegistryInv, Settled, Doubtful, Current, RoutesFollowRegistry
<1> QED BY <1>1, RegistryInitHolds, RegistryStep, PTL DEF RegistrySpec

-----------------------------------------------------------------------------
(* Users, groups and Linux accounts.  The invariant is the conjunction of  *)
(* the properties: each needs the typing, and the typing of the store needs *)
(* none of the others.  That an admin remains rests on the counting in the *)
(* store alone, never on who the actor is: it may have been deleted since  *)
(* its request was let through.                                            *)

AccountsInv == AccountsTypeOK /\ AdminRemains /\ GroupsPartition /\ DriftIsReported

LEMMA KnownNames ==
    ASSUME AccountsTypeOK
    PROVE  /\ active \subseteq Names
           /\ \A u \in Names : GroupsOf(u) \subseteq groups
           /\ ActiveAdmins \subseteq Known
BY DEF AccountsTypeOK, Known, GroupsOf, ActiveAdmins

\* A handler that starts leaves the requests that wait as they were.
LEMMA StartsKeepsLate == ASSUME NEW c, Starts(c) PROVE late' \subseteq late
BY DEF Starts

\* More than one of finitely many names: there is another than u.
LEMMA AnotherOne ==
    ASSUME NEW S \in SUBSET Names, NEW u, Cardinality(S) > 1
    PROVE  \E v \in S : v # u
<1> SUFFICES ASSUME S \subseteq {u} PROVE FALSE
  OBVIOUS
<1>1. IsFiniteSet({u}) /\ Cardinality({u}) = 1
  BY FS_Singleton
<1>2. Cardinality(S) <= 1
  BY <1>1, FS_Subset
<1>3. Cardinality(S) \in Nat
  BY <1>1, FS_Subset, FS_CardinalityType
<1> QED BY <1>2, <1>3

\* _set_user_group_membership: it touches nobody else, and the user is in the
\* groups it is moved to, at most one.
LEMMA MovedToKeepsGroups ==
    ASSUME AccountsTypeOK, GroupsPartition,
           NEW u \in Names, NEW G \in AtMostOneGroup
    PROVE  /\ MovedTo(u, G) \in [Groups -> SUBSET Names]
           /\ \A g \in Groups :
                 /\ MovedTo(u, G)[g] \subseteq (members[g] \ {u}) \cup {v \in {u} : g \in G}
                 /\ g \notin groups => MovedTo(u, G)[g] = {}
           /\ \A g, h \in Groups : g # h => MovedTo(u, G)[g] \cap MovedTo(u, G)[h] = {}
<1>1. G \subseteq groups /\ \A g, h \in G : g = h
  BY DEF AtMostOneGroup
<1>2. \A g \in Groups :
         MovedTo(u, G)[g] = IF g \in G THEN members[g] \cup {u} ELSE members[g] \ {u}
  BY DEF MovedTo
<1>3. MovedTo(u, G) \in [Groups -> SUBSET Names]
  BY DEF MovedTo, AccountsTypeOK
<1>4. ASSUME NEW g \in Groups
      PROVE  /\ MovedTo(u, G)[g] \subseteq (members[g] \ {u}) \cup {v \in {u} : g \in G}
             /\ g \notin groups => MovedTo(u, G)[g] = {}
  BY <1>1, <1>2 DEF GroupsPartition
<1>5. ASSUME NEW g \in Groups, NEW h \in Groups, g # h
      PROVE  MovedTo(u, G)[g] \cap MovedTo(u, G)[h] = {}
  <2>1. members[g] \cap members[h] = {}
    BY <1>5 DEF GroupsPartition
  <2> QED BY <2>1, <1>1, <1>2, <1>5
<1> QED BY <1>3, <1>4, <1>5

LEMMA AccountsInitHolds == AccountsInit => AccountsInv
<1> SUFFICES ASSUME AccountsInit PROVE AccountsInv
  OBVIOUS
<1>1. Known = {Bootstrap} /\ Bootstrap \in Names
  BY AccountsAssumption DEF AccountsInit, Known
<1>2. AccountsTypeOK
  BY <1>1 DEF AccountsInit, AccountsTypeOK, Roles, Drift, Aspects
<1>3. AdminRemains
  BY <1>1 DEF AccountsInit, AdminRemains
<1>4. GroupsPartition
  BY DEF AccountsInit, GroupsPartition
<1>5. DriftIsReported
  BY <1>1 DEF AccountsInit, DriftIsReported, Drift, Aspects
<1> QED BY <1>2, <1>3, <1>4, <1>5 DEF AccountsInv

LEMMA LetThroughKeepsAccounts ==
    ASSUME AccountsInv, NEW a \in Names, LetThrough(a)
    PROVE  AccountsInv'
<1> USE DEF AccountsInv
<1>1. UNCHANGED <<storeVars, linuxVars, reported>> /\ late' = late \cup {Clearance(a)}
  BY DEF LetThrough
<1>2. Clearance(a) \in [actor : Names, role : {"admin", "group-admin"}, groups : SUBSET Groups]
  BY KnownNames DEF LetThrough, Privileged, Clearance, AccountsTypeOK
<1>3. AccountsTypeOK'
  BY <1>1, <1>2 DEF AccountsTypeOK, Known, storeVars, linuxVars
<1> QED
  BY <1>1, <1>3 DEF storeVars, linuxVars, Known, AdminRemains, GroupsPartition, DriftIsReported

\* create_user: a new record, in at most one group.
LEMMA Enters ==
    ASSUME AccountsTypeOK, AdminRemains, GroupsPartition,
           NEW u \in Names, NEW r \in Roles, NEW G \in AtMostOneGroup,
           role[u] = "none", Enter(u, r, G)
    PROVE  /\ role' \in [Names -> Roles \cup {"none"}] /\ role'[u] = r
           /\ \A v \in Names \ {u} : role'[v] = role[v]
           /\ Known' = Known \cup {u}
           /\ active' \subseteq Known'
           /\ groups' = groups /\ members' \in [Groups -> SUBSET Names]
           /\ AdminRemains' /\ GroupsPartition'
<1>1. /\ role' \in [Names -> Roles \cup {"none"}] /\ r # "none" /\ role'[u] = r
      /\ \A v \in Names \ {u} : role'[v] = role[v]
      /\ active' = active \cup {u} /\ groups' = groups /\ members' = MovedTo(u, G)
  BY DEF Enter, AccountsTypeOK, Roles
<1>2. Known' = Known \cup {u}
  BY <1>1 DEF Known
<1>3. active' \subseteq Known'
  BY <1>1, <1>2 DEF AccountsTypeOK
<1>4. AdminRemains'
  BY <1>1, KnownNames DEF AdminRemains
<1>5. GroupsPartition'
  BY <1>1, <1>2, MovedToKeepsGroups DEF GroupsPartition
<1> QED BY <1>1, <1>2, <1>3, <1>4, <1>5, MovedToKeepsGroups

LEMMA CreateKeepsAccounts ==
    ASSUME AccountsInv, NEW c, NEW u \in Names, NEW r \in Roles,
           NEW G \in AtMostOneGroup, Create(c, u, r, G)
    PROVE  AccountsInv'
<1> USE DEF AccountsInv
<1>1. /\ role' \in [Names -> Roles \cup {"none"}] /\ role'[u] = r
      /\ role[u] = "none"
      /\ \A v \in Names \ {u} : role'[v] = role[v]
      /\ groups' = groups /\ members' \in [Groups -> SUBSET Names]
      /\ AdminRemains' /\ GroupsPartition'
  BY Enters DEF Create, MayCreate
<1>2. Known' = Known \cup {u} /\ active' \subseteq Known' /\ late' \subseteq late
  BY Enters, StartsKeepsLate DEF Create, MayCreate
<1>3. sudoers' = (IF r = "admin" THEN sudoers \cup {u} ELSE sudoers \ {u})
  BY DEF Create, SudoersWith
<1>4. AccountsTypeOK'
  BY <1>1, <1>2, <1>3 DEF Create, AccountsTypeOK
<1>7. DriftIsReported'
  <2> SUFFICES ASSUME NEW v \in Known'
               PROVE  /\ <<v, "password">> \notin reported' => v \in current'
                      /\ <<v, "role">> \notin reported' =>
                            v \in logins' /\ (v \in sudoers' <=> role'[v] = "admin")
    BY DEF DriftIsReported
  <2>1. CASE v = u
    BY <2>1, <1>1, <1>3 DEF Create
  <2>2. CASE v # u
    <3>1. v \in Known /\ role'[v] = role[v]
      BY <2>2, <1>1, <1>2 DEF Known
    <3>2. \A x \in Aspects : <<v, x>> \in reported' <=> <<v, x>> \in reported
      BY <2>2 DEF Create, Drift
    <3> QED BY <2>2, <3>1, <3>2, <1>3 DEF Create, DriftIsReported, Aspects
  <2> QED BY <2>1, <2>2
<1> QED BY <1>1, <1>4, <1>7

\* The user is gone again, or is in the store and in the error answer.
LEMMA CreateFailsKeepsAccounts ==
    ASSUME AccountsInv, NEW c, NEW u \in Names, NEW r \in Roles,
           NEW G \in AtMostOneGroup, CreateFails(c, u, r, G)
    PROVE  AccountsInv'
<1> USE DEF AccountsInv
<1>1. /\ u \notin Known /\ role[u] = "none" /\ current' = current /\ late' \subseteq late
      /\ logins \subseteq logins' /\ logins' \subseteq logins \cup {u}
      /\ sudoers' \subseteq logins' /\ sudoers' \ {u} = sudoers \ {u}
  BY StartsKeepsLate DEF CreateFails, MayCreate, SudoersWith, Known, AccountsTypeOK
<1>2. CASE UNCHANGED <<storeVars, reported>>
  <2>1. UNCHANGED <<role, active, groups, members, reported>> /\ Known' = Known
    BY <1>2 DEF storeVars, Known
  <2>2. AccountsTypeOK'
    BY <1>1, <2>1 DEF AccountsTypeOK
  <2>3. AdminRemains' /\ GroupsPartition'
    BY <2>1 DEF AdminRemains, GroupsPartition
  <2>4. DriftIsReported'
    BY <1>1, <2>1 DEF DriftIsReported
  <2> QED BY <2>2, <2>3, <2>4
<1>3. CASE Enter(u, r, G) /\ reported' = reported \cup Drift(u)
  <2>1. /\ role' \in [Names -> Roles \cup {"none"}]
        /\ \A v \in Names \ {u} : role'[v] = role[v]
        /\ Known' = Known \cup {u} /\ active' \subseteq Known'
        /\ groups' = groups /\ members' \in [Groups -> SUBSET Names]
        /\ AdminRemains' /\ GroupsPartition'
    BY <1>1, <1>3, Enters
  <2>2. AccountsTypeOK'
    BY <1>1, <1>3, <2>1 DEF AccountsTypeOK, Drift
  <2>3. DriftIsReported'
    BY <1>1, <1>3, <2>1 DEF DriftIsReported, Drift, Aspects, Known
  <2> QED BY <2>1, <2>2, <2>3
<1> QED BY <1>2, <1>3 DEF CreateFails

\* What update_user leaves: where it takes an admin's role or account away,
\* there is another.
LEMMA UpdateKeepsAccounts ==
    ASSUME AccountsInv, NEW c, NEW u \in Names, NEW r \in Roles \cup {"keep"},
           NEW on \in {"on", "off", "keep"}, NEW G \in AtMostOneGroup \cup {{"keep"}},
           Update(c, u, r, on, G)
    PROVE  AccountsInv'
<1> USE DEF AccountsInv
<1> DEFINE s == RoleAfter(u, r)
<1>1. /\ s \in Roles /\ u \in Known /\ role' \in [Names -> Roles \cup {"none"}]
      /\ role'[u] = s
      /\ \A v \in Names \ {u} : role'[v] = role[v]
      /\ r = "keep" => s = role[u]
      /\ r # "keep" => s = r
  BY DEF Update, AccountsTypeOK, Roles, Known, RoleAfter
<1>2. Known' = Known
  BY <1>1 DEF Known, Roles
<1>3. active' \in {active \cup {u}, active \ {u}, active}
  BY DEF Update
<1>4. members' = members \/ (G \in AtMostOneGroup /\ members' = MovedTo(u, G))
  BY DEF Update
<1>5. sudoers' \ {u} = sudoers \ {u} /\ sudoers' \subseteq logins
  BY DEF Update, SudoersWith, AccountsTypeOK
<1>6. UNCHANGED <<groups, logins, current>> /\ late' \subseteq late
  BY StartsKeepsLate DEF Update
<1>7. \A v \in Names, x \in Aspects :
         v # u \/ x # "role" => (<<v, x>> \in reported' <=> <<v, x>> \in reported)
  BY DEF Update
<1>8. reported' \subseteq Names \X Aspects
  BY DEF Update, AccountsTypeOK, Aspects
<1>9. AccountsTypeOK'
  BY <1>1, <1>2, <1>3, <1>4, <1>5, <1>6, <1>8, MovedToKeepsGroups DEF AccountsTypeOK
<1>10. AdminRemains'
  <2>1. /\ role[u] = "admin" /\ s # "admin" => Cardinality(ActiveAdmins) > 1
        /\ on = "off" /\ s = "admin" => Cardinality(AdminsAfter(u, r)) > 1
    BY DEF Update, MayUpdate
  <2>2. /\ ActiveAdmins \subseteq Names /\ AdminsAfter(u, r) \subseteq Names
        /\ \A v \in AdminsAfter(u, r) \ {u} : v \in active /\ role[v] = "admin"
    BY KnownNames DEF ActiveAdmins, AdminsAfter
  <2>3. CASE \E v \in active \ {u} : role[v] = "admin"
    BY <2>3, <1>1, <1>3, KnownNames DEF AdminRemains
  <2>4. CASE ~ \E v \in active \ {u} : role[v] = "admin"
    <3>1. u \in active /\ role[u] = "admin"
      BY <2>4 DEF AdminRemains
    <3>2. ~(Cardinality(ActiveAdmins) > 1) /\ ~(Cardinality(AdminsAfter(u, r)) > 1)
      BY <2>2, <2>4, AnotherOne DEF ActiveAdmins
    <3>3. s = "admin" /\ on # "off"
      BY <2>1, <3>1, <3>2
    <3>4. u \in active'
      BY <3>1, <3>3 DEF Update
    <3> QED BY <3>3, <3>4, <1>1 DEF AdminRemains
  <2> QED BY <2>3, <2>4
<1>11. GroupsPartition'
  BY <1>1, <1>2, <1>4, <1>6, MovedToKeepsGroups DEF GroupsPartition
<1>12. DriftIsReported'
  <2> SUFFICES ASSUME NEW v \in Known
               PROVE  /\ <<v, "password">> \notin reported' => v \in current
                      /\ <<v, "role">> \notin reported' =>
                            v \in logins /\ (v \in sudoers' <=> role'[v] = "admin")
    BY <1>2, <1>6 DEF DriftIsReported
  <2>1. <<v, "password">> \notin reported' => v \in current
    BY <1>7 DEF DriftIsReported, Aspects, Known
  <2>2. CASE v # u
    BY <2>1, <2>2, <1>1, <1>5, <1>7 DEF DriftIsReported, Aspects, Known
  <2>3. CASE v = u /\ r = "keep"
    BY <2>1, <2>3, <1>1 DEF Update, DriftIsReported
  <2>4. CASE v = u /\ r # "keep"
    BY <2>1, <2>4, <1>1 DEF Update, SudoersWith
  <2> QED BY <2>2, <2>3, <2>4
<1> QED BY <1>9, <1>10, <1>11, <1>12

LEMMA SetPasswordKeepsAccounts ==
    ASSUME AccountsInv, NEW u \in Names, SetPassword(u), late' \subseteq late
    PROVE  AccountsInv'
<1> USE DEF AccountsInv
<1>1. UNCHANGED <<role, active, groups, members, logins, sudoers>> /\ Known' = Known
  BY DEF SetPassword, storeVars, Known
<1>2. AccountsTypeOK'
  BY <1>1 DEF SetPassword, AccountsTypeOK, Aspects
<1>3. AdminRemains' /\ GroupsPartition'
  BY <1>1 DEF AdminRemains, GroupsPartition
<1>4. \A v \in Names : <<v, "role">> \in reported' <=> <<v, "role">> \in reported
  BY DEF SetPassword
<1>5. ASSUME NEW v \in Known, <<v, "password">> \notin reported'
      PROVE  v \in current'
  BY <1>5 DEF SetPassword, DriftIsReported
<1>6. DriftIsReported'
  BY <1>1, <1>4, <1>5 DEF DriftIsReported, Known
<1> QED BY <1>2, <1>3, <1>6

\* What delete_user leaves: where it deletes an active admin, there is another.
LEMMA DeleteKeepsAccounts ==
    ASSUME AccountsInv, NEW c, NEW u \in Names, Delete(c, u)
    PROVE  AccountsInv'
<1> USE DEF AccountsInv
<1>1. /\ logins' = logins \ {u} /\ sudoers' = sudoers \ {u} /\ current' = current \ {u}
      /\ late' \subseteq late
  BY StartsKeepsLate DEF Delete
<1>2. CASE MayDelete(c.actor, u)
  <2>1. /\ role' \in [Names -> Roles \cup {"none"}]
        /\ role'[u] = "none"
        /\ \A v \in Names \ {u} : role'[v] = role[v]
    BY <1>2 DEF Delete, AccountsTypeOK
  <2>2. Known' = Known \ {u}
    BY <2>1 DEF Known
  <2>3. /\ active' = active \ {u} /\ groups' = groups
        /\ members' = MovedTo(u, {}) /\ {} \in AtMostOneGroup
        /\ reported' = reported \ Drift(u)
    BY <1>2 DEF Delete, AtMostOneGroup
  <2>4. AccountsTypeOK'
    BY <1>1, <2>1, <2>2, <2>3, MovedToKeepsGroups DEF AccountsTypeOK
  <2>5. AdminRemains'
    <3>1. CASE u \in ActiveAdmins
      <4>1. Cardinality(ActiveAdmins) > 1 /\ ActiveAdmins \subseteq Names
        BY <1>2, <3>1, KnownNames DEF MayDelete, Known
      <4>2. PICK v \in ActiveAdmins : v # u
        BY <4>1, AnotherOne
      <4> QED BY <4>1, <4>2, <2>1, <2>3 DEF ActiveAdmins, AdminRemains
    <3>2. CASE u \notin ActiveAdmins
      BY <3>2, <2>1, <2>3, KnownNames DEF ActiveAdmins, AdminRemains
    <3> QED BY <3>1, <3>2
  <2>6. GroupsPartition'
    BY <2>2, <2>3, MovedToKeepsGroups DEF GroupsPartition
  <2>7. \A v \in Names \ {u}, x \in Aspects : <<v, x>> \in reported' <=> <<v, x>> \in reported
    BY <2>3 DEF Drift
  <2>8. DriftIsReported'
    BY <1>1, <2>1, <2>2, <2>7 DEF DriftIsReported, Known, Aspects
  <2> QED BY <2>4, <2>5, <2>6, <2>8
<1>3. CASE ~MayDelete(c.actor, u)
  <2>1. UNCHANGED <<role, active, groups, members>> /\ Known' = Known
    BY <1>3 DEF Delete, storeVars, Known
  <2>2. reported' = reported \cup (IF u \in Known THEN Drift(u) ELSE {})
    BY <1>3 DEF Delete
  <2>3. AccountsTypeOK'
    BY <1>1, <2>1, <2>2 DEF AccountsTypeOK, Drift
  <2>4. AdminRemains' /\ GroupsPartition'
    BY <2>1 DEF AdminRemains, GroupsPartition
  <2>5. DriftIsReported'
    BY <1>1, <2>1, <2>2 DEF DriftIsReported, Drift, Aspects
  <2> QED BY <2>3, <2>4, <2>5
<1> QED BY <1>2, <1>3

LEMMA DeleteFailsKeepsAccounts ==
    ASSUME AccountsInv, NEW c, NEW u \in Names, DeleteFails(c, u)
    PROVE  AccountsInv'
<1> USE DEF AccountsInv
<1>1. UNCHANGED <<role, active, groups, members>> /\ Known' = Known /\ late' \subseteq late
  BY StartsKeepsLate DEF DeleteFails, storeVars, Known
<1>2. /\ logins' \subseteq logins /\ logins \subseteq logins' \cup {u}
      /\ sudoers' \subseteq sudoers /\ sudoers \subseteq sudoers' \cup {u}
      /\ current' \subseteq current /\ current \subseteq current' \cup {u}
      /\ sudoers' \subseteq logins' /\ current' \subseteq logins'
  BY DEF DeleteFails, linuxVars, AccountsTypeOK
<1>3. reported' = reported \cup (IF u \in Known THEN Drift(u) ELSE {})
  BY DEF DeleteFails
<1>4. AccountsTypeOK'
  BY <1>1, <1>2, <1>3 DEF AccountsTypeOK, Drift
<1>5. AdminRemains' /\ GroupsPartition'
  BY <1>1 DEF AdminRemains, GroupsPartition
<1>6. DriftIsReported'
  BY <1>1, <1>2, <1>3 DEF DriftIsReported, Drift, Aspects
<1> QED BY <1>4, <1>5, <1>6

\* The requests about a group do not touch the users.
LEMMA GroupsStep ==
    ASSUME AccountsInv, UNCHANGED <<role, active, linuxVars, reported>>, AdminStarts,
           groups' \subseteq Groups, members' \in [Groups -> SUBSET Names],
           GroupsPartition'
    PROVE  AccountsInv'
BY DEF AccountsInv, AdminStarts, linuxVars, AccountsTypeOK, Known, AdminRemains, DriftIsReported

LEMMA CreateGroupKeepsAccounts ==
    ASSUME AccountsInv, NEW g \in Groups, NEW M \in SUBSET Names, CreateGroup(g, M)
    PROVE  AccountsInv'
<1>1. /\ UNCHANGED <<role, active, linuxVars, reported>> /\ Known' = Known /\ AdminStarts
      /\ groups' = groups \cup {g}
      /\ M \subseteq Known /\ FreeFor(M, g)
  BY DEF CreateGroup, Known
<1>2. /\ members' \in [Groups -> SUBSET Names]
      /\ \A h \in Groups : members'[h] = IF h = g THEN M ELSE members[h]
  BY DEF CreateGroup, AccountsInv, AccountsTypeOK
<1>3. \A h \in Groups \ {g} : M \cap members[h] = {}
  BY <1>1 DEF FreeFor, AccountsInv, GroupsPartition
<1>4. GroupsPartition'
  BY <1>1, <1>2, <1>3 DEF AccountsInv, GroupsPartition
<1>5. groups' \subseteq Groups
  BY <1>1 DEF AccountsInv, AccountsTypeOK
<1> QED BY <1>1, <1>2, <1>4, <1>5, GroupsStep

LEMMA UpdateGroupKeepsAccounts ==
    ASSUME AccountsInv, NEW g \in Groups, NEW h \in Groups, NEW M \in SUBSET Names,
           UpdateGroup(g, h, M)
    PROVE  AccountsInv'
<1>1. /\ UNCHANGED <<role, active, linuxVars, reported>> /\ Known' = Known /\ AdminStarts
      /\ groups' = (groups \ {g}) \cup {h}
      /\ M \subseteq Known /\ FreeFor(M, g)
  BY DEF UpdateGroup, Known
<1>2. /\ members' \in [Groups -> SUBSET Names]
      /\ \A k \in Groups :
            members'[k] = IF k = h THEN M ELSE IF k = g THEN {} ELSE members[k]
  BY DEF UpdateGroup, AccountsInv, AccountsTypeOK
<1>3. \A k \in Groups \ {g} : M \cap members[k] = {}
  BY <1>1 DEF FreeFor, AccountsInv, GroupsPartition
<1>4. GroupsPartition'
  BY <1>1, <1>2, <1>3 DEF AccountsInv, GroupsPartition
<1>5. groups' \subseteq Groups
  BY <1>1 DEF AccountsInv, AccountsTypeOK
<1> QED BY <1>1, <1>2, <1>4, <1>5, GroupsStep

LEMMA DeleteGroupKeepsAccounts ==
    ASSUME AccountsInv, NEW g \in Groups, DeleteGroup(g)
    PROVE  AccountsInv'
<1>1. /\ UNCHANGED <<role, active, linuxVars, reported>> /\ Known' = Known /\ AdminStarts
      /\ groups' = groups \ {g}
  BY DEF DeleteGroup, Known
<1>2. /\ members' \in [Groups -> SUBSET Names]
      /\ \A h \in Groups : members'[h] = IF h = g THEN {} ELSE members[h]
  BY DEF DeleteGroup, AccountsInv, AccountsTypeOK
<1>3. GroupsPartition'
  BY <1>1, <1>2 DEF AccountsInv, GroupsPartition
<1>4. groups' \subseteq Groups
  BY <1>1 DEF AccountsInv, AccountsTypeOK
<1> QED BY <1>1, <1>2, <1>3, <1>4, GroupsStep

LEMMA AccountsStep == AccountsInv /\ [AccountsNext]_vars => AccountsInv'
<1> SUFFICES ASSUME AccountsInv, [AccountsNext]_vars PROVE AccountsInv'
  OBVIOUS
<1>1. CASE UNCHANGED vars
  BY <1>1 DEF AccountsInv, vars, storeVars, linuxVars, AccountsTypeOK, Known,
     AdminRemains, GroupsPartition, DriftIsReported
<1>2. ASSUME NEW c, NEW u \in Names, ResetPassword(c, u)
      PROVE  AccountsInv'
  BY <1>2, StartsKeepsLate, SetPasswordKeepsAccounts DEF ResetPassword
<1>3. ASSUME NEW u \in Names, ChangeOwnPassword(u) \/ UseLink(u)
      PROVE  AccountsInv'
  BY <1>3, SetPasswordKeepsAccounts DEF ChangeOwnPassword, UseLink
<1>4. ASSUME NEW c, NEW u \in Names,
             \/ \E r \in Roles \cup {"keep"}, on \in {"on", "off", "keep"} :
                   Update(c, u, r, on, {"keep"})
             \/ \E G \in AtMostOneGroup : Update(c, u, "keep", "keep", G)
      PROVE  AccountsInv'
  BY <1>4, UpdateKeepsAccounts
<1> QED
  BY <1>1, <1>2, <1>3, <1>4, LetThroughKeepsAccounts, CreateKeepsAccounts, CreateFailsKeepsAccounts,
     DeleteKeepsAccounts, DeleteFailsKeepsAccounts, CreateGroupKeepsAccounts,
     UpdateGroupKeepsAccounts, DeleteGroupKeepsAccounts
     DEF AccountsNext

LEMMA AccountsInvariant == AccountsSpec => []AccountsInv
BY AccountsInitHolds, AccountsStep, PTL DEF AccountsSpec

\* One active admin remains, whatever admins and group-admins do to each
\* other and to themselves.
THEOREM AnAdminRemains == AccountsSpec => []AdminRemains
<1>1. AccountsInv => AdminRemains
  BY DEF AccountsInv
<1> QED BY <1>1, AccountsInvariant, PTL

\* Nobody is in two groups, and only users are in groups, for any number of
\* users and groups.
THEOREM GroupsStayApart == AccountsSpec => []GroupsPartition
<1>1. AccountsInv => GroupsPartition
  BY DEF AccountsInv
<1> QED BY <1>1, AccountsInvariant, PTL

\* The store and Linux agree on every user the last request about which was
\* not answered with an error.
THEOREM DriftGetsReported == AccountsSpec => []DriftIsReported
<1>1. AccountsInv => DriftIsReported
  BY DEF AccountsInv
<1> QED BY <1>1, AccountsInvariant, PTL
=============================================================================
