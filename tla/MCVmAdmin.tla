------------------------------ MODULE MCVmAdmin ------------------------------
(* An instance of VmRegistry and of Provisioning for TLC.  The provisioning  *)
(* jobs look at no subnet or route and touch none, so a behaviour has steps  *)
(* of one of the two only.  Subnet "wide" contains "narrow", and "part" is   *)
(* inside "other", which the host routes elsewhere.  No guard asks for the   *)
(* machine behind an id, so one machine is where most scripts could meet.    *)
EXTENDS VmRegistry, Provisioning

VARIABLE side   \* whose steps these are

adminVars == <<side, registryVars, provisionVars>>

AddressSpace == {"wide", "narrow", "other", "part"}
Inside == {<<"narrow", "wide">>, <<"part", "other">>}
Containment == {<<s, t>> \in AddressSpace \X AddressSpace :
                   s = t \/ <<s, t>> \in Inside \/ <<t, s>> \in Inside}

VmAdminInit ==
    /\ side \in {"registry", "provisioning"}
    /\ RegistryInit /\ ProvisionInit
    /\ side = "registry" => address = [v \in Vms |-> "none"]

VmAdminNext ==
    /\ UNCHANGED side
    /\ \/ side = "registry" /\ RegistryNext /\ UNCHANGED provisionVars
       \/ side = "provisioning" /\ ProvisionNext /\ UNCHANGED registryVars

VmAdminSpec == VmAdminInit /\ [][VmAdminNext]_adminVars

Interchangeable == Permutations(ProvisionJobs)
=============================================================================
