---------------------------------- MODULE Cni ----------------------------------
(***************************************************************************)
(* A call of the CNI plugin from its start: init, which mounts the network *)
(* namespace of a sandbox where `ip netns` finds it, then DoCmdAdd or      *)
(* DoCmdDel, whose address management is Ipam's.                           *)
(*                                                                         *)
(* The mount is needed when CNI_NETNS is not below /var/run/netns/.  It is *)
(* two steps, a file created and a mount command, and is skipped when the  *)
(* file exists: a file left empty, by a command that failed or a process   *)
(* that died, is never mounted later.  The error is only logged.           *)
(***************************************************************************)
EXTENDS Ipam

CONSTANT Elsewhere  \* the sandboxes whose CNI_NETNS is not below /var/run/netns/

ASSUME ElsewhereAssumption == Elsewhere \subseteq Sandbox

VARIABLE nsFile     \* the file of each of them below /var/run/netns/

cniVars == <<ipamVars, nsFile>>

CniInit == Init /\ nsFile = [sb \in Elsewhere |-> "none"]

FileBecomes(sb, f) == nsFile' = [nsFile EXCEPT ![sb] = f]

\* osutil.Exists: no look at what the file is.
Exists(sb) == nsFile[sb] # "none"

\* Create, then mount --bind, which may fail.
BindMount(sb) ==
  sb \in Elsewhere /\ ~Exists(sb) /\ \E f \in {"empty", "bound"} : FileBecomes(sb, f)

MountNetNSIfNeeded(sb) ==
  \/ BindMount(sb)
  \/ (sb \in Elsewhere => Exists(sb)) /\ UNCHANGED nsFile

\* The process of an ADD ends in init, with the mount made or not: the error of
\* DoInit ends nothing, so it was killed.  kubelet may call ADD again.
InitDies(sb) == pc[sb] = "new" /\ BindMount(sb) /\ UNCHANGED ipamVars

\* DoInit, whatever came of it, and DoCmdAdd up to the write of Allocate.
AddBegins(sb) ==
  /\ Allocate(sb) \/ AllocateNone(sb) \/ AllocatePanics(sb)
  /\ MountNetNSIfNeeded(sb)

\* The error of GetNS is not looked at, as those of LinkSetNsFd and LinkSetName
\* are not.
ActivateInterfaceBug(sb) == (Activate(sb) \/ ActivateFails(sb)) /\ UNCHANGED nsFile

\* GetNS refuses a file that is no namespace; any other step may fail too.  An
\* interface just added is not up, so the early return for one is not taken.
ActivateInterface(sb) ==
  /\ \/ (sb \in Elsewhere => nsFile[sb] = "bound") /\ Activate(sb)
     \/ ActivateFails(sb)
  /\ UNCHANGED nsFile

\* ip netns delete unmounts the file and removes it.
NetNSDeleted(sb) ==
  /\ DeleteNetNS(sb)
  /\ IF sb \in Elsewhere THEN FileBecomes(sb, "none") ELSE UNCHANGED nsFile

\* A call that has begun runs to its end, unless it is killed.
RunsOn(sb) ==
  \/ (Create(sb) \/ Write(sb)) /\ UNCHANGED nsFile
  \/ ActivateInterface(sb)
  \/ NetNSDeleted(sb)

\* DoInit mounts nothing for a DEL.
DelBegins(sb) == (Deallocate(sb) \/ DeallocateNoVpc(sb)) /\ UNCHANGED nsFile

CallKilled(sb) == Killed(sb) /\ UNCHANGED nsFile

CniNext ==
  \E sb \in Sandbox :
    InitDies(sb) \/ AddBegins(sb) \/ RunsOn(sb) \/ DelBegins(sb) \/ CallKilled(sb)

CniSpec == CniInit /\ [][CniNext]_cniVars

\* kubelet deletes every sandbox some day, and no call of the plugin hangs.
CniFairSpec ==
  /\ CniSpec
  /\ \A sb \in Sandbox : WF_cniVars(RunsOn(sb) \/ (pc[sb] # "gone" /\ DelBegins(sb)))

-----------------------------------------------------------------------------
(* Properties.                                                             *)

NsFileTypeOK == nsFile \in [Elsewhere -> {"none", "empty", "bound"}]

\* A sandbox whose ADD succeeded has its namespace mounted where the interface
\* was moved to, although a mount that fails or is cut short goes unnoticed, is
\* never made good, and a DEL removes the file: only activating the interface
\* stands in between.
Connected == \A sb \in Elsewhere : pc[sb] = "running" => nsFile[sb] = "bound"
================================================================================
