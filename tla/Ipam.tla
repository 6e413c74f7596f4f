--------------------------------- MODULE Ipam ---------------------------------
(***************************************************************************)
(* Address management of the CNI plugin: ipam.Allocate and ipam.Deallocate *)
(* as DoCmdAdd and DoCmdDel call them.  Every call of the plugin is a      *)
(* process of its own, which may be killed; all of them read and rewrite   *)
(* one file, Allocated, without a lock, and writing it is two steps:       *)
(* os.Create empties it, then WriteString fills it.  A second file,        *)
(* PodCidr, is written by the node handler of the connection manager.      *)
(*                                                                         *)
(* Allocated maps a vpc to addresses to "name|id" of a pod; the plugin     *)
(* uses one vpc, "1".  An entry is modelled by its pod sandbox: its id is  *)
(* the sandbox, its name is NameOf of it.                                  *)
(*                                                                         *)
(* A definition named ...Bug is a plausible mistake in the next one.       *)
(***************************************************************************)
EXTENDS Integers, Sequences, FiniteSets

CONSTANTS
  Sandbox,   \* the pod sandboxes kubelet sets up on this node
  NameOf,    \* the pod name of each, which says nothing of the namespace
  Network,   \* the network address of the pod CIDR, a sequence of bytes
  Prefix,    \* how many of its bytes the mask covers
  ByteBase,  \* what a byte overflows at: 256
  MaxKills,  \* bound: calls of the plugin that are killed or panic
  Nil,       \* no sandbox, no address
  Empty,     \* a missing or empty file
  Torn       \* a file that json.Unmarshal rejects

ASSUME CidrAssumption ==
  /\ ByteBase \in Nat \ {0, 1}
  /\ Prefix \in 1 .. Len(Network)
  /\ Network \in Seq(0 .. ByteBase - 1)
  /\ \A j \in (Prefix + 1) .. Len(Network) : Network[j] = 0
ASSUME SandboxAssumption == Nil \notin Sandbox
ASSUME MaxKillsAssumption == MaxKills \in Nat

-----------------------------------------------------------------------------
(* The walk over the pod CIDR.                                             *)

\* inc: bytes overflow to the left.
Inc(ip) ==
  LET j == CHOOSE i \in 0 .. Len(ip) :
             /\ i > 0 => ip[i] # ByteBase - 1
             /\ \A k \in (i + 1) .. Len(ip) : ip[k] = ByteBase - 1
  IN [i \in DOMAIN ip |-> IF i < j THEN ip[i] ELSE IF i = j THEN ip[i] + 1 ELSE 0]

\* ipnet.Contains
Contains(ip) == \A j \in 1 .. Prefix : ip[j] = Network[j]

IpType == [1 .. Len(Network) -> 0 .. ByteBase - 1]

\* How many addresses there are in the pod CIDR: no walk in it is longer.
CidrSize == Cardinality({ip \in IpType : Contains(ip)})

\* The address the walk of Allocate is at after n turns.
Walk[n \in 0 .. CidrSize] == IF n = 0 THEN Network ELSE Inc(Walk[n - 1])

\* The broadcast address is left out.
TurnBug == {n \in 2 .. (CidrSize - 1) : \A m \in 0 .. (n + 1) : Contains(Walk[m])}

\* The turns on which an address may be given out: the walk is still inside
\* the CIDR, and skips the network address and the gateway.
Turn == {n \in 2 .. CidrSize : \A m \in 0 .. n : Contains(Walk[m])}

\* Every address of the pod CIDR but the first two.
Addr ==
  {ip \in IpType :
     /\ Contains(ip)
     /\ \E j \in (Prefix + 1) .. Len(Network) :
          ip[j] > (IF j = Len(Network) THEN 1 ELSE 0)}

IpSet == [Addr -> Sandbox \cup {Nil}]

ASSUME NilAssumption == Nil \notin Addr
ASSUME FileAssumption == Empty \notin IpSet /\ Torn \notin IpSet /\ Empty # Torn

-----------------------------------------------------------------------------
VARIABLES
  file,   \* the content of Allocated
  pc,     \* where the plugin is with each sandbox
  buf,    \* the ipSet a call has read and changed, to be written
  addr,   \* the address a sandbox was given, while it may use it
  kills,  \* calls killed so far, or ended by a panic
  disturbed  \* history: calls have run at the same time, one was killed that
             \* had emptied the file or freed its address, or one has freed the
             \* address of another pod of the same name

ipamVars == <<file, pc, buf, addr, kills, disturbed>>

NoAddr == [a \in Addr |-> Nil]

Init ==
  /\ file = Empty
  /\ pc = [sb \in Sandbox |-> "new"]
  /\ buf = [sb \in Sandbox |-> NoAddr]
  /\ addr = [sb \in Sandbox |-> Nil]
  /\ kills = 0
  /\ disturbed = FALSE

Resting == {"new", "running", "failed", "gone"}

\* kubelet calls the plugin, whether or not another call is under way.
Overlaps == \E sb \in Sandbox : pc[sb] \notin Resting
CallBegins == disturbed' = (disturbed \/ Overlaps)

\* What json.Unmarshal leaves in the map: nothing, if there is an error.
Read == IF file \in {Empty, Torn} THEN NoAddr ELSE file

\* No look at what is taken.
FreeBug(ipSet) == Turn

\* The turns at which the walk meets a free address.
Free(ipSet) == {n \in Turn : ipSet[Walk[n]] = Nil}

FirstFree == Walk[CHOOSE n \in Free(Read) : \A m \in Free(Read) : n <= m]

\* The address given out is not the one written down.
AllocateBug(sb) ==
  /\ pc[sb] = "new"
  /\ CallBegins
  /\ Free(Read) # {}
  /\ \E n \in Free(Read) : addr' = [addr EXCEPT ![sb] = Walk[n]]
  /\ buf' = [buf EXCEPT ![sb] = [Read EXCEPT ![FirstFree] = sb]]
  /\ pc' = [pc EXCEPT ![sb] = "add-create"]
  /\ UNCHANGED <<file, kills>>

\* Allocate up to its write: the first free address of the pod CIDR.
Allocate(sb) ==
  /\ pc[sb] = "new"
  /\ CallBegins
  /\ Free(Read) # {}
  /\ addr' = [addr EXCEPT ![sb] = FirstFree]
  /\ buf' = [buf EXCEPT ![sb] = [Read EXCEPT ![FirstFree] = sb]]
  /\ pc' = [pc EXCEPT ![sb] = "add-create"]
  /\ UNCHANGED <<file, kills>>

\* The address on which the walk ends is given out.
AllocateNoneBug(sb) ==
  /\ pc[sb] = "new"
  /\ CallBegins
  /\ Free(Read) = {}
  /\ addr' = [addr EXCEPT ![sb] = Walk[CidrSize]]
  /\ pc' = [pc EXCEPT ![sb] = "activate"]
  /\ UNCHANGED <<file, buf, kills>>

\* Allocate returns no address; ActivateInterface then fails.
AllocateNone(sb) ==
  /\ pc[sb] = "new"
  /\ CallBegins
  /\ Free(Read) = {}
  /\ pc' = [pc EXCEPT ![sb] = "failed"]
  /\ UNCHANGED <<file, buf, addr, kills>>

\* ParseCIDR of an empty text gives no network, and Allocate panics: there is
\* no PodCidr yet, or the node handler is between emptying and writing it, as it
\* does for every event of its own node.
AllocatePanics(sb) ==
  /\ pc[sb] = "new"
  /\ kills < MaxKills
  /\ kills' = kills + 1
  /\ CallBegins
  /\ pc' = [pc EXCEPT ![sb] = "failed"]
  /\ UNCHANGED <<file, buf, addr>>

\* WriteToFile, first step: os.Create truncates the file.
Create(sb) ==
  /\ \/ pc[sb] = "add-create" /\ pc' = [pc EXCEPT ![sb] = "add-write"]
     \/ pc[sb] = "del-create" /\ pc' = [pc EXCEPT ![sb] = "del-write"]
  /\ file' = Empty
  /\ UNCHANGED <<buf, addr, kills, disturbed>>

\* WriteToFile, second step.  Over what another call has written since, the
\* result is this text, or this text and the end of a longer one.
Write(sb) ==
  /\ \/ pc[sb] = "add-write" /\ pc' = [pc EXCEPT ![sb] = "activate"]
     \/ pc[sb] = "del-write" /\ pc' = [pc EXCEPT ![sb] = "del-netns"]
  /\ \/ file' = buf[sb]
     \/ file # Empty /\ file' = Torn
  /\ buf' = [buf EXCEPT ![sb] = NoAddr]
  /\ UNCHANGED <<addr, kills, disturbed>>

\* ActivateInterface gives the interface of the sandbox its address.
Activate(sb) ==
  /\ pc[sb] = "activate"
  /\ pc' = [pc EXCEPT ![sb] = "running"]
  /\ UNCHANGED <<file, buf, addr, kills, disturbed>>

\* ActivateInterface fails; the address stays allocated until the sandbox is
\* deleted, but nothing uses it.
ActivateFails(sb) ==
  /\ pc[sb] = "activate"
  /\ pc' = [pc EXCEPT ![sb] = "failed"]
  /\ UNCHANGED <<file, buf, addr, kills, disturbed>>

\* The entry deleted is any one, whatever its name.
DeallocateAnyBug(sb) ==
  /\ pc[sb] \in {"running", "failed", "gone"}
  /\ file \notin {Empty, Torn}
  /\ CallBegins
  /\ \E a \in Addr : buf' = [buf EXCEPT ![sb] = [file EXCEPT ![a] = Nil]]
  /\ pc' = [pc EXCEPT ![sb] = "del-create"]
  /\ UNCHANGED <<file, addr, kills>>

\* The ipSet without the entry is not written.
DeallocateForgetBug(sb) ==
  /\ pc[sb] \in {"running", "failed", "gone"}
  /\ CallBegins
  /\ file \notin {Empty, Torn}
  /\ pc' = [pc EXCEPT ![sb] = "del-netns"]
  /\ UNCHANGED <<file, buf, addr, kills>>

\* Deallocate up to its write: one entry with the pod's name is deleted, any
\* of them (the order of a Go map).  kubelet repeats the call if it likes.
Deallocate(sb) ==
  /\ pc[sb] \in {"running", "failed", "gone"}
  /\ file \notin {Empty, Torn}
  /\ LET named == {a \in Addr : file[a] # Nil /\ NameOf[file[a]] = NameOf[sb]} IN
       \/ /\ named = {}
          /\ buf' = [buf EXCEPT ![sb] = file]
          /\ CallBegins
       \/ \E a \in named :
            /\ buf' = [buf EXCEPT ![sb] = [file EXCEPT ![a] = Nil]]
            /\ disturbed' = (disturbed \/ Overlaps \/ file[a] # sb)
  /\ pc' = [pc EXCEPT ![sb] = "del-create"]
  /\ UNCHANGED <<file, addr, kills>>

\* Deallocate returns early when the file has no vpc.
DeallocateNoVpc(sb) ==
  /\ pc[sb] \in {"running", "failed", "gone"}
  /\ CallBegins
  /\ file \in {Empty, Torn}
  /\ pc' = [pc EXCEPT ![sb] = "del-netns"]
  /\ UNCHANGED <<file, buf, addr, kills>>

\* The last step of DoCmdDel: with the network namespace the address goes out
\* of use.
DeleteNetNS(sb) ==
  /\ pc[sb] = "del-netns"
  /\ pc' = [pc EXCEPT ![sb] = "gone"]
  /\ addr' = [addr EXCEPT ![sb] = Nil]
  /\ UNCHANGED <<file, buf, kills, disturbed>>

\* The plugin is killed.  An address it has not come to use is out of use; any
\* other stays until kubelet repeats the DEL.
Killed(sb) ==
  /\ pc[sb] \notin Resting
  /\ kills < MaxKills
  /\ kills' = kills + 1
  /\ pc' = [pc EXCEPT ![sb] = "failed"]
  /\ buf' = [buf EXCEPT ![sb] = NoAddr]
  /\ addr' = IF pc[sb] \in {"add-create", "add-write"} THEN [addr EXCEPT ![sb] = Nil] ELSE addr
  /\ disturbed' = (disturbed \/ pc[sb] \in {"add-write", "del-write", "del-netns"})
  /\ UNCHANGED file

\* A call that has begun runs to its end, unless it is killed.
CallStep(sb) ==
  Create(sb) \/ Write(sb) \/ Activate(sb) \/ ActivateFails(sb) \/ DeleteNetNS(sb)

\* cmdAdd and cmdDel.
Kubelet(sb) ==
  \/ Allocate(sb) \/ AllocateNone(sb) \/ AllocatePanics(sb)
  \/ Deallocate(sb) \/ DeallocateNoVpc(sb)

Next == \E sb \in Sandbox : Kubelet(sb) \/ CallStep(sb) \/ Killed(sb)

Spec == Init /\ [][Next]_ipamVars

-----------------------------------------------------------------------------
(* Properties.                                                             *)

\* Every variable stays within its type; in particular every address given out
\* is one of the pod CIDR, and neither the network's nor the gateway's.
TypeOK ==
  /\ file \in IpSet \cup {Empty, Torn}
  /\ pc \in [Sandbox -> Resting \cup {"add-create", "add-write", "activate",
                                      "del-create", "del-write", "del-netns"}]
  /\ buf \in [Sandbox -> IpSet]
  /\ addr \in [Sandbox -> Addr \cup {Nil}]
  /\ kills \in 0 .. MaxKills
  /\ disturbed \in BOOLEAN

\* Unless something has disturbed the calls, no two sandboxes use one address
\* at the same time, from the moment one is chosen until the network namespace
\* is deleted.  ("todo Hong add a lock to avoid dirty read", ipam.go:35:
\* without the condition this fails after two steps.)
NoDuplicateAddress ==
  ~disturbed =>
    \A s, t \in Sandbox : s # t /\ addr[s] # Nil => addr[s] # addr[t]

\* However calls overlap, die, tear the file and overwrite what others wrote,
\* the file never names a sandbox at an address other than the one it was given.
NamesItsOwn ==
  \A a \in Addr, sb \in Sandbox :
    Read[a] = sb => pc[sb] # "new" /\ addr[sb] \in {a, Nil}

\* Between two calls, unless something has disturbed them, the file says
\* exactly which sandbox has which address: none is lost, none is left behind
\* by a sandbox that is gone, and the file can be read.
FileExact ==
  ~disturbed /\ ~Overlaps =>
    /\ file # Torn
    /\ \A a \in Addr, sb \in Sandbox : Read[a] = sb <=> addr[sb] = a

\* Every address is given out before one is refused: a call that ends without
\* one, and not by a panic, has found every one taken.
NoneOnlyWhenFull ==
  [][\A sb \in Sandbox :
       pc[sb] = "new" /\ pc'[sb] = "failed" /\ kills' = kills =>
         \A a \in Addr : Read[a] # Nil]_ipamVars

\* Time and again every address is back, out of use and free in the file: each
\* sandbox that has one gives it back, failed and refused calls or not, with
\* the same escape.
AddressReturned ==
  []<>(\/ disturbed
       \/ \A sb \in Sandbox : addr[sb] = Nil /\ \A a \in Addr : Read[a] # sb)
==============================================================================
