------------------------------ MODULE NSXTTasks ------------------------------
(***************************************************************************)
(* The tasks of the NSX-T infrastructure ensurer: which tasks there are,   *)
(* in which order they run, what the object of a task is a child of, and   *)
(* which references of the infrastructure state it is built from.          *)
(*                                                                         *)
(* A task is named by a short string:                                      *)
(*   t0 tz ec pool  look up tier-0 gateway, transport zone, edge cluster   *)
(*                  and SNAT IP pool by their configured names;            *)
(*   t1 ls          tier-1 gateway and its locale service;                 *)
(*   dhcp seg       DHCP server config (NSX-T 3 only) and segment;         *)
(*   alloc ip rule  SNAT IP allocation, its realized address, SNAT rule;   *)
(*   lsw prof srv port ipp   (NSX-T 2.5 only) logical switch lookup, DHCP  *)
(*                  profile, server, port and IP pool (Advanced API).      *)
(***************************************************************************)
EXTENDS Naturals, Sequences, FiniteSets

CONSTANTS
  NSXT3,       \* the version determined from the manager: TRUE for NSX-T 3.0, FALSE for 2.5
  ExternalT1   \* the shoot uses a tier-1 gateway that it does not own

ASSUME NSXT3Assumption == NSXT3 \in BOOLEAN
ASSUME ExternalT1Assumption == ExternalT1 \in BOOLEAN

-----------------------------------------------------------------------------
(* References are naturals: an id or a name; Nil is the nil pointer.       *)
Nil == 0
Ref == Nat

NameLookup == {"t0", "tz", "ec", "pool"}
Lookup     == NameLookup \union {"ip", "lsw"}
Advanced   == {"prof", "srv", "port", "ipp"}
Managed    == {"t1", "ls", "dhcp", "seg", "alloc", "rule"} \union Advanced
Task       == Lookup \union Managed

\* Inputs of the spec: the looked-up names, and "net": DNS servers and DHCP options.
Input == NameLookup \union {"net"}
Attr  == Task \union {"net"}

\* getTasks: the order of creation; deletion runs it backwards. The list goes
\* by the version in the state, here whether that is the one for NSX-T 3.0.
TasksOf(nsxt3) ==
  <<"t0", "tz", "ec", "pool", "t1", "ls">>
    \o (IF nsxt3 THEN <<"dhcp">> ELSE << >>)
    \o <<"seg", "alloc", "ip", "rule">>
    \o (IF nsxt3 THEN << >> ELSE <<"lsw", "prof", "srv", "port", "ipp">>)

\* The tasks of the version that is determined from the manager.
Tasks == TasksOf(NSXT3)

\* The task kinds whose objects a shoot with these tasks has to have.
IsExternal(k) == ExternalT1 /\ k \in {"t1", "ls"}
RequiredOf(tasks) == {k \in Managed : ~IsExternal(k) /\ (\E n \in DOMAIN tasks : tasks[n] = k)}
Required == RequiredOf(Tasks)

\* The task whose reference is the path under which the object of k lives.
Parents == [k \in Managed |->
  IF k \in {"ls", "rule"} THEN "t1"
  ELSE IF k = "alloc" THEN "pool"
  ELSE IF k = "ipp" THEN "srv"
  ELSE "root"]

\* The inputs and references which Ensure writes into the object of k.
UsesOf(nsxt3) == [k \in Managed |->
  IF k = "t1" THEN {"t0"}
  ELSE IF k \in {"ls", "dhcp", "prof"} THEN {"ec"}
  ELSE IF k = "seg" THEN {"t1", "tz"} \union (IF nsxt3 THEN {"dhcp", "net"} ELSE {})
  ELSE IF k = "rule" THEN {"ip"}
  ELSE IF k = "srv" THEN {"prof", "net"}
  ELSE IF k = "port" THEN {"lsw", "srv"}
  ELSE {}]
Uses == UsesOf(NSXT3)

\* The kind of object an attribute points to: an address points to its
\* allocation, a logical switch to its segment.
Target(a) == IF a = "ip" THEN "alloc" ELSE IF a = "lsw" THEN "seg" ELSE a
=============================================================================
