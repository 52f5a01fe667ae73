------------------------------- MODULE IfMon -------------------------------
(***************************************************************************)
(* The interface monitor: a thread that waits for the kernel to announce a *)
(* change, empties the announcements, reads the links and then the         *)
(* addresses in two requests, and compares the result with the list it     *)
(* reported last.  The kernel changes its tables at any time in between.   *)
(***************************************************************************)
EXTENDS Naturals, FiniteSets

CONSTANTS Ifaces,       \* the interfaces is_iface_allowed lets through
          Addr,         \* addresses with their prefix: [ip, prefix]
          MaxChanges,   \* bound: changes the kernel announces
          MaxFaults     \* bound: requests to the kernel that go wrong

ASSUME IfMonAssumption ==
    /\ IsFiniteSet(Ifaces) /\ IsFiniteSet(Addr)
    /\ \A a \in Addr : DOMAIN a = {"ip", "prefix"}
    /\ MaxChanges \in Nat /\ MaxFaults \in Nat

VARIABLES
    os,          \* the kernel's tables: whether a link is up, its addresses
    event,       \* event_fd is readable
    opened,      \* event_fd is open
    watch,       \* where the watcher is
    prev_list,   \* the list last reported: interface -> addresses
    curr_list,   \* the list being read
    blind,       \* history: the last list was read before event_fd was open,
                 \* or reading it failed
    changes, faults

ifmonVars == <<os, event, opened, watch, prev_list, curr_list, blind, changes,
               faults>>

Ips == {a.ip : a \in Addr}

EmptyList == [i \in {} |-> {}]

IfMonInit(table) ==
    /\ os = table
    /\ event = FALSE
    /\ opened = FALSE
    /\ watch = "dump_links"
    /\ prev_list = EmptyList
    /\ curr_list = EmptyList
    /\ blind = TRUE
    /\ changes = 0
    /\ faults = 0

-----------------------------------------------------------------------------
(* The kernel: an address comes or goes, a link goes up or down.           *)
KernelChange(i, link) ==
    /\ changes < MaxChanges
    /\ changes' = changes + 1
    /\ os' = [os EXCEPT ![i] = link]
    /\ event' = opened
    /\ UNCHANGED <<opened, watch, prev_list, curr_list, blind, faults>>

Change ==
    \E i \in Ifaces :
        \/ KernelChange(i, [os[i] EXCEPT !.up = ~@])
        \/ \E a \in Addr :
              KernelChange(i, [os[i] EXCEPT !.addrs = IF a \in @ THEN @ \ {a}
                                                      ELSE @ \cup {a}])

-----------------------------------------------------------------------------
(* poll returns and drain_socket empties the socket, before anything is    *)
(* read.                                                                   *)
Drain ==
    /\ watch = "poll"
    /\ event
    /\ event' = FALSE
    /\ blind' = FALSE
    /\ watch' = "dump_links"
    /\ UNCHANGED <<os, opened, prev_list, curr_list, changes, faults>>

Listed == {i \in Ifaces : os[i].up}

(* recv failed half way: the rest is missing and nobody is told.           *)
Cut(short) ==
    /\ short => faults < MaxFaults
    /\ faults' = IF short THEN faults + 1 ELSE faults
    /\ blind' = (blind \/ short)

(* ifmon_list_get asks for the links ...                                   *)
DumpLinks ==
    /\ watch = "dump_links"
    /\ watch' = "dump_addrs"
    /\ \E ifs \in SUBSET Listed :
          /\ Cut(ifs # Listed)
          /\ curr_list' = [i \in ifs |-> {}]
    /\ UNCHANGED <<os, event, opened, prev_list, changes>>

(* Mutant: the announcements are emptied after the list has been read.     *)
DumpAddrsThenDrain ==
    /\ watch = "dump_addrs"
    /\ watch' = "compare"
    /\ event' = FALSE
    /\ curr_list' = [i \in DOMAIN curr_list |-> os[i].addrs]
    /\ UNCHANGED <<os, opened, prev_list, blind, changes, faults>>

(* ... and then for the addresses; when the reply is cut, any of them may  *)
(* be missing.                                                             *)
DumpAddrs ==
    /\ watch = "dump_addrs"
    /\ watch' = "compare"
    /\ \E got \in [DOMAIN curr_list -> SUBSET Addr] :
          /\ \A i \in DOMAIN got : got[i] \subseteq os[i].addrs
          /\ Cut(\E i \in DOMAIN got : got[i] # os[i].addrs)
          /\ curr_list' = got
    /\ UNCHANGED <<os, event, opened, prev_list, changes>>

(* It may also return -1; the change that woke the watcher is forgotten.   *)
(* The first list is read in place and keeps what was read of it.          *)
ListFails ==
    /\ watch \in {"dump_links", "dump_addrs"}
    /\ faults < MaxFaults
    /\ faults' = faults + 1
    /\ blind' = TRUE
    /\ watch' = IF opened THEN "poll" ELSE "open"
    /\ prev_list' = IF opened THEN prev_list ELSE curr_list
    /\ curr_list' = EmptyList
    /\ UNCHANGED <<os, event, opened, changes>>

(* The first list is only remembered.                                      *)
FirstList ==
    /\ watch = "compare"
    /\ ~opened
    /\ prev_list' = curr_list
    /\ watch' = "open"
    /\ UNCHANGED <<os, event, opened, curr_list, blind, changes, faults>>

OpenEventSocket ==
    /\ watch = "open"
    /\ opened' = TRUE
    /\ watch' = "poll"
    /\ UNCHANGED <<os, event, prev_list, curr_list, blind, changes, faults>>

(* generate_update.                                                        *)
GenerateUpdate(prev, curr) ==
    LET both == DOMAIN prev \cap DOMAIN curr
    IN  [added    |-> DOMAIN curr \ DOMAIN prev,
         removed  |-> DOMAIN prev \ DOMAIN curr,
         modified |-> [i \in {j \in both : prev[j] # curr[j]} |->
                          [added |-> curr[i] \ prev[i], removed |-> prev[i] \ curr[i]]]]

(* Mutant: the list that was compared is not kept.                         *)
ReportForgotten == watch = "compare" /\ opened /\ watch' = "poll"
    /\ UNCHANGED <<os, event, opened, prev_list, curr_list, blind, changes, faults>>

(* Every later list is reported as its difference to the one before; the   *)
(* callback gets the difference and returns before the next poll.          *)
Report ==
    /\ watch = "compare"
    /\ opened
    /\ prev_list' = curr_list
    /\ watch' = "poll"
    /\ UNCHANGED <<os, event, opened, curr_list, blind, changes, faults>>
=============================================================================
