----------------------------- MODULE LinksProofs -----------------------------
(***************************************************************************)
(* What Links guarantees for every limit on the paths, every set of        *)
(* interfaces and addresses and every size of the pipe.                    *)
(***************************************************************************)
EXTENDS Links, DataLemmas, FiniteSetTheorems, SequenceTheorems

Bound == Ips \cup ToSet(BindHosts)

Open == {d \in Descriptors : sockets[d] # Closed}

Linked == {k \in Slots : k < num_fds}

(* The types of the kernel's tables and of the link arrays.                *)
KernelOK == os \in [Ifaces -> [up : BOOLEAN, addrs : SUBSET Addr]]

LinkTypes ==
    /\ num_fds \in 0 .. TRANSPORT_MAX_PATHS
    /\ fds \in [Slots -> Descriptors]
    /\ local_addrs \in [Slots -> Bound \cup {Closed}]
    /\ sockets \in [Descriptors -> Bound \cup {Closed}]

LinkInv == LinkTypes /\ LinksMatchSockets

-----------------------------------------------------------------------------
(* The sets of slots and descriptors are finite sets of numbers.           *)
LEMMA SlotFacts ==
    /\ TRANSPORT_MAX_PATHS \in Nat /\ TRANSPORT_MAX_PATHS > 0
    /\ Slots \subseteq Nat /\ Descriptors \subseteq Nat
    /\ \A k \in Nat : k \in Slots <=> k < TRANSPORT_MAX_PATHS
    /\ \A d \in Nat : d \in Descriptors <=> d <= TRANSPORT_MAX_PATHS
    /\ IsFiniteSet(Slots) /\ Cardinality(Slots) = TRANSPORT_MAX_PATHS
    /\ IsFiniteSet(Descriptors) /\ Cardinality(Descriptors) = TRANSPORT_MAX_PATHS + 1
<1>1. TRANSPORT_MAX_PATHS \in Nat /\ TRANSPORT_MAX_PATHS > 0
  BY LinksAssumption
<1> DEFINE n == TRANSPORT_MAX_PATHS
<1>2. IsFiniteSet(0 .. n - 1) /\ Cardinality(0 .. n - 1) = n
  <2>1. 0 \in Int /\ n - 1 \in Int /\ ~(0 > n - 1)
    BY <1>1
  <2>2. IsFiniteSet(0 .. (n - 1))
        /\ Cardinality(0 .. (n - 1)) = IF 0 > n - 1 THEN 0 ELSE (n - 1) - 0 + 1
    BY ONLY <2>1, FS_Interval, Zenon
  <2> QED BY <1>1, <2>1, <2>2
<1>3. IsFiniteSet(0 .. n) /\ Cardinality(0 .. n) = n + 1
  <2>1. 0 \in Int /\ n \in Int /\ ~(0 > n)
    BY <1>1
  <2>2. IsFiniteSet(0 .. n) /\ Cardinality(0 .. n) = IF 0 > n THEN 0 ELSE n - 0 + 1
    BY ONLY <2>1, FS_Interval, Zenon
  <2> QED BY <1>1, <2>1, <2>2
<1> QED BY <1>1, <1>2, <1>3 DEF Slots, Descriptors

(* While there is room for a link there is a descriptor for it: open       *)
(* descriptors and links are as many.                                      *)
LEMMA FreeDescriptor ==
    ASSUME LinkInv, num_fds < TRANSPORT_MAX_PATHS
    PROVE  LET fd == Min({d \in Descriptors : sockets[d] = Closed})
           IN  fd \in Descriptors /\ sockets[fd] = Closed
<1> DEFINE free == {d \in Descriptors : sockets[d] = Closed}
           f == [k \in Linked |-> fds[k]]
<1>1. SUFFICES free # {}
  <2>1. free \subseteq Nat
    BY SlotFacts
  <2> QED BY <1>1, <2>1, MinIsLeast
<1>2. SUFFICES ASSUME free = {} PROVE FALSE
  OBVIOUS
<1>3. Descriptors = {fds[k] : k \in Linked}
  BY <1>2 DEF LinkInv, LinksMatchSockets, Linked
<1>4. f \in Surjection(Linked, Descriptors)
  <2>1. \A k \in Linked : fds[k] \in Descriptors
    BY DEF LinkInv, LinkTypes, Linked
  <2>2. f \in [Linked -> Descriptors]
    BY <2>1
  <2>3. \A d \in Descriptors : \E k \in Linked : f[k] = d
    BY <1>3
  <2> QED BY <2>2, <2>3 DEF Surjection
<1>5. IsFiniteSet(Slots) /\ Linked \subseteq Slots /\ Cardinality(Slots) = TRANSPORT_MAX_PATHS
  BY SlotFacts DEF Linked
<1>6. IsFiniteSet(Linked) /\ Cardinality(Linked) <= TRANSPORT_MAX_PATHS
      /\ Cardinality(Linked) \in Nat
  BY <1>5, FS_Subset, FS_CardinalityType
<1>7. Cardinality(Descriptors) <= Cardinality(Linked)
  BY <1>4, <1>6, FS_Surjection
<1> QED BY <1>6, <1>7, SlotFacts

(* Only addresses of the kernel's tables are bound.                        *)
LEMMA BindableIp ==
    ASSUME KernelOK, NEW ip, Bindable(ip)
    PROVE  ip \in Bound /\ ip # Closed
<1>1. PICK i \in Ifaces : \E a \in os[i].addrs : a.ip = ip
  BY DEF Bindable
<1>2. os[i].addrs \subseteq Addr
  BY DEF KernelOK
<1>3. ip \in Ips
  BY <1>1, <1>2 DEF Ips
<1> QED BY <1>3, LinksAssumption DEF Bound

(* A link that opens gets a socket no other link has.                      *)
LEMMA OpenLinkKeeps ==
    ASSUME LinkInv, KernelOK, num_fds < TRANSPORT_MAX_PATHS, NEW ip, OpenLink(ip)
    PROVE  LinkInv' /\ (num_fds' = num_fds \/ num_fds' = num_fds + 1)
           /\ \A k \in Slots : k < num_fds => local_addrs'[k] = local_addrs[k]
<1> DEFINE fd == Min({d \in Descriptors : sockets[d] = Closed})
<1>1. CASE UNCHANGED linkVars
  BY <1>1 DEF LinkInv, LinkTypes, LinksMatchSockets, linkVars
<1>2. CASE /\ Bindable(ip)
           /\ sockets' = [sockets EXCEPT ![fd] = ip]
           /\ fds' = [fds EXCEPT ![num_fds] = fd]
           /\ local_addrs' = [local_addrs EXCEPT ![num_fds] = ip]
           /\ num_fds' = num_fds + 1
  <2>1. fd \in Descriptors /\ sockets[fd] = Closed
    BY FreeDescriptor
  <2>2. /\ sockets' = [sockets EXCEPT ![fd] = ip]
        /\ fds' = [fds EXCEPT ![num_fds] = fd]
        /\ local_addrs' = [local_addrs EXCEPT ![num_fds] = ip]
        /\ num_fds' = num_fds + 1
    BY <1>2
  <2> HIDE DEF fd
  <2>3. ip \in Bound /\ ip # Closed
    BY <1>2, BindableIp
  <2>4. LinkTypes /\ LinksMatchSockets
    BY DEF LinkInv
  <2>5. num_fds \in Slots /\ num_fds \in Nat
    BY <2>4, SlotFacts DEF LinkTypes
  <2>6. LinkTypes'
    <3>1. num_fds + 1 \in 0 .. TRANSPORT_MAX_PATHS
      BY <2>5, SlotFacts
    <3> QED BY <2>1, <2>2, <2>3, <2>4, <2>5, <3>1 DEF LinkTypes
  <2>7. \A k \in Slots : k < num_fds + 1 <=> k < num_fds \/ k = num_fds
    BY <2>5, SlotFacts
  <2>8. \A k \in Slots : k < num_fds => k # num_fds
    BY <2>5, SlotFacts
  <2>9. /\ \A k \in Slots : k < num_fds => sockets[fds[k]] = local_addrs[k]
        /\ \A j, k \in Slots : j < num_fds /\ k < num_fds /\ fds[j] = fds[k] => j = k
        /\ \A k \in Slots : k < num_fds => sockets[fds[k]] # Closed
        /\ \A d \in Descriptors : sockets[d] # Closed => \E k \in Slots : k < num_fds /\ d = fds[k]
    <3>1. \A k \in Slots : fds[k] \in Descriptors
      BY <2>4 DEF LinkTypes
    <3> QED BY <2>4, <3>1 DEF LinksMatchSockets
  <2>10. /\ fds'[num_fds] = fd /\ local_addrs'[num_fds] = ip /\ sockets'[fd] = ip
         /\ \A k \in Slots : k < num_fds => fds'[k] = fds[k] /\ local_addrs'[k] = local_addrs[k]
         /\ \A d \in Descriptors : d # fd => sockets'[d] = sockets[d]
    BY <2>1, <2>2, <2>4, <2>5, <2>8 DEF LinkTypes
  <2>11. \A k \in Slots : k < num_fds => fds[k] \in Descriptors /\ fds[k] # fd
    BY <2>1, <2>4, <2>9 DEF LinkTypes
  <2>12. ASSUME NEW k \in Slots, k < num_fds'
         PROVE  sockets'[fds'[k]] = local_addrs'[k] /\ sockets'[fds'[k]] # Closed
                /\ fds'[k] \in Descriptors
    <3>1. CASE k = num_fds
      BY <2>1, <2>3, <2>10, <3>1
    <3>2. CASE k < num_fds
      BY <2>9, <2>10, <2>11, <3>2
    <3> QED BY <2>2, <2>7, <2>12, <3>1, <3>2
  <2>13. ASSUME NEW j \in Slots, NEW k \in Slots, j < num_fds', k < num_fds', fds'[j] = fds'[k]
         PROVE  j = k
    <3>1. /\ j < num_fds \/ j = num_fds
          /\ k < num_fds \/ k = num_fds
      BY <2>2, <2>7, <2>13
    <3> QED BY <2>9, <2>10, <2>11, <2>13, <3>1
  <2>14. ASSUME NEW d \in Descriptors, sockets'[d] # Closed
         PROVE  \E k \in Slots : k < num_fds' /\ d = fds'[k]
    <3>1. CASE d = fd
      BY <2>2, <2>5, <2>7, <2>10, <3>1
    <3>2. CASE d # fd
      <4>1. PICK k \in Slots : k < num_fds /\ d = fds[k]
        BY <2>9, <2>10, <2>14, <3>2
      <4> QED BY <2>2, <2>7, <2>10, <4>1
    <3> QED BY <3>1, <3>2
  <2>15. LinksMatchSockets'
    BY <2>12, <2>13, <2>14 DEF LinksMatchSockets
  <2> QED BY <2>2, <2>6, <2>10, <2>15 DEF LinkInv
<1> QED BY <1>1, <1>2 DEF OpenLink

(* Where the arrays take slot k from when they close up over slot i.       *)
Shift(i, k) == IF k \in i .. num_fds - 2 THEN k + 1 ELSE k

LEMMA ShiftFacts ==
    ASSUME LinkInv, NEW i \in Slots, i < num_fds, CloseLink(i)
    PROVE  /\ num_fds' = num_fds - 1
           /\ fds' = [k \in Slots |-> fds[Shift(i, k)]]
           /\ local_addrs' = [k \in Slots |-> local_addrs[Shift(i, k)]]
           /\ \A k \in Slots : Shift(i, k) \in Slots
           /\ \A k \in Slots : k < num_fds - 1 => Shift(i, k) < num_fds /\ Shift(i, k) # i
           /\ \A j, k \in Slots : j < num_fds - 1 /\ k < num_fds - 1
                                  /\ Shift(i, j) = Shift(i, k) => j = k
           /\ \A k \in Slots : k < num_fds /\ k # i
                 => \E j \in Slots : j < num_fds - 1 /\ Shift(i, j) = k
           /\ \A k \in Slots : k < i => Shift(i, k) = k
<1> DEFINE n == num_fds
           s(k) == IF k \in i .. n - 2 THEN k + 1 ELSE k
<1>1. n \in Nat /\ n <= TRANSPORT_MAX_PATHS /\ i \in Nat /\ n >= 1
      /\ TRANSPORT_MAX_PATHS \in Nat
  BY SlotFacts DEF LinkInv, LinkTypes
<1>2. \A k : Shift(i, k) = s(k)
  BY DEF Shift
<1>3. \A k \in Slots : s(k) \in Slots
  BY <1>1, SlotFacts
<1>4. /\ fds' = [k \in Slots |-> fds[s(k)]]
      /\ local_addrs' = [k \in Slots |-> local_addrs[s(k)]]
      /\ num_fds' = n - 1
  <2>1. /\ fds' = [k \in Slots |-> IF k \in i .. n - 2 THEN fds[k + 1] ELSE fds[k]]
        /\ local_addrs' = [k \in Slots |-> IF k \in i .. n - 2
                                           THEN local_addrs[k + 1] ELSE local_addrs[k]]
        /\ num_fds' = n - 1
    BY DEF CloseLink
  <2> QED BY <2>1
<1>5. \A k \in Slots : k < n - 1 => s(k) < n /\ s(k) # i
  BY <1>1, SlotFacts
<1>6. \A j, k \in Slots : j < n - 1 /\ k < n - 1 /\ s(j) = s(k) => j = k
  BY <1>1, SlotFacts
<1>7. \A k \in Slots : k < n /\ k # i => \E j \in Slots : j < n - 1 /\ s(j) = k
  <2> SUFFICES ASSUME NEW k \in Slots, k < n, k # i
               PROVE  \E j \in Slots : j < n - 1 /\ s(j) = k
    OBVIOUS
  <2>1. k \in Nat
    BY SlotFacts
  <2>2. CASE k < i
    <3>1. k < n - 1 /\ s(k) = k
      BY <1>1, <2>1, <2>2
    <3> QED BY <3>1
  <2>3. CASE k > i
    <3>1. k - 1 \in Slots /\ k - 1 < n - 1 /\ s(k - 1) = k
      BY <1>1, <2>1, <2>3, SlotFacts
    <3> QED BY <3>1
  <2> QED BY <1>1, <2>1, <2>2, <2>3
<1>8. \A k \in Slots : k < i => s(k) = k
  BY <1>1, SlotFacts
<1> HIDE DEF s
<1> QED BY <1>2, <1>3, <1>4, <1>5, <1>6, <1>7, <1>8

(* A link that closes takes its own socket with it, and the arrays close   *)
(* up over it together.                                                    *)
LEMMA CloseLinkKeeps ==
    ASSUME LinkInv, NEW i \in Slots, i < num_fds, CloseLink(i)
    PROVE  LinkInv' /\ num_fds' = num_fds - 1
           /\ \A k \in Slots : k < i => local_addrs'[k] = local_addrs[k]
<1> DEFINE n == num_fds
           s(k) == Shift(i, k)
<1>1. LinkTypes /\ LinksMatchSockets
  BY DEF LinkInv
<1>2. n \in Nat /\ n <= TRANSPORT_MAX_PATHS /\ n >= 1 /\ TRANSPORT_MAX_PATHS \in Nat
  BY <1>1, SlotFacts DEF LinkTypes
<1>3. \A k \in Slots : s(k) \in Slots
  BY ShiftFacts
<1>4. /\ sockets' = [sockets EXCEPT ![fds[i]] = Closed]
      /\ fds' = [k \in Slots |-> fds[s(k)]]
      /\ local_addrs' = [k \in Slots |-> local_addrs[s(k)]]
      /\ num_fds' = n - 1
  BY ShiftFacts DEF CloseLink
<1>5. \A k \in Slots : k < n - 1 => s(k) \in Slots /\ s(k) < n /\ s(k) # i
  BY ShiftFacts
<1>6. \A j, k \in Slots : j < n - 1 /\ k < n - 1 /\ s(j) = s(k) => j = k
  BY ShiftFacts
<1>7. \A k \in Slots : k < n /\ k # i => \E j \in Slots : j < n - 1 /\ s(j) = k
  BY ShiftFacts
<1>8. \A k \in Slots : k < i => s(k) = k
  BY ShiftFacts
<1> HIDE DEF s
<1>9. LinkTypes'
  <2>1. fds' \in [Slots -> Descriptors] /\ local_addrs' \in [Slots -> Bound \cup {Closed}]
    BY <1>1, <1>3, <1>4 DEF LinkTypes
  <2>2. sockets' \in [Descriptors -> Bound \cup {Closed}] /\ num_fds' \in 0 .. TRANSPORT_MAX_PATHS
    BY <1>1, <1>2, <1>4 DEF LinkTypes
  <2> QED BY <2>1, <2>2 DEF LinkTypes
<1>10. /\ \A k \in Slots : k < n => sockets[fds[k]] = local_addrs[k] /\ sockets[fds[k]] # Closed
       /\ \A j, k \in Slots : j < n /\ k < n /\ fds[j] = fds[k] => j = k
       /\ \A d \in Descriptors : sockets[d] # Closed => \E k \in Slots : k < n /\ d = fds[k]
       /\ \A k \in Slots : fds[k] \in Descriptors
  <2>1. \A k \in Slots : fds[k] \in Descriptors
    BY <1>1 DEF LinkTypes
  <2> QED BY <1>1, <2>1 DEF LinksMatchSockets
<1>11. /\ sockets'[fds[i]] = Closed
       /\ \A d \in Descriptors : d # fds[i] => sockets'[d] = sockets[d]
       /\ \A k \in Slots : fds'[k] = fds[s(k)] /\ local_addrs'[k] = local_addrs[s(k)]
  BY <1>1, <1>4, <1>10 DEF LinkTypes
<1>12. ASSUME NEW k \in Slots, k < n - 1
       PROVE  /\ sockets'[fds'[k]] = local_addrs'[k] /\ sockets'[fds'[k]] # Closed
              /\ fds'[k] \in Descriptors
  BY <1>5, <1>10, <1>11, <1>12
<1>13. ASSUME NEW j \in Slots, NEW k \in Slots, j < n - 1, k < n - 1, fds'[j] = fds'[k]
       PROVE  j = k
  BY <1>5, <1>6, <1>10, <1>11, <1>13
<1>14. ASSUME NEW d \in Descriptors, sockets'[d] # Closed
       PROVE  \E k \in Slots : k < n - 1 /\ d = fds'[k]
  <2>1. d # fds[i] /\ sockets[d] # Closed
    BY <1>11, <1>14
  <2>2. PICK k \in Slots : k < n /\ d = fds[k]
    BY <1>10, <2>1
  <2>3. PICK j \in Slots : j < n - 1 /\ s(j) = k
    BY <1>7, <2>1, <2>2
  <2> QED BY <1>11, <2>2, <2>3
<1>15. LinksMatchSockets'
  BY <1>4, <1>12, <1>13, <1>14 DEF LinksMatchSockets
<1>16. \A k \in Slots : k < i => local_addrs'[k] = local_addrs[k]
  BY <1>8, <1>11
<1> QED BY <1>4, <1>9, <1>15, <1>16 DEF LinkInv

(* The first link with an address.                                         *)
LEMMA FirstLink ==
    ASSUME NEW ip, LinkSlots(ip) # {}
    PROVE  LET i == Min(LinkSlots(ip))
           IN  i \in Slots /\ i < num_fds /\ local_addrs[i] = ip
<1>1. LinkSlots(ip) \subseteq Nat
  BY SlotFacts DEF LinkSlots
<1>2. Min(LinkSlots(ip)) \in LinkSlots(ip)
  BY <1>1, MinIsLeast
<1> QED BY <1>2 DEF LinkSlots
-----------------------------------------------------------------------------
(* The inductive invariant.                                                *)
IInv == KernelOK /\ LinkInv

LEMMA InitInv == Init => IInv
<1> SUFFICES ASSUME Init PROVE IInv
  OBVIOUS
<1>1. KernelOK
  BY LinksAssumption DEF Init, IfMonInit, KernelOK
<1> DEFINE n == Len(BindHosts)
<1>2. n \in 1 .. TRANSPORT_MAX_PATHS /\ TRANSPORT_MAX_PATHS \in Nat
  BY LinksAssumption
<1>3. \A k \in Nat : k < n => BindHosts[k + 1] \in Bound /\ BindHosts[k + 1] # Closed
  <2> SUFFICES ASSUME NEW k \in Nat, k < n
               PROVE  BindHosts[k + 1] \in Bound /\ BindHosts[k + 1] # Closed
    OBVIOUS
  <2>1. k + 1 \in 1 .. n
    BY <1>2
  <2>2. BindHosts[k + 1] \in ToSet(BindHosts)
    BY <2>1, LinksAssumption
  <2> QED BY <2>2, LinksAssumption DEF Bound
<1>4. \A k \in Slots : k \in Nat /\ k \in Descriptors
  BY <1>2, SlotFacts
<1>5. /\ num_fds = n
      /\ fds = [k \in Slots |-> IF k < n THEN k ELSE 0]
      /\ local_addrs = [k \in Slots |-> IF k < n THEN BindHosts[k + 1] ELSE Closed]
      /\ sockets = [d \in Descriptors |-> IF d < n THEN BindHosts[d + 1] ELSE Closed]
  BY DEF Init
<1> HIDE DEF n
<1>6. LinkTypes
  <2>1. 0 \in Descriptors /\ \A d \in Descriptors : d \in Nat
    BY <1>2, SlotFacts
  <2> QED BY <1>2, <1>3, <1>4, <1>5, <2>1 DEF LinkTypes
<1>7. LinksMatchSockets
  <2>1. \A d \in Descriptors : d \in Nat /\ (d < n => d \in Slots)
    BY <1>2, SlotFacts
  <2>2. \A k \in Slots : k < n => fds[k] = k /\ sockets[k] = local_addrs[k] /\ sockets[k] # Closed
    BY <1>3, <1>4, <1>5
  <2>3. \A d \in Descriptors : sockets[d] # Closed => d < n
    BY <1>5
  <2> QED BY <1>4, <1>5, <2>1, <2>2, <2>3 DEF LinksMatchSockets
<1> QED BY <1>1, <1>6, <1>7 DEF IInv, LinkInv

(* Steps that do not touch the links.                                      *)
LEMMA LinksUntouched ==
    ASSUME IInv, KernelOK', UNCHANGED linkVars
    PROVE  IInv'
  BY DEF IInv, LinkInv, LinkTypes, LinksMatchSockets, linkVars

(* The kernel's tables stay tables whatever changes.                       *)
LEMMA ChangeKeeps ==
    ASSUME KernelOK, Change
    PROVE  KernelOK'
<1>1. PICK i \in Ifaces : \/ KernelChange(i, [os[i] EXCEPT !.up = ~@])
                          \/ \E a \in Addr :
                                KernelChange(i, [os[i] EXCEPT !.addrs =
                                    IF a \in @ THEN @ \ {a} ELSE @ \cup {a}])
  BY DEF Change
<1> DEFINE T == [up : BOOLEAN, addrs : SUBSET Addr]
<1>2. os \in [Ifaces -> T] /\ os[i] \in T
  BY DEF KernelOK
<1>3. ASSUME NEW x \in T PROVE [x EXCEPT !.up = ~@] \in T
  OBVIOUS
<1>4. ASSUME NEW x \in T, NEW a \in Addr
      PROVE  [x EXCEPT !.addrs = IF a \in @ THEN @ \ {a} ELSE @ \cup {a}] \in T
  OBVIOUS
<1>5. \E y \in T : os' = [os EXCEPT ![i] = y]
  <2> HIDE DEF T
  <2> QED BY <1>1, <1>2, <1>3, <1>4 DEF KernelChange
<1> HIDE DEF T
<1>6. os' \in [Ifaces -> T]
  BY <1>2, <1>5
<1> QED BY <1>6 DEF T, KernelOK

LEMMA WatcherInv ==
    ASSUME IInv, Watcher
    PROVE  IInv'
<1>1. UNCHANGED <<os, linkVars>>
  BY DEF Watcher, WritePipe, OnIfmonUpdate, StartWatching, Drain, DumpLinks, DumpAddrs,
         ListFails, FirstList, Report, OpenEventSocket, ifmonVars
<1>2. KernelOK'
  BY <1>1 DEF IInv, KernelOK
<1> QED BY <1>1, <1>2, LinksUntouched

LEMMA TickInv ==
    ASSUME IInv, Tick
    PROVE  IInv'
<1>1. PICK ip : TickAdded(ip) \/ TickRemoved(ip)
  BY DEF Tick
<1>2. KernelOK'
  BY DEF Tick, ifmonVars, IInv, KernelOK
<1>3. LinkInv /\ KernelOK
  BY DEF IInv
<1>4. CASE UNCHANGED linkVars
  BY <1>2, <1>4, LinksUntouched
<1>5. CASE num_fds < TRANSPORT_MAX_PATHS /\ OpenLink(ip)
  BY <1>2, <1>3, <1>5, OpenLinkKeeps DEF IInv
<1>6. CASE LinkSlots(ip) # {} /\ CloseLink(Min(LinkSlots(ip)))
  <2> DEFINE i == Min(LinkSlots(ip))
  <2>1. i \in Slots /\ i < num_fds
    BY <1>6, FirstLink
  <2>2. CloseLink(i)
    BY <1>6
  <2> HIDE DEF i
  <2> QED BY <1>2, <1>3, <2>1, <2>2, CloseLinkKeeps DEF IInv
<1> QED BY <1>1, <1>4, <1>5, <1>6 DEF TickAdded, TickRemoved
-----------------------------------------------------------------------------
(* Every step of the kernel, the monitor's thread and the tick keeps the   *)
(* invariant.                                                              *)
THEOREM LinksInvariance == Spec => []IInv
<1>1. Init => IInv
  BY InitInv
<1>2. IInv /\ [Next]_vars => IInv'
  <2> SUFFICES ASSUME IInv, [Next]_vars PROVE IInv'
    OBVIOUS
  <2>1. CASE Kernel
    <3>1. KernelOK' /\ UNCHANGED linkVars
      BY <2>1, ChangeKeeps DEF Kernel, IInv
    <3> QED BY <3>1, LinksUntouched
  <2>2. CASE UNCHANGED vars
    <3>1. UNCHANGED <<os, linkVars>>
      BY <2>2 DEF vars, ifmonVars
    <3>2. KernelOK'
      BY <3>1 DEF IInv, KernelOK
    <3> QED BY <3>1, <3>2, LinksUntouched
  <2> QED BY <2>1, <2>2, WatcherInv, TickInv DEF Next
<1> QED BY <1>1, <1>2, PTL DEF Spec

(* However many paths transport_quicly.c allows and whatever comes and     *)
(* goes, its link arrays and the open sockets agree.                       *)
THEOREM SocketsMatch == Spec => []LinksMatchSockets
<1>1. IInv => LinksMatchSockets
  BY DEF IInv, LinkInv
<1> QED BY <1>1, LinksInvariance, PTL

(* As long as a link is left, no datagram is sent on a closed descriptor,  *)
(* and one with a link of its own goes out of that.                        *)
THEOREM SendsOpen == Spec => []SendsOnOpenSocket
<1>1. IInv => SendsOnOpenSocket
  <2> SUFFICES ASSUME IInv, num_fds > 0, NEW src \in Ips
               PROVE  sockets[OutFd(src)] = IF LinkSlots(src) # {} THEN src ELSE local_addrs[0]
    BY DEF SendsOnOpenSocket
  <2>1. \A k \in Slots : k < num_fds => sockets[fds[k]] = local_addrs[k]
    BY DEF IInv, LinkInv, LinksMatchSockets
  <2>2. 0 \in Slots
    BY SlotFacts
  <2>3. CASE LinkSlots(src) # {}
    BY <2>1, <2>3, FirstLink DEF OutFd
  <2>4. CASE LinkSlots(src) = {}
    BY <2>1, <2>2, <2>4 DEF OutFd
  <2> QED BY <2>3, <2>4
<1> QED BY <1>1, LinksInvariance, PTL

-----------------------------------------------------------------------------
(* The monitor's lists and what the callback makes of them.                *)
MonitorOK ==
    /\ watch \in {"poll", "dump_links", "dump_addrs", "compare", "open"}
    /\ prev_list \in List /\ curr_list \in List
    /\ out \in Seq(Message) /\ pipe \in Seq(Message) /\ Len(pipe) <= PipeRoom
    /\ diverged \subseteq Ips

LEMMA ListFacts ==
    ASSUME NEW f
    PROVE  f \in List <=> DOMAIN f \subseteq Ifaces /\ f \in [DOMAIN f -> SUBSET Addr]
<1>1. ASSUME f \in List
      PROVE  DOMAIN f \subseteq Ifaces /\ f \in [DOMAIN f -> SUBSET Addr]
  <2>1. PICK ifs \in SUBSET Ifaces : f \in [ifs -> SUBSET Addr]
    BY <1>1 DEF List
  <2> QED BY <2>1
<1>2. ASSUME DOMAIN f \subseteq Ifaces, f \in [DOMAIN f -> SUBSET Addr]
      PROVE  f \in List
  BY <1>2 DEF List
<1> QED BY <1>1, <1>2

(* A message for each of some addresses.                                   *)
LEMMA MessagesType ==
    ASSUME NEW added \in BOOLEAN, NEW addrs \in SUBSET Addr
    PROVE  Messages(added, addrs) \in Seq(Message)
<1> DEFINE s == SetToSeq(addrs)
<1>1. IsFiniteSet(addrs)
  BY IfMonAssumption, FS_Subset
<1>2. s \in Seq(addrs)
  BY <1>1, SetToSeqFacts
<1> HIDE DEF s
<1>3. Len(s) \in Nat /\ \A k \in 1 .. Len(s) : s[k] \in Addr
  BY <1>2
<1>4. \A k \in 1 .. Len(s) : s[k].ip \in Ips
  BY <1>3 DEF Ips
<1>5. \A k \in 1 .. Len(s) : [added |-> added, ip |-> s[k].ip] \in Message
  BY <1>4 DEF Message
<1>6. [k \in 1 .. Len(s) |-> [added |-> added, ip |-> s[k].ip]] \in Seq(Message)
  <2> HIDE DEF Message
  <2> QED BY <1>3, <1>5
<1> QED BY <1>6 DEF Messages, s

(* The interfaces on_ifmon_update finds new or changed, and what it writes *)
(* for each of them.                                                       *)
NewIfaces == DOMAIN curr_list \ DOMAIN prev_list

Changed == {j \in DOMAIN prev_list \cap DOMAIN curr_list : prev_list[j] # curr_list[j]}

ForNew ==
    LET new == SetToSeq(NewIfaces)
    IN  [k \in 1 .. Len(new) |-> Messages(TRUE, curr_list[new[k]])]

ForChanged ==
    LET mod == SetToSeq(Changed)
    IN  [k \in 1 .. Len(mod) |-> Messages(TRUE, curr_list[mod[k]] \ prev_list[mod[k]])
                                 \o Messages(FALSE, prev_list[mod[k]] \ curr_list[mod[k]])]

LEMMA UpdateShape ==
    ASSUME prev_list \in List, curr_list \in List
    PROVE  /\ UpdateMessages(GenerateUpdate(prev_list, curr_list))
                = FlattenSeq(ForNew) \o FlattenSeq(ForChanged)
           /\ ForNew \in Seq(Seq(Message)) /\ ForChanged \in Seq(Seq(Message))
           /\ Len(ForNew) = Len(SetToSeq(NewIfaces))
           /\ Len(ForChanged) = Len(SetToSeq(Changed))
           /\ IsFiniteSet(NewIfaces) /\ IsFiniteSet(Changed)
<1> DEFINE up == GenerateUpdate(prev_list, curr_list)
           new == SetToSeq(NewIfaces)
           mod == SetToSeq(Changed)
<1>1. /\ DOMAIN prev_list \subseteq Ifaces /\ DOMAIN curr_list \subseteq Ifaces
      /\ \A i \in DOMAIN prev_list : prev_list[i] \in SUBSET Addr
      /\ \A i \in DOMAIN curr_list : curr_list[i] \in SUBSET Addr
  BY ListFacts
<1>2. /\ up.added = NewIfaces
      /\ up.modified = [i \in Changed |-> [added |-> curr_list[i] \ prev_list[i],
                                           removed |-> prev_list[i] \ curr_list[i]]]
  BY DEF GenerateUpdate, NewIfaces, Changed
<1>3. DOMAIN up.modified = Changed
  BY <1>2
<1>4. IsFiniteSet(NewIfaces) /\ IsFiniteSet(Changed)
  <2>1. NewIfaces \subseteq Ifaces /\ Changed \subseteq Ifaces
    BY <1>1 DEF NewIfaces, Changed
  <2> QED BY <2>1, IfMonAssumption, FS_Subset
<1>5. new \in Seq(NewIfaces) /\ mod \in Seq(Changed)
  BY <1>4, SetToSeqFacts
<1>6. \A i \in Changed : /\ up.modified[i].added = curr_list[i] \ prev_list[i]
                        /\ up.modified[i].removed = prev_list[i] \ curr_list[i]
                        /\ curr_list[i] \ prev_list[i] \in SUBSET Addr
                        /\ prev_list[i] \ curr_list[i] \in SUBSET Addr
  BY <1>1, <1>2 DEF Changed
<1>7. /\ Len(new) \in Nat /\ \A k \in 1 .. Len(new) : new[k] \in NewIfaces
      /\ Len(mod) \in Nat /\ \A k \in 1 .. Len(mod) : mod[k] \in Changed
  BY <1>5
<1>8. UpdateMessages(up) = FlattenSeq(ForNew) \o FlattenSeq(ForChanged)
  <2> DEFINE first == [k \in 1 .. Len(new) |-> Messages(TRUE, curr_list[new[k]])]
             second == [k \in 1 .. Len(mod) |-> Messages(TRUE, up.modified[mod[k]].added)
                                                \o Messages(FALSE, up.modified[mod[k]].removed)]
  <2>1. UpdateMessages(up) = FlattenSeq(first) \o FlattenSeq(second)
    <3> DEFINE new2 == SetToSeq(up.added)
               mod2 == SetToSeq(DOMAIN up.modified)
    <3>1. UpdateMessages(up)
            = FlattenSeq([k \in 1 .. Len(new2) |-> Messages(TRUE, curr_list[new2[k]])])
              \o FlattenSeq([k \in 1 .. Len(mod2) |->
                                Messages(TRUE, up.modified[mod2[k]].added)
                                \o Messages(FALSE, up.modified[mod2[k]].removed)])
      BY DEF UpdateMessages
    <3>2. new2 = new /\ mod2 = mod
      BY <1>2, <1>3
    <3> HIDE DEF up, new, mod, new2, mod2
    <3> QED BY <3>1, <3>2
  <2>2. first = ForNew
    BY DEF ForNew
  <2>3. second = ForChanged
    <3> HIDE DEF up, new
    <3>1. \A k \in 1 .. Len(mod) :
             /\ up.modified[mod[k]].added = curr_list[mod[k]] \ prev_list[mod[k]]
             /\ up.modified[mod[k]].removed = prev_list[mod[k]] \ curr_list[mod[k]]
      BY <1>6, <1>7
    <3> QED BY <3>1 DEF ForChanged
  <2> QED BY <2>1, <2>2, <2>3
<1> HIDE DEF up
<1>9. ForNew \in [1 .. Len(new) -> Seq(Message)]
  <2>1. \A k \in 1 .. Len(new) : Messages(TRUE, curr_list[new[k]]) \in Seq(Message)
    <3> TAKE k \in 1 .. Len(new)
    <3>1. curr_list[new[k]] \in SUBSET Addr
      BY <1>1, <1>7 DEF NewIfaces
    <3> QED BY <3>1, MessagesType
  <2> QED BY <2>1, Zenon DEF ForNew
<1>10. ForChanged \in [1 .. Len(mod) -> Seq(Message)]
  <2>1. \A k \in 1 .. Len(mod) :
           Messages(TRUE, curr_list[mod[k]] \ prev_list[mod[k]])
              \o Messages(FALSE, prev_list[mod[k]] \ curr_list[mod[k]]) \in Seq(Message)
    <3> TAKE k \in 1 .. Len(mod)
    <3>1. /\ curr_list[mod[k]] \ prev_list[mod[k]] \in SUBSET Addr
          /\ prev_list[mod[k]] \ curr_list[mod[k]] \in SUBSET Addr
      BY <1>6, <1>7
    <3>2. /\ Messages(TRUE, curr_list[mod[k]] \ prev_list[mod[k]]) \in Seq(Message)
          /\ Messages(FALSE, prev_list[mod[k]] \ curr_list[mod[k]]) \in Seq(Message)
      BY <3>1, MessagesType
    <3> QED BY <3>2, ConcatIsSeq, Zenon
  <2> QED BY <2>1, Zenon DEF ForChanged
<1> HIDE DEF new, mod
<1>11. ForNew \in Seq(Seq(Message)) /\ ForChanged \in Seq(Seq(Message))
  BY <1>7, <1>9, <1>10, FunctionIsSeq, Zenon
<1>12. Len(ForNew) = Len(new) /\ Len(ForChanged) = Len(mod)
  BY <1>7, <1>9, <1>10
<1> QED BY <1>4, <1>8, <1>11, <1>12 DEF up, new, mod

(* What on_ifmon_update writes are messages about known addresses.         *)
LEMMA UpdateMessagesType ==
    ASSUME prev_list \in List, curr_list \in List
    PROVE  UpdateMessages(GenerateUpdate(prev_list, curr_list)) \in Seq(Message)
<1>1. FlattenSeq(ForNew) \in Seq(Message) /\ FlattenSeq(ForChanged) \in Seq(Message)
  BY UpdateShape, FlattenSeqType
<1>2. FlattenSeq(ForNew) \o FlattenSeq(ForChanged) \in Seq(Message)
  BY <1>1, ConcatIsSeq, Zenon
<1> QED BY <1>2, UpdateShape

LEMMA InitMonitor == Init => MonitorOK
<1> SUFFICES ASSUME Init PROVE MonitorOK
  OBVIOUS
<1>1. EmptyList \in List
  BY ListFacts DEF EmptyList
<1>2. <<>> \in Seq(Message) /\ Len(<<>>) <= PipeRoom
  BY LinksAssumption
<1> QED BY <1>1, <1>2 DEF Init, IfMonInit, MonitorOK

(* The watcher's steps.                                                    *)
LEMMA WatcherMonitor ==
    ASSUME IInv, MonitorOK, Watcher
    PROVE  MonitorOK'
<1> USE DEF MonitorOK
<1>1. CASE WritePipe
  <2>1. out # <<>> /\ out' = Tail(out)
    BY <1>1 DEF WritePipe
  <2>2. Head(out) \in Message /\ out' \in Seq(Message)
    BY <2>1
  <2>3. Head(out).ip \in Ips
    BY <2>2 DEF Message
  <2>4. /\ pipe' \in Seq(Message) /\ Len(pipe') <= PipeRoom
        /\ diverged' \subseteq Ips
    <3>1. CASE Len(pipe) < PipeRoom /\ pipe' = Append(pipe, Head(out)) /\ UNCHANGED diverged
      <4>1. PipeRoom \in Nat /\ Len(pipe) \in Nat
        BY LinksAssumption
      <4>2. pipe' \in Seq(Message) /\ Len(pipe') = Len(pipe) + 1
        BY <2>2, <3>1, AppendProperties
      <4> QED BY <3>1, <4>1, <4>2
    <3>2. CASE diverged' = diverged \cup {Head(out).ip} /\ UNCHANGED pipe
      BY <2>3, <3>2
    <3> QED BY <1>1, <3>1, <3>2 DEF WritePipe
  <2> QED BY <1>1, <2>2, <2>4 DEF WritePipe, ifmonVars
<1>2. CASE OnIfmonUpdate
  <2>1. out' \in Seq(Message)
    BY <1>2, UpdateMessagesType DEF OnIfmonUpdate
  <2>2. diverged' \subseteq Ips /\ UNCHANGED pipe
    BY <1>2 DEF OnIfmonUpdate
  <2>3. watch' = "poll" /\ prev_list' = curr_list /\ curr_list' = curr_list
    BY <1>2 DEF OnIfmonUpdate, Report
  <2> QED BY <2>1, <2>2, <2>3
<1>3. CASE StartWatching
  <2>1. diverged' \subseteq Ips
    BY <1>3 DEF StartWatching
  <2> QED BY <1>3, <2>1 DEF StartWatching, OpenEventSocket
<1>4. CASE (Drain \/ FirstList) /\ UNCHANGED <<out, pipe, linkVars, diverged>>
  BY <1>4 DEF Drain, FirstList
<1>5. CASE DumpLinks /\ UNCHANGED <<out, pipe, linkVars, diverged>>
  <2>1. PICK ifs \in SUBSET Listed : curr_list' = [i \in ifs |-> {}]
    BY <1>5 DEF DumpLinks
  <2>2. ifs \subseteq Ifaces
    BY <2>1 DEF Listed
  <2>3. curr_list' \in List
    BY <2>1, <2>2, ListFacts
  <2> QED BY <1>5, <2>3 DEF DumpLinks
<1>6. CASE DumpAddrs /\ UNCHANGED <<out, pipe, linkVars, diverged>>
  <2>1. DOMAIN curr_list \subseteq Ifaces
    BY ListFacts
  <2>2. PICK got \in [DOMAIN curr_list -> SUBSET Addr] : curr_list' = got
    BY <1>6 DEF DumpAddrs
  <2>5. curr_list' \in List
    BY <2>1, <2>2, ListFacts
  <2> QED BY <1>6, <2>5 DEF DumpAddrs
<1>7. CASE ListFails /\ UNCHANGED <<out, pipe, linkVars, diverged>>
  <2>1. EmptyList \in List
    BY ListFacts DEF EmptyList
  <2> QED BY <1>7, <2>1 DEF ListFails
<1> QED BY <1>1, <1>2, <1>3, <1>4, <1>5, <1>6, <1>7 DEF Watcher

LEMMA TickMonitor ==
    ASSUME MonitorOK, Tick
    PROVE  MonitorOK'
<1> USE DEF MonitorOK
<1>1. pipe # <<>> /\ pipe' = Tail(pipe) /\ UNCHANGED <<ifmonVars, out>>
      /\ \/ TickAdded(Head(pipe).ip)
         \/ TickRemoved(Head(pipe).ip)
  BY DEF Tick
<1>2. Head(pipe) \in Message /\ pipe' \in Seq(Message) /\ Len(pipe') = Len(pipe) - 1
      /\ Len(pipe) \in Nat /\ PipeRoom \in Nat
  BY <1>1, LinksAssumption
<1>3. Len(pipe') <= PipeRoom
  BY <1>2
<1>4. Head(pipe).ip \in Ips
  BY <1>2 DEF Message
<1>5. diverged' \subseteq Ips
  BY <1>1, <1>4 DEF TickAdded, TickRemoved
<1> QED BY <1>1, <1>2, <1>3, <1>5 DEF ifmonVars

LEMMA NextMonitor ==
    ASSUME IInv, MonitorOK, [Next]_vars
    PROVE  MonitorOK'
<1>1. CASE Kernel
  BY <1>1 DEF Kernel, Change, KernelChange, MonitorOK
<1>3. CASE UNCHANGED vars
  BY <1>3 DEF vars, ifmonVars, MonitorOK
<1> QED BY <1>1, <1>3, WatcherMonitor, TickMonitor DEF Next

(* The monitor, the pipe and the link arrays keep their types: no message  *)
(* is about an address outside the tables, and no index leaves its array.  *)
THEOREM LinksTypeCorrect == Spec => []TypeOK
<1>1. Init => MonitorOK
  BY InitMonitor
<1>2. IInv /\ MonitorOK /\ [Next]_vars => MonitorOK'
  BY NextMonitor
<1>3. IInv /\ MonitorOK => TypeOK
  BY DEF IInv, KernelOK, LinkInv, LinkTypes, MonitorOK, TypeOK, Bound
<1> QED BY <1>1, <1>2, <1>3, LinksInvariance, PTL DEF Spec

-----------------------------------------------------------------------------
(* The messages that add and remove a link for an address.                 *)
Adds(ip) == {m \in Message : m.added = TRUE /\ m.ip = ip}

Rems(ip) == {m \in Message : m.added = FALSE /\ m.ip = ip}

(* Reading q from its front, every removal finds a link to close, and the  *)
(* links end up as many as the entries of the list.                        *)
Balanced(links, entries, q, ip) ==
    /\ \A k \in 0 .. Len(q) : CountTo(q, k, Rems(ip)) <= links + CountTo(q, k, Adds(ip))
    /\ links + CountAll(q, Adds(ip)) = entries + CountAll(q, Rems(ip))

LEMMA Disjoint ==
    ASSUME NEW m, NEW x, NEW y
    PROVE  /\ ~(m \in Adds(x) /\ m \in Rems(y))
           /\ m \in Adds(x) \cup Rems(x) => m.ip = x
BY DEF Adds, Rems

(* The first message is read.                                              *)
LEMMA BalancedRead ==
    ASSUME NEW h \in Message, NEW q \in Seq(Message), NEW links \in Nat, NEW entries \in Nat,
           NEW ip, Balanced(links, entries, <<h>> \o q, ip)
    PROVE  /\ h \in Adds(ip) => Balanced(links + 1, entries, q, ip)
           /\ h \in Rems(ip) => links > 0 /\ Balanced(links - 1, entries, q, ip)
           /\ h \notin Adds(ip) \cup Rems(ip) => Balanced(links, entries, q, ip)
<1> DEFINE c == <<h>> \o q
           one(S) == IF h \in S THEN 1 ELSE 0
           A == Adds(ip)
           R == Rems(ip)
<1>1. Len(c) = Len(q) + 1 /\ Len(q) \in Nat
  OBVIOUS
<1>2. /\ \A k \in 0 .. Len(q) : CountTo(c, 1 + k, A) = one(A) + CountTo(q, k, A)
      /\ CountAll(c, A) = one(A) + CountAll(q, A)
  BY CountCons
<1>3. /\ \A k \in 0 .. Len(q) : CountTo(c, 1 + k, R) = one(R) + CountTo(q, k, R)
      /\ CountAll(c, R) = one(R) + CountAll(q, R)
  BY CountCons
<1>4. ~(h \in A /\ h \in R)
  BY Disjoint
<1>5. /\ \A k \in 0 .. Len(c) : CountTo(c, k, R) <= links + CountTo(c, k, A)
      /\ links + CountAll(c, A) = entries + CountAll(c, R)
  BY DEF Balanced
<1> HIDE DEF c, A, R
<1>6. /\ \A k \in 0 .. Len(q) : CountTo(q, k, A) \in Nat /\ CountTo(q, k, R) \in Nat
      /\ CountAll(q, A) \in Nat /\ CountAll(q, R) \in Nat
      /\ CountTo(q, 0, A) = 0 /\ CountTo(q, 0, R) = 0
  <2>1. \A k \in Nat : CountTo(q, k, A) \in Nat /\ CountTo(q, k, R) \in Nat
    BY CountFacts
  <2>2. CountTo(q, 0, A) = 0 /\ CountTo(q, 0, R) = 0
    BY CountFacts
  <2> QED BY <1>1, <2>1, <2>2 DEF CountAll
<1>7. /\ \A k \in 0 .. Len(q) : one(R) + CountTo(q, k, R) <= links + one(A) + CountTo(q, k, A)
      /\ links + one(A) + CountAll(q, A) = entries + one(R) + CountAll(q, R)
  <2>1. one(A) \in Nat /\ one(R) \in Nat
    OBVIOUS
  <2> HIDE DEF one
  <2>2. ASSUME NEW k \in 0 .. Len(q)
        PROVE  one(R) + CountTo(q, k, R) <= links + one(A) + CountTo(q, k, A)
    <3>1. 1 + k \in 0 .. Len(c)
      BY <1>1
    <3>2. CountTo(c, 1 + k, R) <= links + CountTo(c, 1 + k, A)
      BY <1>5, <3>1
    <3>3. one(R) + CountTo(q, k, R) <= links + (one(A) + CountTo(q, k, A))
      BY <1>2, <1>3, <3>2
    <3>4. CountTo(q, k, A) \in Nat /\ CountTo(q, k, R) \in Nat
      BY <1>6
    <3> QED BY <2>1, <3>3, <3>4
  <2>3. links + (one(A) + CountAll(q, A)) = entries + (one(R) + CountAll(q, R))
    BY <1>2, <1>3, <1>5
  <2> QED BY <1>6, <2>1, <2>2, <2>3
<1>8. ASSUME h \in A PROVE Balanced(links + 1, entries, q, ip)
  <2>1. one(A) = 1 /\ one(R) = 0
    BY <1>4, <1>8
  <2> HIDE DEF one
  <2>2. \A k \in 0 .. Len(q) : CountTo(q, k, R) <= (links + 1) + CountTo(q, k, A)
    BY <1>6, <1>7, <2>1
  <2>3. (links + 1) + CountAll(q, A) = entries + CountAll(q, R)
    BY <1>6, <1>7, <2>1
  <2> QED BY <2>2, <2>3 DEF Balanced, A, R
<1>9. ASSUME h \in R PROVE links > 0 /\ Balanced(links - 1, entries, q, ip)
  <2>1. one(A) = 0 /\ one(R) = 1
    BY <1>4, <1>9
  <2> HIDE DEF one
  <2>2. \A k \in 0 .. Len(q) : CountTo(q, k, R) <= (links - 1) + CountTo(q, k, A)
    BY <1>6, <1>7, <2>1
  <2> DEFINE x == CountAll(q, A)
             y == CountAll(q, R)
  <2>3. (links - 1) + x = entries + y
    <3>1. x \in Nat /\ y \in Nat
      BY <1>6
    <3>2. links + 0 + x = entries + 1 + y
      BY <1>7, <2>1
    <3> HIDE DEF x, y
    <3> QED BY <3>1, <3>2
  <2>4. links > 0
    <3>1. 0 \in 0 .. Len(q)
      BY <1>1
    <3> QED BY <1>6, <2>2, <3>1
  <2> QED BY <2>2, <2>3, <2>4 DEF Balanced, A, R
<1>10. ASSUME h \notin A, h \notin R PROVE Balanced(links, entries, q, ip)
  <2>1. one(A) = 0 /\ one(R) = 0
    BY <1>10
  <2> HIDE DEF one
  <2>2. \A k \in 0 .. Len(q) : CountTo(q, k, R) <= links + CountTo(q, k, A)
    BY <1>6, <1>7, <2>1
  <2>3. links + CountAll(q, A) = entries + CountAll(q, R)
    BY <1>6, <1>7, <2>1
  <2> QED BY <2>2, <2>3 DEF Balanced, A, R
<1> QED BY <1>8, <1>9, <1>10 DEF A, R

(* A message about another address is lost on its way into the pipe.       *)
LEMMA BalancedWithout ==
    ASSUME NEW a \in Seq(Message), NEW h \in Message, NEW b \in Seq(Message),
           NEW links \in Nat, NEW entries \in Nat, NEW ip,
           h \notin Adds(ip) \cup Rems(ip), Balanced(links, entries, a \o (<<h>> \o b), ip)
    PROVE  Balanced(links, entries, a \o b, ip)
<1> DEFINE c == a \o (<<h>> \o b)
           d == a \o b
           A == Adds(ip)
           R == Rems(ip)
           m == Len(a)
<1>1. Len(c) = m + (1 + Len(b)) /\ Len(d) = m + Len(b) /\ m \in Nat /\ Len(b) \in Nat
  OBVIOUS
<1>2. /\ \A k \in 0 .. m : CountTo(c, k, A) = CountTo(d, k, A)
      /\ \A k \in 0 .. Len(b) : CountTo(c, m + (1 + k), A) = CountTo(d, m + k, A)
      /\ CountAll(c, A) = CountAll(d, A)
  BY CountWithout
<1>3. /\ \A k \in 0 .. m : CountTo(c, k, R) = CountTo(d, k, R)
      /\ \A k \in 0 .. Len(b) : CountTo(c, m + (1 + k), R) = CountTo(d, m + k, R)
      /\ CountAll(c, R) = CountAll(d, R)
  BY CountWithout
<1>4. /\ \A k \in 0 .. Len(c) : CountTo(c, k, R) <= links + CountTo(c, k, A)
      /\ links + CountAll(c, A) = entries + CountAll(c, R)
  BY DEF Balanced
<1> HIDE DEF c, d, A, R, m
<1>5. ASSUME NEW k \in 0 .. Len(d)
      PROVE  CountTo(d, k, R) <= links + CountTo(d, k, A)
  <2>1. CASE k <= m
    <3>1. k \in 0 .. m /\ k \in 0 .. Len(c)
      BY <1>1, <2>1
    <3> QED BY <1>2, <1>3, <1>4, <3>1
  <2>2. CASE ~(k <= m)
    <3>1. PICK j \in 0 .. Len(b) : k = m + j
      <4>1. k - m \in 0 .. Len(b) /\ k = m + (k - m)
        BY <1>1, <2>2
      <4> QED BY <4>1
    <3>2. m + (1 + j) \in 0 .. Len(c)
      BY <1>1
    <3> QED BY <1>2, <1>3, <1>4, <3>1, <3>2
  <2> QED BY <2>1, <2>2
<1>6. links + CountAll(d, A) = entries + CountAll(d, R)
  BY <1>2, <1>3, <1>4
<1> QED BY <1>5, <1>6 DEF Balanced, A, R, d

(* The callback starts to write the difference to a new list.              *)
LEMMA BalancedUpdate ==
    ASSUME NEW a \in Seq(Message), NEW b \in Seq(Message), NEW links \in Nat,
           NEW entries \in Nat, NEW entries2 \in Nat, NEW ip,
           Balanced(links, entries, a, ip),
           CountAll(b, Rems(ip)) <= entries,
           entries + CountAll(b, Adds(ip)) = entries2 + CountAll(b, Rems(ip))
    PROVE  Balanced(links, entries2, a \o b, ip)
<1> DEFINE c == a \o b
           A == Adds(ip)
           R == Rems(ip)
           m == Len(a)
           n == Len(b)
<1>1. Len(c) = m + n /\ m \in Nat /\ n \in Nat
  OBVIOUS
<1>2. ConcatCounts(a, b, c, A) /\ ConcatCounts(a, b, c, R)
  BY CountConcat
<1>3. /\ \A k \in 0 .. m : CountTo(a, k, R) <= links + CountTo(a, k, A)
      /\ links + CountAll(a, A) = entries + CountAll(a, R)
  BY DEF Balanced
<1>4. CountAll(b, R) <= entries /\ entries + CountAll(b, A) = entries2 + CountAll(b, R)
  OBVIOUS
<1> HIDE DEF c, A, R, m, n
<1>5. \A k \in Nat : /\ CountTo(a, k, A) \in Nat /\ CountTo(a, k, R) \in Nat
                    /\ CountTo(b, k, A) \in Nat /\ CountTo(b, k, R) \in Nat
  BY CountFacts
<1>6. /\ CountAll(a, A) \in Nat /\ CountAll(a, R) \in Nat
      /\ CountAll(b, A) \in Nat /\ CountAll(b, R) \in Nat
  BY <1>1, <1>5 DEF CountAll, m, n
<1>7. \A j \in 0 .. n : CountTo(b, j, R) <= CountAll(b, R)
  BY <1>1, CountFacts DEF CountAll, n
<1>8. ASSUME NEW k \in 0 .. Len(c)
      PROVE  CountTo(c, k, R) <= links + CountTo(c, k, A)
  <2>1. CASE k <= m
    <3>1. k \in 0 .. m
      BY <1>1, <2>1
    <3> QED BY <1>2, <1>3, <3>1 DEF ConcatCounts, m
  <2>2. CASE ~(k <= m)
    <3>1. PICK j \in 0 .. n : k = m + j
      <4>1. k - m \in 0 .. n /\ k = m + (k - m)
        BY <1>1, <2>2
      <4> QED BY <4>1
    <3>2. CountTo(c, m + j, R) = CountAll(a, R) + CountTo(b, j, R)
      BY <1>2, <3>1 DEF ConcatCounts, m, n
    <3>3. CountTo(c, m + j, A) = CountAll(a, A) + CountTo(b, j, A)
      BY <1>2, <3>1 DEF ConcatCounts, m, n
    <3>4. CountTo(b, j, R) <= entries /\ CountTo(b, j, R) \in Nat /\ CountTo(b, j, A) \in Nat
      <4>1. j \in Nat
        BY <1>1
      <4>2. CountTo(b, j, R) \in Nat /\ CountTo(b, j, A) \in Nat
        BY <1>5, <4>1
      <4>3. CountTo(b, j, R) <= CountAll(b, R) /\ CountAll(b, R) <= entries
        BY <1>4, <1>7
      <4> QED BY <1>6, <4>2, <4>3
    <3> DEFINE aA == CountAll(a, A)
               aR == CountAll(a, R)
               bA == CountTo(b, j, A)
               bR == CountTo(b, j, R)
    <3>5. aR + bR <= links + (aA + bA)
      <4>1. /\ aA \in Nat /\ aR \in Nat /\ bA \in Nat /\ bR \in Nat /\ bR <= entries
            /\ links + aA = entries + aR /\ links \in Nat /\ entries \in Nat
        BY <1>3, <1>6, <3>4
      <4> HIDE DEF aA, aR, bA, bR
      <4> QED BY ONLY <4>1
    <3> QED BY <3>1, <3>2, <3>3, <3>5
  <2> QED BY <2>1, <2>2
<1>9. links + CountAll(c, A) = entries2 + CountAll(c, R)
  <2>1. /\ CountAll(c, A) = CountAll(a, A) + CountAll(b, A)
        /\ CountAll(c, R) = CountAll(a, R) + CountAll(b, R)
    BY <1>2 DEF ConcatCounts
  <2> DEFINE aA == CountAll(a, A)
             aR == CountAll(a, R)
             bA == CountAll(b, A)
             bR == CountAll(b, R)
  <2>2. /\ aA \in Nat /\ aR \in Nat /\ bA \in Nat /\ bR \in Nat
        /\ links + aA = entries + aR /\ entries + bA = entries2 + bR
    BY <1>3, <1>4, <1>6
  <2>3. CountAll(c, A) = aA + bA /\ CountAll(c, R) = aR + bR
    BY <2>1
  <2> HIDE DEF aA, aR, bA, bR
  <2>4. links + (aA + bA) = entries2 + (aR + bR)
    BY <2>2
  <2> QED BY <2>3, <2>4
<1> QED BY <1>8, <1>9 DEF Balanced, A, R, c

-----------------------------------------------------------------------------
(* How the number of links with an address changes.                        *)
LEMMA LinkCount ==
    ASSUME NEW ip
    PROVE  /\ IsFiniteSet(LinkSlots(ip)) /\ LinksWith(ip) = Cardinality(LinkSlots(ip))
           /\ LinksWith(ip) \in Nat
           /\ LinksWith(ip) > 0 => LinkSlots(ip) # {}
<1>1. LinkSlots(ip) \in SUBSET Slots /\ IsFiniteSet(Slots)
  BY SlotFacts DEF LinkSlots
<1>2. IsFiniteSet(LinkSlots(ip))
  BY <1>1, FS_Subset
<1>3. LinksWith(ip) = Cardinality(LinkSlots(ip))
  BY DEF LinksWith, LinkSlots
<1>4. Cardinality(LinkSlots(ip)) \in Nat
  BY <1>2, FS_CardinalityType
<1>5. LinkSlots(ip) = {} => Cardinality(LinkSlots(ip)) = 0
  BY FS_EmptySet
<1> QED BY <1>2, <1>3, <1>4, <1>5

LEMMA OpenLinkCount ==
    ASSUME LinkInv, num_fds < TRANSPORT_MAX_PATHS, NEW ip, OpenLink(ip), num_fds' # num_fds,
           NEW x
    PROVE  LinksWith(x)' = LinksWith(x) + IF x = ip THEN 1 ELSE 0
<1>1. /\ local_addrs' = [local_addrs EXCEPT ![num_fds] = ip]
      /\ num_fds' = num_fds + 1
  BY DEF OpenLink, linkVars
<1>2. num_fds \in Slots /\ num_fds \in Nat /\ local_addrs \in [Slots -> Bound \cup {Closed}]
      /\ \A k \in Slots : k \in Nat
  BY SlotFacts DEF LinkInv, LinkTypes
<1> DEFINE L == {k \in Slots : k < num_fds /\ local_addrs[k] = x}
           M == {k \in Slots : k < num_fds' /\ local_addrs'[k] = x}
<1>3. num_fds \notin L
  BY <1>2
<1>4. \A k \in Slots : k < num_fds' <=> k < num_fds \/ k = num_fds
  BY <1>1, <1>2
<1>5. /\ \A k \in Slots : k # num_fds => local_addrs'[k] = local_addrs[k]
      /\ local_addrs'[num_fds] = ip
      /\ ~(num_fds < num_fds)
  BY <1>1, <1>2
<1>6. M = IF x = ip THEN L \cup {num_fds} ELSE L
  BY <1>2, <1>4, <1>5
<1>7. IsFiniteSet(L)
  BY LinkCount DEF LinkSlots
<1> HIDE DEF L, M
<1>8. Cardinality(L \cup {num_fds}) = Cardinality(L) + 1
  BY <1>3, <1>7, FS_AddElement
<1>9. Cardinality(L) \in Nat
  BY <1>7, FS_CardinalityType
<1>10. Cardinality(M) = Cardinality(L) + IF x = ip THEN 1 ELSE 0
  BY <1>6, <1>8, <1>9
<1> QED BY <1>10 DEF LinksWith, L, M

LEMMA CloseLinkCount ==
    ASSUME LinkInv, NEW i \in Slots, i < num_fds, CloseLink(i), NEW x
    PROVE  LinksWith(x)' = LinksWith(x) - IF x = local_addrs[i] THEN 1 ELSE 0
<1> DEFINE n == num_fds
           s(k) == Shift(i, k)
           L == {k \in Slots : k < n /\ local_addrs[k] = x}
           M == {k \in Slots : k < num_fds' /\ local_addrs'[k] = x}
           f == [k \in M |-> s(k)]
<1>2. /\ \A k \in Slots : local_addrs'[k] = local_addrs[s(k)]
      /\ num_fds' = n - 1
  BY ShiftFacts
<1>3. \A k \in Slots : k < n - 1 => s(k) \in Slots /\ s(k) < n /\ s(k) # i
  BY ShiftFacts
<1>4. \A j, k \in Slots : j < n - 1 /\ k < n - 1 /\ s(j) = s(k) => j = k
  BY ShiftFacts
<1>5. \A k \in Slots : k < n /\ k # i => \E j \in Slots : j < n - 1 /\ s(j) = k
  BY ShiftFacts
<1> HIDE DEF s
<1>6. f \in Bijection(M, L \ {i})
  <2>1. \A k \in M : s(k) \in L \ {i} /\ f[k] = s(k)
    BY <1>2, <1>3
  <2>2. \A j, k \in M : s(j) = s(k) => j = k
    BY <1>2, <1>4
  <2>3. \A l \in L \ {i} : \E k \in M : s(k) = l
    BY <1>2, <1>5
  <2>4. f \in [M -> L \ {i}] /\ DOMAIN f = M
    <3> HIDE DEF L, M
    <3> QED BY <2>1
  <2> HIDE DEF L, M, f
  <2> QED BY <2>1, <2>2, <2>3, <2>4 DEF Bijection, Injection, Surjection, IsInjective
<1>7. IsFiniteSet(L)
  BY LinkCount DEF LinkSlots
<1>8. i \in L <=> x = local_addrs[i]
  OBVIOUS
<1> HIDE DEF L, M, f
<1>9. /\ IsFiniteSet(L \ {i})
      /\ Cardinality(L \ {i}) = IF i \in L THEN Cardinality(L) - 1 ELSE Cardinality(L)
  BY <1>7, FS_RemoveElement
<1>10. Cardinality(M) = Cardinality(L \ {i})
  <2>1. f \in Injection(M, L \ {i}) /\ f \in Surjection(M, L \ {i})
    BY <1>6 DEF Bijection
  <2> QED BY <1>9, <2>1, FS_Injection
<1>11. Cardinality(L) \in Nat
  BY <1>7, FS_CardinalityType
<1>12. Cardinality(M) = Cardinality(L) - IF x = local_addrs[i] THEN 1 ELSE 0
  BY <1>8, <1>9, <1>10, <1>11
<1> QED BY <1>12 DEF LinksWith, L, M

-----------------------------------------------------------------------------
(* The addresses of a set that are an address with some prefix.            *)
WithIp(addrs, ip) == {a \in addrs : a.ip = ip}

(* The messages for some addresses: one for each prefix of the address.    *)
LEMMA MessagesCount ==
    ASSUME NEW addrs \in SUBSET Addr, NEW ip
    PROVE  /\ CountAll(Messages(TRUE, addrs), Adds(ip)) = Cardinality(WithIp(addrs, ip))
           /\ CountAll(Messages(TRUE, addrs), Rems(ip)) = 0
           /\ CountAll(Messages(FALSE, addrs), Rems(ip)) = Cardinality(WithIp(addrs, ip))
           /\ CountAll(Messages(FALSE, addrs), Adds(ip)) = 0
<1> DEFINE s == SetToSeq(addrs)
           n == Len(s)
           yes == [k \in 1 .. n |-> [added |-> TRUE, ip |-> s[k].ip]]
           no == [k \in 1 .. n |-> [added |-> FALSE, ip |-> s[k].ip]]
           X == WithIp(addrs, ip)
<1>1. IsFiniteSet(addrs)
  BY IfMonAssumption, FS_Subset
<1>2. s \in Seq(addrs) /\ s \in Bijection(1 .. n, addrs)
  BY <1>1, SetToSeqFacts
<1>3. Messages(TRUE, addrs) = yes /\ Messages(FALSE, addrs) = no
  BY DEF Messages
<1> HIDE DEF s
<1>4. n \in Nat /\ \A k \in 1 .. n : s[k] \in addrs /\ s[k].ip \in Ips
  BY <1>2 DEF Ips
<1>5. Len(yes) = n /\ Len(no) = n
  BY <1>4
<1>6. ASSUME NEW k \in 1 .. n
      PROVE  /\ yes[k] \in Adds(ip) <=> s[k] \in X
             /\ yes[k] \in Rems(ip) <=> s[k] \in {}
             /\ no[k] \in Rems(ip) <=> s[k] \in X
             /\ no[k] \in Adds(ip) <=> s[k] \in {}
  <2>1. /\ yes[k] = [added |-> TRUE, ip |-> s[k].ip]
        /\ no[k] = [added |-> FALSE, ip |-> s[k].ip]
    OBVIOUS
  <2>2. s[k] \in X <=> s[k].ip = ip
    BY <1>4 DEF WithIp
  <2>3. yes[k] \in Message /\ no[k] \in Message
    BY <1>4, <2>1 DEF Message
  <2>4. /\ yes[k].added = TRUE /\ yes[k].ip = s[k].ip
        /\ no[k].added = FALSE /\ no[k].ip = s[k].ip
    BY <2>1
  <2> HIDE DEF yes, no, X
  <2> QED BY <2>2, <2>3, <2>4 DEF Adds, Rems
<1>7. X \in SUBSET addrs /\ {} \in SUBSET addrs
  BY DEF WithIp
<1> HIDE DEF yes, no, X, n
<1>8. s \in Bijection(1 .. Len(yes), addrs) /\ s \in Bijection(1 .. Len(no), addrs)
  BY <1>2, <1>5
<1>9. CountAll(yes, Adds(ip)) = Cardinality(X) /\ CountAll(yes, Rems(ip)) = Cardinality({})
  BY <1>1, <1>5, <1>6, <1>7, <1>8, CountImage
<1>10. CountAll(no, Rems(ip)) = Cardinality(X) /\ CountAll(no, Adds(ip)) = Cardinality({})
  BY <1>1, <1>5, <1>6, <1>7, <1>8, CountImage
<1> QED BY <1>3, <1>9, <1>10, FS_EmptySet DEF X

(* The entries of a list with an address.                                  *)
EntrySet(list, ip) == {e \in (DOMAIN list) \X Addr : e[2] \in list[e[1]] /\ e[2].ip = ip}

LEMMA EntryFacts ==
    ASSUME NEW list \in List, NEW ip
    PROVE  /\ IsFiniteSet(EntrySet(list, ip)) /\ Entries(list, ip) \in Nat
           /\ Entries(list, ip) = Cardinality(EntrySet(list, ip))
<1>1. DOMAIN list \subseteq Ifaces
  BY ListFacts
<1>2. IsFiniteSet(DOMAIN list) /\ IsFiniteSet(Addr)
  BY <1>1, IfMonAssumption, FS_Subset
<1>3. IsFiniteSet((DOMAIN list) \X Addr)
  BY <1>2, FS_Product
<1>4. EntrySet(list, ip) \in SUBSET ((DOMAIN list) \X Addr)
  BY DEF EntrySet
<1>5. IsFiniteSet(EntrySet(list, ip))
  BY <1>3, <1>4, FS_Subset
<1> QED BY <1>5, FS_CardinalityType DEF Entries, EntrySet

(* What is written for the new interfaces.                                 *)
LEMMA NewCounts ==
    ASSUME prev_list \in List, curr_list \in List, NEW ip
    PROVE  LET g == [i \in NewIfaces |-> WithIp(curr_list[i], ip)]
           IN  /\ CountAll(FlattenSeq(ForNew), Adds(ip)) = Cardinality(Graph(NewIfaces, Addr, g))
               /\ CountAll(FlattenSeq(ForNew), Rems(ip)) = 0
<1> DEFINE g == [i \in NewIfaces |-> WithIp(curr_list[i], ip)]
           none == [i \in NewIfaces |-> {}]
           new == SetToSeq(NewIfaces)
<1>1. \A i \in DOMAIN curr_list : curr_list[i] \in SUBSET Addr
  BY ListFacts
<1>2. IsFiniteSet(NewIfaces) /\ ForNew \in Seq(Seq(Message)) /\ Len(ForNew) = Len(new)
  BY UpdateShape
<1>3. new \in Bijection(1 .. Len(ForNew), NewIfaces)
  BY <1>2, SetToSeqFacts
<1>4. new \in [1 .. Len(ForNew) -> NewIfaces]
  BY <1>3 DEF Bijection, Injection
<1>5. \A k \in 1 .. Len(ForNew) : ForNew[k] = Messages(TRUE, curr_list[new[k]])
  BY <1>2 DEF ForNew
<1> HIDE DEF new
<1>6. g \in [NewIfaces -> SUBSET Addr] /\ none \in [NewIfaces -> SUBSET Addr]
  BY <1>1 DEF NewIfaces, WithIp
<1>7. ASSUME NEW k \in 1 .. Len(ForNew)
      PROVE  /\ CountAll(ForNew[k], Adds(ip)) = Cardinality(g[new[k]])
             /\ CountAll(ForNew[k], Rems(ip)) = Cardinality(none[new[k]])
  <2>1. new[k] \in NewIfaces
    BY <1>4
  <2>2. curr_list[new[k]] \in SUBSET Addr
    BY <1>1, <2>1 DEF NewIfaces
  <2>3. g[new[k]] = WithIp(curr_list[new[k]], ip) /\ none[new[k]] = {}
    BY <2>1
  <2> QED BY <1>5, <2>2, <2>3, MessagesCount, FS_EmptySet
<1>8. IsFiniteSet(Addr)
  BY IfMonAssumption
<1>9. Graph(NewIfaces, Addr, none) = {}
  BY DEF Graph
<1> HIDE DEF g, none
<1>10. CountAll(FlattenSeq(ForNew), Adds(ip)) = Cardinality(Graph(NewIfaces, Addr, g))
  <2>1. CountsAre(NewIfaces, Addr, g, Message, ForNew, Adds(ip), new)
    BY <1>2, <1>3, <1>6, <1>7, <1>8 DEF CountsAre
  <2> QED BY <2>1, FlattenCount
<1>11. CountAll(FlattenSeq(ForNew), Rems(ip)) = Cardinality(Graph(NewIfaces, Addr, none))
  <2>1. CountsAre(NewIfaces, Addr, none, Message, ForNew, Rems(ip), new)
    BY <1>2, <1>3, <1>6, <1>7, <1>8 DEF CountsAre
  <2> QED BY <2>1, FlattenCount
<1> QED BY <1>9, <1>10, <1>11, FS_EmptySet DEF g

(* What is written for the changed ones.                                   *)
LEMMA ChangedCounts ==
    ASSUME prev_list \in List, curr_list \in List, NEW ip
    PROVE  LET g == [i \in Changed |-> WithIp(curr_list[i] \ prev_list[i], ip)]
               h == [i \in Changed |-> WithIp(prev_list[i] \ curr_list[i], ip)]
           IN  /\ CountAll(FlattenSeq(ForChanged), Adds(ip)) = Cardinality(Graph(Changed, Addr, g))
               /\ CountAll(FlattenSeq(ForChanged), Rems(ip)) = Cardinality(Graph(Changed, Addr, h))
<1> DEFINE g == [i \in Changed |-> WithIp(curr_list[i] \ prev_list[i], ip)]
           h == [i \in Changed |-> WithIp(prev_list[i] \ curr_list[i], ip)]
           mod == SetToSeq(Changed)
<1>1. \A i \in Changed : /\ curr_list[i] \ prev_list[i] \in SUBSET Addr
                        /\ prev_list[i] \ curr_list[i] \in SUBSET Addr
  BY ListFacts DEF Changed
<1>2. IsFiniteSet(Changed) /\ ForChanged \in Seq(Seq(Message)) /\ Len(ForChanged) = Len(mod)
  BY UpdateShape
<1>3. mod \in Bijection(1 .. Len(ForChanged), Changed)
  BY <1>2, SetToSeqFacts
<1>4. mod \in [1 .. Len(ForChanged) -> Changed]
  BY <1>3 DEF Bijection, Injection
<1>5. \A k \in 1 .. Len(ForChanged) :
         ForChanged[k] = Messages(TRUE, curr_list[mod[k]] \ prev_list[mod[k]])
                         \o Messages(FALSE, prev_list[mod[k]] \ curr_list[mod[k]])
  BY <1>2 DEF ForChanged
<1> HIDE DEF mod
<1>6. g \in [Changed -> SUBSET Addr] /\ h \in [Changed -> SUBSET Addr]
  BY <1>1 DEF WithIp
<1>7. ASSUME NEW k \in 1 .. Len(ForChanged)
      PROVE  /\ CountAll(ForChanged[k], Adds(ip)) = Cardinality(g[mod[k]])
             /\ CountAll(ForChanged[k], Rems(ip)) = Cardinality(h[mod[k]])
  <2>1. mod[k] \in Changed
    BY <1>4
  <2> DEFINE more == curr_list[mod[k]] \ prev_list[mod[k]]
             less == prev_list[mod[k]] \ curr_list[mod[k]]
             p == Messages(TRUE, more)
             q == Messages(FALSE, less)
  <2>2. /\ more \in SUBSET Addr /\ less \in SUBSET Addr
        /\ g[mod[k]] = WithIp(more, ip) /\ h[mod[k]] = WithIp(less, ip)
        /\ ForChanged[k] = p \o q
    BY <1>1, <1>5, <2>1
  <2> HIDE DEF more, less
  <2>3. p \in Seq(Message) /\ q \in Seq(Message)
    BY <2>2, MessagesType
  <2>4. /\ CountAll(p, Adds(ip)) = Cardinality(WithIp(more, ip)) /\ CountAll(p, Rems(ip)) = 0
        /\ CountAll(q, Rems(ip)) = Cardinality(WithIp(less, ip)) /\ CountAll(q, Adds(ip)) = 0
    BY <2>2, MessagesCount
  <2> HIDE DEF p, q
  <2>5. ConcatCounts(p, q, p \o q, Adds(ip)) /\ ConcatCounts(p, q, p \o q, Rems(ip))
    BY <2>3, CountConcat
  <2>6. Len(p) \in Nat /\ Len(q) \in Nat
    BY <2>3
  <2>7. CountAll(p, Adds(ip)) \in Nat /\ CountAll(q, Rems(ip)) \in Nat
    BY <2>6, CountFacts DEF CountAll
  <2> QED BY <2>2, <2>4, <2>5, <2>7 DEF ConcatCounts
<1>8. IsFiniteSet(Addr)
  BY IfMonAssumption
<1> HIDE DEF g, h
<1>9. CountAll(FlattenSeq(ForChanged), Adds(ip)) = Cardinality(Graph(Changed, Addr, g))
  <2>1. CountsAre(Changed, Addr, g, Message, ForChanged, Adds(ip), mod)
    BY <1>2, <1>3, <1>6, <1>7, <1>8 DEF CountsAre
  <2> QED BY <2>1, FlattenCount
<1>10. CountAll(FlattenSeq(ForChanged), Rems(ip)) = Cardinality(Graph(Changed, Addr, h))
  <2>1. CountsAre(Changed, Addr, h, Message, ForChanged, Rems(ip), mod)
    BY <1>2, <1>3, <1>6, <1>7, <1>8 DEF CountsAre
  <2> QED BY <2>1, FlattenCount
<1> QED BY <1>9, <1>10 DEF g, h

(* No interface with the address vanished.                                 *)
NoneVanished(ip) ==
    \A i \in DOMAIN prev_list \ DOMAIN curr_list : \A a \in prev_list[i] : a.ip # ip

(* Then on_ifmon_update writes the difference between the two lists.       *)
LEMMA UpdateCounts ==
    ASSUME prev_list \in List, curr_list \in List, NEW ip, NoneVanished(ip)
    PROVE  LET msgs == UpdateMessages(GenerateUpdate(prev_list, curr_list))
           IN  /\ CountAll(msgs, Rems(ip)) <= Entries(prev_list, ip)
               /\ Entries(prev_list, ip) + CountAll(msgs, Adds(ip))
                     = Entries(curr_list, ip) + CountAll(msgs, Rems(ip))
<1> DEFINE msgs == UpdateMessages(GenerateUpdate(prev_list, curr_list))
           P == EntrySet(prev_list, ip)
           C == EntrySet(curr_list, ip)
           g1 == [i \in NewIfaces |-> WithIp(curr_list[i], ip)]
           g2 == [i \in Changed |-> WithIp(curr_list[i] \ prev_list[i], ip)]
           g3 == [i \in Changed |-> WithIp(prev_list[i] \ curr_list[i], ip)]
           G1 == Graph(NewIfaces, Addr, g1)
           G2 == Graph(Changed, Addr, g2)
           G3 == Graph(Changed, Addr, g3)
           A == Adds(ip)
           R == Rems(ip)
<1>1. /\ CountAll(FlattenSeq(ForNew), A) = Cardinality(G1)
      /\ CountAll(FlattenSeq(ForNew), R) = 0
      /\ CountAll(FlattenSeq(ForChanged), A) = Cardinality(G2)
      /\ CountAll(FlattenSeq(ForChanged), R) = Cardinality(G3)
  BY NewCounts, ChangedCounts
<1>2. FlattenSeq(ForNew) \in Seq(Message) /\ FlattenSeq(ForChanged) \in Seq(Message)
  BY UpdateShape, FlattenSeqType
<1>3. msgs = FlattenSeq(ForNew) \o FlattenSeq(ForChanged)
  BY UpdateShape
<1>4. CountAll(msgs, A) = Cardinality(G1) + Cardinality(G2)
      /\ CountAll(msgs, R) = 0 + Cardinality(G3)
  <2> DEFINE p == FlattenSeq(ForNew)
             q == FlattenSeq(ForChanged)
  <2>1. ConcatCounts(p, q, p \o q, A) /\ ConcatCounts(p, q, p \o q, R)
    BY <1>2, CountConcat
  <2> HIDE DEF A, R, G1, G2, G3, msgs, p, q
  <2> QED BY <1>1, <1>3, <2>1 DEF ConcatCounts, p, q
<1>5. /\ \A i, a : <<i, a>> \in P <=> i \in DOMAIN prev_list /\ a \in Addr
                                    /\ a \in prev_list[i] /\ a.ip = ip
      /\ \A i, a : <<i, a>> \in C <=> i \in DOMAIN curr_list /\ a \in Addr
                                    /\ a \in curr_list[i] /\ a.ip = ip
      /\ \A i, a : <<i, a>> \in G1 <=> i \in NewIfaces /\ a \in Addr
                                     /\ a \in curr_list[i] /\ a.ip = ip
      /\ \A i, a : <<i, a>> \in G2 <=> i \in Changed /\ a \in Addr
                                     /\ a \in curr_list[i] \ prev_list[i] /\ a.ip = ip
      /\ \A i, a : <<i, a>> \in G3 <=> i \in Changed /\ a \in Addr
                                     /\ a \in prev_list[i] \ curr_list[i] /\ a.ip = ip
  BY DEF EntrySet, Graph, WithIp
<1>6. /\ \A e \in P : e = <<e[1], e[2]>>
      /\ \A e \in C : e = <<e[1], e[2]>>
      /\ \A e \in G1 \cup G2 \cup G3 : e = <<e[1], e[2]>>
  BY DEF EntrySet, Graph
<1> HIDE DEF P, C, G1, G2, G3, A, R, msgs
<1>7. /\ \A i, a : <<i, a>> \in C \ P <=> <<i, a>> \in G1 \cup G2
      /\ \A i, a : ~(<<i, a>> \in G1 /\ <<i, a>> \in G2)
      /\ \A i, a : <<i, a>> \in P \ C <=> <<i, a>> \in G3
  BY <1>5 DEF NewIfaces, Changed, NoneVanished
<1>8. C \ P = G1 \cup G2 /\ G1 \cap G2 = {} /\ P \ C = G3
  <2>1. \A e : e \in C \ P => e \in G1 \cup G2
    BY <1>6, <1>7
  <2>2. \A e : e \in G1 \cup G2 => e \in C \ P
    BY <1>6, <1>7
  <2>3. \A e : ~(e \in G1 /\ e \in G2)
    BY <1>6, <1>7
  <2>4. \A e : e \in P \ C <=> e \in G3
    BY <1>6, <1>7
  <2> QED BY <2>1, <2>2, <2>3, <2>4
<1>9. /\ IsFiniteSet(P) /\ IsFiniteSet(C)
      /\ Entries(prev_list, ip) = Cardinality(P) /\ Entries(curr_list, ip) = Cardinality(C)
  BY EntryFacts DEF P, C
<1>10. /\ IsFiniteSet(C \ P) /\ Cardinality(C \ P) = Cardinality(C) - Cardinality(C \cap P)
       /\ IsFiniteSet(P \ C) /\ Cardinality(P \ C) = Cardinality(P) - Cardinality(P \cap C)
  BY <1>9, FS_Difference
<1>11. IsFiniteSet(G1) /\ IsFiniteSet(G2) /\ IsFiniteSet(C \cap P)
  BY <1>8, <1>9, <1>10, FS_Subset
<1>12. Cardinality(G1 \cup G2) = Cardinality(G1) + Cardinality(G2) - Cardinality(G1 \cap G2)
  BY <1>11, FS_Union
<1>13. /\ Cardinality(P) \in Nat /\ Cardinality(C) \in Nat /\ Cardinality(C \cap P) \in Nat
       /\ Cardinality(G1) \in Nat /\ Cardinality(G2) \in Nat /\ Cardinality({}) = 0
       /\ Cardinality(G3) \in Nat
  BY <1>8, <1>9, <1>10, <1>11, FS_CardinalityType, FS_EmptySet
<1> DEFINE p == Cardinality(P)
           c == Cardinality(C)
           both == Cardinality(C \cap P)
           x == Cardinality(G1)
           y == Cardinality(G2)
           z == Cardinality(G3)
<1>14. /\ p \in Nat /\ c \in Nat /\ both \in Nat /\ x \in Nat /\ y \in Nat /\ z \in Nat
       /\ x + y - 0 = c - both /\ z = p - both
  <2>1. P \cap C = C \cap P
    OBVIOUS
  <2> QED BY <1>8, <1>10, <1>12, <1>13, <2>1
<1> HIDE DEF p, c, both, x, y, z
<1>15. 0 + z <= p /\ p + (x + y) = c + (0 + z)
  BY <1>14
<1>16. CountAll(msgs, A) = x + y /\ CountAll(msgs, R) = 0 + z
       /\ Entries(prev_list, ip) = p /\ Entries(curr_list, ip) = c
  BY <1>4, <1>9 DEF p, c, x, y, z
<1>17. CountAll(msgs, R) <= Entries(prev_list, ip)
  BY <1>15, <1>16
<1>18. Entries(prev_list, ip) + CountAll(msgs, A) = Entries(curr_list, ip) + CountAll(msgs, R)
  BY <1>15, <1>16
<1> QED BY <1>17, <1>18 DEF msgs, A, R

-----------------------------------------------------------------------------
(* What Mirrored needs: nothing is written before the event socket is      *)
(* open, and the messages in the pipe and those still to be written lead   *)
(* from the links to the monitor's list without closing a link that is not *)
(* there.                                                                  *)
MirrorOK ==
    /\ ~opened => pipe = <<>> /\ out = <<>>
    /\ watch = "open" => ~opened
    /\ opened => \A ip \in Ips \ diverged :
          Balanced(LinksWith(ip), Entries(prev_list, ip), pipe \o out, ip)

(* Steps that neither write, read nor report.                              *)
LEMMA MirrorUntouched ==
    ASSUME MirrorOK, UNCHANGED <<out, pipe, linkVars, diverged, opened>>,
           opened => prev_list' = prev_list, watch' = "open" => ~opened
    PROVE  MirrorOK'
<1>1. \A ip : LinksWith(ip)' = LinksWith(ip)
  BY DEF LinksWith, linkVars
<1>2. opened => \A ip : Entries(prev_list, ip)' = Entries(prev_list, ip)
  BY DEF Entries
<1>3. ASSUME opened, NEW ip \in Ips \ diverged
      PROVE  Balanced(LinksWith(ip)', Entries(prev_list, ip)', pipe \o out, ip)
  BY <1>1, <1>2, <1>3 DEF MirrorOK
<1>4. opened' => \A ip \in Ips \ diverged' :
         Balanced(LinksWith(ip)', Entries(prev_list, ip)', (pipe \o out)', ip)
  BY <1>3
<1> QED BY <1>4 DEF MirrorOK

LEMMA InitMirror == Init => MirrorOK
  BY DEF Init, IfMonInit, MirrorOK

(* The callback writes a message, or finds the pipe full.                  *)
LEMMA WritePipeMirror ==
    ASSUME IInv, MonitorOK, MirrorOK, WritePipe
    PROVE  MirrorOK'
<1> DEFINE h == Head(out)
           t == Tail(out)
<1>1. /\ out # <<>> /\ out' = t /\ UNCHANGED <<ifmonVars, linkVars>>
      /\ \/ pipe' = Append(pipe, h) /\ UNCHANGED diverged
         \/ diverged' = diverged \cup {h.ip} /\ UNCHANGED pipe
  BY DEF WritePipe
<1>2. /\ pipe \in Seq(Message) /\ h \in Message /\ t \in Seq(Message) /\ out = <<h>> \o t
  <2> HIDE DEF Message
  <2>1. out \in Seq(Message) /\ pipe \in Seq(Message)
    BY DEF MonitorOK
  <2> QED BY <1>1, <2>1
<1>3. prev_list' = prev_list /\ opened' = opened /\ watch' = watch /\ opened
  BY <1>1 DEF ifmonVars, MirrorOK
<1> HIDE DEF h, t
<1>4. \A ip : LinksWith(ip)' = LinksWith(ip) /\ Entries(prev_list, ip)' = Entries(prev_list, ip)
  BY <1>1, <1>3 DEF LinksWith, Entries, linkVars
<1>5. ASSUME NEW ip \in Ips \ diverged'
      PROVE  Balanced(LinksWith(ip), Entries(prev_list, ip), pipe' \o out', ip)
  <2>1. ip \in Ips \ diverged
    BY <1>1, <1>5
  <2>2. Balanced(LinksWith(ip), Entries(prev_list, ip), pipe \o (<<h>> \o t), ip)
    BY <1>2, <1>3, <2>1 DEF MirrorOK
  <2>3. CASE pipe' = Append(pipe, h)
    <3>1. Append(pipe, h) \o t = pipe \o (<<h>> \o t)
      <4> HIDE DEF Message
      <4>1. Append(pipe, h) = pipe \o <<h>> /\ <<h>> \in Seq(Message)
        BY <1>2, AppendIsConcat
      <4> QED BY <1>2, <4>1, ConcatAssociative
    <3> QED BY <1>1, <2>2, <2>3, <3>1
  <2>4. CASE diverged' = diverged \cup {h.ip} /\ pipe' = pipe
    <3>1. h.ip # ip
      BY <1>5, <2>4
    <3>2. h \notin Adds(ip) \cup Rems(ip)
      BY <3>1, Disjoint
    <3>3. LinksWith(ip) \in Nat /\ Entries(prev_list, ip) \in Nat
      BY LinkCount, EntryFacts DEF MonitorOK
    <3>4. Balanced(LinksWith(ip), Entries(prev_list, ip), pipe \o t, ip)
      BY <1>2, <2>2, <3>2, <3>3, BalancedWithout
    <3> QED BY <1>1, <2>4, <3>4
  <2> QED BY <1>1, <2>3, <2>4
<1>6. opened' => \A ip \in Ips \ diverged' :
         Balanced(LinksWith(ip)', Entries(prev_list, ip)', pipe' \o out', ip)
  BY <1>4, <1>5
<1>7. watch' = "open" => ~opened'
  BY <1>3 DEF MirrorOK
<1> QED BY <1>3, <1>6, <1>7 DEF MirrorOK

(* The monitor reports a new list.                                         *)
LEMMA UpdateMirror ==
    ASSUME IInv, MonitorOK, MirrorOK, out = <<>>, OnIfmonUpdate
    PROVE  MirrorOK'
<1> DEFINE up == GenerateUpdate(prev_list, curr_list)
<1>1. /\ out' = UpdateMessages(up) /\ UNCHANGED <<pipe, linkVars>>
      /\ diverged' = diverged \cup
            {ip \in Ips : \E i \in up.removed : \E a \in prev_list[i] : a.ip = ip}
      /\ opened /\ opened' = opened /\ prev_list' = curr_list /\ watch' = "poll"
  BY DEF OnIfmonUpdate, Report
<1>2. up.removed = DOMAIN prev_list \ DOMAIN curr_list
  BY DEF GenerateUpdate
<1>3. prev_list \in List /\ curr_list \in List /\ pipe \in Seq(Message)
  BY DEF MonitorOK
<1>4. out' \in Seq(Message)
  BY <1>1, <1>3, UpdateMessagesType
<1>5. \A ip : LinksWith(ip)' = LinksWith(ip) /\ Entries(prev_list, ip)' = Entries(curr_list, ip)
  BY <1>1 DEF LinksWith, Entries, linkVars
<1>6. ASSUME NEW ip \in Ips \ diverged'
      PROVE  Balanced(LinksWith(ip), Entries(curr_list, ip), pipe \o out', ip)
  <2>1. ip \in Ips \ diverged /\ NoneVanished(ip)
    BY <1>1, <1>2, <1>6 DEF NoneVanished
  <2>2. pipe \o out = pipe
    <3> HIDE DEF Message
    <3> QED BY <1>3
  <2>3. Balanced(LinksWith(ip), Entries(prev_list, ip), pipe, ip)
    BY <1>1, <2>1, <2>2 DEF MirrorOK
  <2>4. /\ CountAll(out', Rems(ip)) <= Entries(prev_list, ip)
        /\ Entries(prev_list, ip) + CountAll(out', Adds(ip))
              = Entries(curr_list, ip) + CountAll(out', Rems(ip))
    BY <1>1, <1>3, <2>1, UpdateCounts
  <2>5. LinksWith(ip) \in Nat /\ Entries(prev_list, ip) \in Nat /\ Entries(curr_list, ip) \in Nat
    BY <1>3, LinkCount, EntryFacts
  <2> QED BY <1>3, <1>4, <2>3, <2>4, <2>5, BalancedUpdate
<1>7. opened' => \A ip \in Ips \ diverged' :
         Balanced(LinksWith(ip)', Entries(prev_list, ip)', pipe' \o out', ip)
  BY <1>1, <1>5, <1>6
<1>8. opened' /\ watch' # "open"
  BY <1>1
<1> QED BY <1>7, <1>8 DEF MirrorOK

(* The event socket is opened.                                             *)
LEMMA StartMirror ==
    ASSUME IInv, MonitorOK, MirrorOK, StartWatching
    PROVE  MirrorOK'
<1>1. /\ opened' = TRUE /\ watch = "open" /\ watch' = "poll" /\ UNCHANGED prev_list
      /\ diverged' = {ip \in Ips : LinksWith(ip) # Entries(prev_list, ip)}
      /\ UNCHANGED <<out, pipe, linkVars>>
  BY DEF StartWatching, OpenEventSocket
<1>2. pipe = <<>> /\ out = <<>>
  BY <1>1 DEF MirrorOK
<1>3. <<>> \o <<>> = <<>> /\ Len(<<>>) = 0
  OBVIOUS
<1>4. \A ip : LinksWith(ip)' = LinksWith(ip) /\ Entries(prev_list, ip)' = Entries(prev_list, ip)
  BY <1>1 DEF LinksWith, Entries, linkVars
<1>5. ASSUME NEW ip \in Ips \ diverged'
      PROVE  Balanced(LinksWith(ip), Entries(prev_list, ip), <<>>, ip)
  <2> DEFINE l == LinksWith(ip)
             n == Entries(prev_list, ip)
             q == <<>>
  <2>1. l = n /\ l \in Nat
    BY <1>1, <1>5, LinkCount
  <2>2. Len(q) = 0
    OBVIOUS
  <2> HIDE DEF l, n, q
  <2>3. CountTo(q, 0, Adds(ip)) = 0 /\ CountTo(q, 0, Rems(ip)) = 0
    BY CountFacts
  <2>4. Balanced(l, n, q, ip)
    BY <2>1, <2>2, <2>3 DEF Balanced, CountAll
  <2> QED BY <2>4 DEF l, n, q
<1>6. opened' => \A ip \in Ips \ diverged' :
         Balanced(LinksWith(ip)', Entries(prev_list, ip)', pipe' \o out', ip)
  BY <1>1, <1>2, <1>3, <1>4, <1>5
<1> QED BY <1>1, <1>6 DEF MirrorOK

(* What the tick makes of the links when it reads that an address was      *)
(* added or removed.                                                       *)
LEMMA TickAddedCount ==
    ASSUME IInv, NEW a, TickAdded(a), NEW x
    PROVE  /\ num_fds' = num_fds => LinksWith(x)' = LinksWith(x) /\ a \in diverged'
           /\ num_fds' # num_fds => LinksWith(x)' = LinksWith(x) + IF x = a THEN 1 ELSE 0
           /\ diverged \subseteq diverged'
<1>1. LinkInv /\ num_fds \in Nat
  BY DEF IInv, LinkInv, LinkTypes
<1>2. \/ UNCHANGED linkVars
      \/ num_fds < TRANSPORT_MAX_PATHS /\ OpenLink(a)
  BY DEF TickAdded
<1>3. diverged' = IF num_fds' = num_fds THEN diverged \cup {a} ELSE diverged
  BY DEF TickAdded
<1>4. CASE UNCHANGED linkVars
  BY <1>3, <1>4 DEF LinksWith, linkVars
<1>5. CASE num_fds < TRANSPORT_MAX_PATHS /\ OpenLink(a)
  <2>1. CASE num_fds' = num_fds
    <3>1. ~(num_fds' = num_fds + 1)
      BY <1>1, <2>1
    <3>2. UNCHANGED linkVars
      BY <1>5, <3>1 DEF OpenLink
    <3> QED BY <1>4, <3>2
  <2>2. CASE num_fds' # num_fds
    BY <1>1, <1>3, <1>5, <2>2, OpenLinkCount
  <2> QED BY <2>1, <2>2
<1> QED BY <1>2, <1>4, <1>5

LEMMA TickRemovedCount ==
    ASSUME IInv, NEW a, TickRemoved(a), NEW x
    PROVE  /\ LinksWith(x)' = LinksWith(x) - IF x = a /\ LinkSlots(a) # {} THEN 1 ELSE 0
           /\ diverged' = diverged
<1>1. LinkInv /\ LinksWith(x) \in Nat
  BY LinkCount DEF IInv
<1>2. diverged' = diverged
  BY DEF TickRemoved
<1>3. CASE LinkSlots(a) = {}
  <2>1. UNCHANGED linkVars
    BY <1>3 DEF TickRemoved
  <2>2. LinksWith(x)' = LinksWith(x)
    BY <2>1 DEF LinksWith, linkVars
  <2> QED BY <1>1, <1>2, <1>3, <2>2
<1>4. CASE LinkSlots(a) # {}
  <2> DEFINE i == Min(LinkSlots(a))
  <2>1. CloseLink(i)
    BY <1>4 DEF TickRemoved
  <2>2. i \in Slots /\ i < num_fds /\ local_addrs[i] = a
    BY <1>4, FirstLink
  <2> HIDE DEF i
  <2>3. LinksWith(x)' = LinksWith(x) - IF x = local_addrs[i] THEN 1 ELSE 0
    BY <1>1, <2>1, <2>2, CloseLinkCount
  <2> QED BY <1>2, <1>4, <2>2, <2>3
<1> QED BY <1>3, <1>4

LEMMA TickMirror ==
    ASSUME IInv, MonitorOK, MirrorOK, Tick
    PROVE  MirrorOK'
<1> DEFINE h == Head(pipe)
           q == Tail(pipe) \o out
<1>1. /\ pipe # <<>> /\ pipe' = Tail(pipe) /\ UNCHANGED <<ifmonVars, out>>
      /\ \/ h.added /\ TickAdded(h.ip)
         \/ ~h.added /\ TickRemoved(h.ip)
  BY DEF Tick
<1>2. pipe' \o out' = q
  BY <1>1
<1>3. h \in Message /\ q \in Seq(Message) /\ pipe \o out = <<h>> \o q
  <2> HIDE DEF Message
  <2>1. out \in Seq(Message) /\ pipe \in Seq(Message)
    BY DEF MonitorOK
  <2> DEFINE t == Tail(pipe)
  <2>2. h \in Message /\ t \in Seq(Message) /\ pipe = <<h>> \o t /\ <<h>> \in Seq(Message)
    BY <1>1, <2>1
  <2> HIDE DEF t, h
  <2>3. (<<h>> \o t) \o out = <<h>> \o (t \o out)
    BY <2>1, <2>2, ConcatAssociative
  <2> QED BY <2>1, <2>2, <2>3 DEF t
<1>4. prev_list' = prev_list /\ opened' = opened /\ watch' = watch /\ opened
  BY <1>1 DEF ifmonVars, MirrorOK
<1>5. \A ip : Entries(prev_list, ip)' = Entries(prev_list, ip)
  BY <1>4 DEF Entries
<1>6. /\ h.added => \A ip : h.ip = ip => h \in Adds(ip)
      /\ ~h.added => \A ip : h.ip = ip => h \in Rems(ip)
      /\ \A ip : h.ip # ip => h \notin Adds(ip) \cup Rems(ip)
  <2>1. h.added \in BOOLEAN
    BY <1>3 DEF Message
  <2> HIDE DEF h
  <2>2. /\ h.added => h.added = TRUE
        /\ ~h.added => h.added = FALSE
    BY <2>1
  <2> QED BY <1>3, <2>2 DEF Adds, Rems
<1> HIDE DEF h, q
<1>7. ASSUME NEW ip \in Ips \ diverged'
      PROVE  Balanced(LinksWith(ip)', Entries(prev_list, ip), q, ip)
  <2> DEFINE l == LinksWith(ip)
             n == Entries(prev_list, ip)
  <2>1. l \in Nat /\ n \in Nat
    BY LinkCount, EntryFacts DEF MonitorOK
  <2>2. ASSUME ip \notin diverged
        PROVE  /\ h \in Adds(ip) => Balanced(l + 1, n, q, ip)
               /\ h \in Rems(ip) => l > 0 /\ Balanced(l - 1, n, q, ip)
               /\ h \notin Adds(ip) \cup Rems(ip) => Balanced(l, n, q, ip)
    <3>1. Balanced(l, n, <<h>> \o q, ip)
      BY <1>3, <1>4, <1>7, <2>2 DEF MirrorOK
    <3> HIDE DEF l, n
    <3> QED BY <1>3, <2>1, <3>1, BalancedRead
  <2>3. CASE h.added /\ TickAdded(h.ip)
    <3>1. /\ num_fds' = num_fds => LinksWith(ip)' = l /\ h.ip \in diverged'
          /\ num_fds' # num_fds => LinksWith(ip)' = l + IF ip = h.ip THEN 1 ELSE 0
          /\ diverged \subseteq diverged'
      BY <2>3, TickAddedCount
    <3> HIDE DEF l, n
    <3>2. CASE ip = h.ip
      <4>1. LinksWith(ip)' = l + 1 /\ h \in Adds(ip)
        BY <1>6, <1>7, <2>3, <3>1, <3>2
      <4> QED BY <1>7, <2>2, <3>1, <4>1 DEF n
    <3>3. CASE ip # h.ip
      <4>1. LinksWith(ip)' = l /\ h \notin Adds(ip) \cup Rems(ip)
        BY <1>6, <2>1, <3>1, <3>3
      <4> QED BY <1>7, <2>2, <3>1, <4>1 DEF n
    <3> QED BY <3>2, <3>3
  <2>4. CASE ~h.added /\ TickRemoved(h.ip)
    <3>1. /\ LinksWith(ip)' = l - IF ip = h.ip /\ LinkSlots(h.ip) # {} THEN 1 ELSE 0
          /\ diverged' = diverged
      BY <2>4, TickRemovedCount
    <3>2. l > 0 => LinkSlots(ip) # {}
      BY LinkCount
    <3> HIDE DEF l, n
    <3>3. CASE ip = h.ip
      <4>1. h \in Rems(ip)
        BY <1>6, <2>4, <3>3
      <4>2. l > 0 /\ Balanced(l - 1, n, q, ip)
        BY <1>7, <2>2, <3>1, <4>1
      <4>3. LinksWith(ip)' = l - 1
        BY <3>1, <3>2, <3>3, <4>2
      <4> QED BY <4>2, <4>3 DEF n
    <3>4. CASE ip # h.ip
      <4>1. LinksWith(ip)' = l /\ h \notin Adds(ip) \cup Rems(ip)
        BY <1>6, <2>1, <3>1, <3>4
      <4> QED BY <1>7, <2>2, <3>1, <4>1 DEF n
    <3> QED BY <3>3, <3>4
  <2> QED BY <1>1, <2>3, <2>4
<1>8. opened' => \A ip \in Ips \ diverged' :
         Balanced(LinksWith(ip)', Entries(prev_list, ip)', pipe' \o out', ip)
  BY <1>2, <1>5, <1>7
<1>9. watch' = "open" => ~opened'
  BY <1>4 DEF MirrorOK
<1> QED BY <1>4, <1>8, <1>9 DEF MirrorOK

(* The steps of the kernel and the monitor's reading leave pipe and links  *)
(* alone.                                                                  *)
LEMMA NextMirror ==
    ASSUME IInv, MonitorOK, MirrorOK, [Next]_vars
    PROVE  MirrorOK'
<1>1. CASE Kernel
  BY <1>1, MirrorUntouched DEF Kernel, Change, KernelChange, MirrorOK
<1>3. CASE UNCHANGED vars
  BY <1>3, MirrorUntouched DEF vars, ifmonVars, MirrorOK
<1>4. CASE Watcher
  <2>1. CASE WritePipe
    BY <2>1, WritePipeMirror
  <2>2. CASE out = <<>> /\ OnIfmonUpdate
    BY <2>2, UpdateMirror
  <2>3. CASE StartWatching
    BY <2>3, StartMirror
  <2>4. ASSUME Drain \/ DumpLinks \/ DumpAddrs \/ ListFails \/ FirstList,
               UNCHANGED <<out, pipe, linkVars, diverged>>
        PROVE  MirrorOK'
    <3>1. opened' = opened
      BY <2>4 DEF Drain, DumpLinks, DumpAddrs, ListFails, FirstList
    <3>2. opened => prev_list' = prev_list
      BY <2>4 DEF Drain, DumpLinks, DumpAddrs, ListFails, FirstList
    <3>3. watch' = "open" => ~opened
      BY <2>4 DEF Drain, DumpLinks, DumpAddrs, ListFails, FirstList
    <3> QED BY <2>4, <3>1, <3>2, <3>3, MirrorUntouched
  <2> QED BY <1>4, <2>1, <2>2, <2>3, <2>4 DEF Watcher
<1> QED BY <1>1, <1>3, <1>4, TickMirror DEF Next

(* Whatever the size of the pipe and the number of interfaces, addresses   *)
(* and paths: the messages on_ifmon_update has written and not yet written *)
(* are exactly the difference between the links of transport_quicly.c and  *)
(* the monitor's list, for every address that did not diverge.             *)
THEOREM LinksMirrored == Spec => []Mirrored
<1>1. Init => MonitorOK /\ MirrorOK
  BY InitMonitor, InitMirror
<1>2. IInv /\ MonitorOK /\ MirrorOK /\ [Next]_vars => MirrorOK'
  BY NextMirror
<1>3. MonitorOK /\ MirrorOK => Mirrored
  <2> SUFFICES ASSUME MonitorOK, MirrorOK, NEW ip \in Ips \ diverged, opened
               PROVE  LinksWith(ip) + Pending(TRUE, ip)
                        = Entries(prev_list, ip) + Pending(FALSE, ip)
    BY DEF Mirrored
  <2> DEFINE q == pipe \o out
  <2>1. q \in Seq(Message)
    BY ConcatIsSeq, Zenon DEF MonitorOK
  <2>2. Balanced(LinksWith(ip), Entries(prev_list, ip), q, ip)
    BY DEF MirrorOK
  <2> HIDE DEF q
  <2>3. DOMAIN q = 1 .. Len(q) /\ \A k \in DOMAIN q : q[k] \in Message
    <3> HIDE DEF Message
    <3> QED BY <2>1
  <2>4. /\ {k \in DOMAIN q : q[k].added = TRUE /\ q[k].ip = ip}
             = {k \in 1 .. Len(q) : q[k] \in Adds(ip)}
        /\ {k \in DOMAIN q : q[k].added = FALSE /\ q[k].ip = ip}
             = {k \in 1 .. Len(q) : q[k] \in Rems(ip)}
    BY <2>3 DEF Adds, Rems
  <2>5. Pending(TRUE, ip) = CountAll(q, Adds(ip)) /\ Pending(FALSE, ip) = CountAll(q, Rems(ip))
    BY <2>4 DEF Pending, CountAll, CountTo, q
  <2> QED BY <2>2, <2>5 DEF Balanced
<1>4. IInv /\ MonitorOK /\ [Next]_vars => MonitorOK'
  BY NextMonitor
<1> QED BY <1>1, <1>2, <1>3, <1>4, LinksInvariance, PTL DEF Spec
=============================================================================
