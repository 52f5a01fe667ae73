------------------------- MODULE FecGroupingProofs -------------------------
(***************************************************************************)
(* Proofs about packet grouping: no packet is lost or repeated on its way  *)
(* through the grouping buffer, a group stays within its limits and is     *)
(* held for one round of the loop at most, and a peer that asks for FEC    *)
(* gets object ids it can tell apart and groups it takes apart, whatever   *)
(* its fellow peers ask for.                                               *)
(***************************************************************************)
EXTENDS FecGrouping, DataLemmas

(* The bytes of a group: none in an empty one, a number in any.            *)
LEMMA GroupSizeFacts ==
    ASSUME NEW buf \in Seq(Packet)
    PROVE  /\ GroupSize(buf) \in Nat
           /\ buf = <<>> => GroupSize(buf) = 0
<1> DEFINE n == Len(buf)
           size == [k \in 1 .. n |-> buf[k].size]
           F == [k \in 1 .. n |-> [x \in Nat |-> x + 2 + size[k]]]
           Is(g) == g = [k \in 0 .. n |-> IF k = 0 THEN 0 ELSE g[k - 1] + 2 + buf[k].size]
           total == CHOOSE g : Is(g)
<1>1. n \in Nat /\ \A k \in 1 .. n : size[k] \in Nat
  <2>1. \A k \in 1 .. n : buf[k] \in Packet
    OBVIOUS
  <2>2. \A p \in Packet : p.size \in Nat
    BY GroupingAssumption DEF Packet
  <2>3. n \in Nat
    OBVIOUS
  <2>4. \A k \in 1 .. n : size[k] = buf[k].size
    OBVIOUS
  <2> QED BY <2>1, <2>2, <2>3, <2>4
<1>2. \A k \in 1 .. n : size[k] = buf[k].size
  OBVIOUS
<1> HIDE DEF n, size
<1>3. \A k \in 1 .. n, x \in Nat : F[k][x] \in Nat /\ F[k][x] = x + 2 + size[k]
  BY <1>1
<1>4. PICK f \in [0 .. n -> Nat] : f[0] = 0 /\ \A k \in 1 .. n : f[k] = F[k][f[k - 1]]
  <2> HIDE DEF F
  <2>1. IsStep(F, n, Nat)
    BY <1>3 DEF IsStep
  <2>2. \E f \in [0 .. n -> Nat] : IsIteration(f, n, 0, F)
    BY <1>1, <2>1, IterationExists
  <2> QED BY <2>2 DEF IsIteration
<1> HIDE DEF F
<1>5. Is(f)
  <2>1. ASSUME NEW k \in 1 .. n PROVE f[k] = f[k - 1] + 2 + buf[k].size
    <3>1. k - 1 \in 0 .. n
      BY <1>1
    <3> QED BY <1>2, <1>3, <1>4, <3>1
  <2>2. ASSUME NEW k \in 0 .. n, k # 0 PROVE k \in 1 .. n
    BY <1>1, <2>2
  <2>3. \A k \in 0 .. n : f[k] = IF k = 0 THEN 0 ELSE f[k - 1] + 2 + buf[k].size
    BY <1>4, <2>1, <2>2
  <2> QED BY <2>3
<1>6. Is(total)
  <2> HIDE DEF Is
  <2> QED BY <1>5
<1>7. GroupSize(buf) = total[n]
  BY DEF GroupSize, n
<1> HIDE DEF total
<1>8. total[0] = 0 /\ \A k \in 1 .. n : total[k] = total[k - 1] + 2 + size[k]
  <2>1. 0 \in 0 .. n /\ \A k \in 1 .. n : k \in 0 .. n /\ k # 0
    BY <1>1
  <2> QED BY <1>2, <1>6, <2>1
<1> HIDE DEF Is
<1> DEFINE T == {k \in 0 .. n : total[k] \in Nat}
<1>9. 0 \in T
  BY <1>1, <1>8
<1>10. ASSUME NEW k \in 1 .. n, k - 1 \in T PROVE k \in T
  <2>1. total[k - 1] \in Nat /\ size[k] \in Nat /\ k \in 0 .. n
    BY <1>1, <1>10
  <2>2. total[k - 1] + 2 + size[k] \in Nat
    BY <2>1
  <2> QED BY <1>8, <2>1, <2>2
<1> HIDE DEF T
<1>11. 0 .. n \subseteq T
  BY <1>1, <1>9, <1>10, BoundedInduction
<1>12. n \in T
  BY <1>1, <1>11
<1>13. buf = <<>> => n = 0
  BY DEF n
<1> QED BY <1>7, <1>8, <1>12, <1>13 DEF T

-----------------------------------------------------------------------------
(* Conservation, of any batches B of which G says which are groups, with   *)
(* the ids below n given out.                                              *)
Lists(B, m) == DOMAIN B = 1 .. m /\ \A k \in 1 .. m : B[k] \in Seq(Packet)

AllThere(B, n) ==
    \A x \in 0 .. n - 1 : \E k \in DOMAIN B : \E i \in DOMAIN B[k] : B[k][i].id = x

Apart(B, G, n, k, i, l, j) ==
    /\ B[k][i].id < n
    /\ B[k][i].id = B[l][j].id => k = l /\ i = j
    /\ G[k] /\ G[l] /\ (k < l \/ (k = l /\ i < j)) => B[k][i].id < B[l][j].id

AllApart(B, G, n) ==
    \A k, l \in DOMAIN B : \A i \in DOMAIN B[k], j \in DOMAIN B[l] :
        Apart(B, G, n, k, i, l, j)

Conserved(B, G, n) == AllThere(B, n) /\ AllApart(B, G, n)

LEMMA ConservationIs == Conservation <=> Conserved(Batches, Grouped, data_object_id)
BY DEF Conservation, Conserved, AllThere, AllApart, Apart

LEMMA ListFacts ==
    ASSUME NEW B, NEW m \in Nat, Lists(B, m), NEW k \in 1 .. m
    PROVE  /\ Len(B[k]) \in Nat
           /\ DOMAIN B[k] = 1 .. Len(B[k])
           /\ \A i \in 1 .. Len(B[k]) : B[k][i] \in Packet /\ B[k][i].id \in Nat
<1>1. B[k] \in Seq(Packet)
  BY DEF Lists
<1>2. \A p \in Packet : p.id \in Nat
  BY DEF Packet
<1> QED BY <1>1, <1>2

(* The next packet goes into the last batch ...                            *)
LEMMA ConservedByKeeping ==
    ASSUME NEW B, NEW G, NEW C, NEW n \in Nat, NEW m \in Nat, m # 0, Lists(B, m),
           Conserved(B, G, n), NEW p \in Packet, p.id = n,
           DOMAIN C = 1 .. m, \A k \in 1 .. m : k # m => C[k] = B[k],
           C[m] = Append(B[m], p)
    PROVE  Lists(C, m) /\ Conserved(C, G, n + 1)
<1> DEFINE z == Len(B[m]) + 1
<1>1. DOMAIN B = 1 .. m /\ m \in 1 .. m
  BY DEF Lists
<1>2. /\ C[m] \in Seq(Packet) /\ Len(C[m]) = z /\ z \in Nat
      /\ DOMAIN C[m] = 1 .. z
      /\ C[m][z] = p /\ \A i \in 1 .. z : i # z => C[m][i] = B[m][i] /\ i \in DOMAIN B[m]
  <2>1. B[m] \in Seq(Packet) /\ Len(B[m]) \in Nat
    BY <1>1 DEF Lists
  <2> QED BY <2>1, AppendProperties
<1> HIDE DEF z
<1>3. Lists(C, m)
  BY <1>1, <1>2 DEF Lists
<1>4. ASSUME NEW k \in DOMAIN C, NEW i \in DOMAIN C[k]
      PROVE  \/ k \in DOMAIN B /\ i \in DOMAIN B[k] /\ C[k][i] = B[k][i]
             \/ k = m /\ i = z /\ C[k][i] = p
  <2>1. CASE k = m
    BY <1>1, <1>2, <2>1
  <2>2. CASE k # m
    BY <1>1, <2>2
  <2> QED BY <2>1, <2>2
<1>5. ASSUME NEW k \in DOMAIN B, NEW i \in DOMAIN B[k]
      PROVE  /\ k \in DOMAIN C /\ i \in DOMAIN C[k] /\ C[k][i] = B[k][i]
             /\ k \in 1 .. m /\ i \in Nat /\ (k = m => i < z)
             /\ B[k][i].id \in Nat /\ B[k][i].id < n
  <2>1. /\ Len(B[k]) \in Nat /\ DOMAIN B[k] = 1 .. Len(B[k]) /\ B[k][i].id \in Nat
    BY <1>1, ListFacts
  <2>2. B[k][i].id < n
    BY DEF Conserved, AllApart, Apart
  <2>3. CASE k = m
    <3>1. i \in 1 .. z /\ i # z
      BY <2>1, <2>3 DEF z
    <3> QED BY <1>1, <1>2, <2>1, <2>2, <2>3, <3>1
  <2>4. CASE k # m
    BY <1>1, <2>1, <2>2, <2>4
  <2> QED BY <2>3, <2>4
<1>6. AllThere(C, n + 1)
  <2> SUFFICES ASSUME NEW x \in 0 .. (n + 1) - 1
               PROVE  \E k \in DOMAIN C : \E i \in DOMAIN C[k] : C[k][i].id = x
    BY DEF AllThere
  <2>1. CASE x = n
    BY <1>1, <1>2, <2>1
  <2>2. CASE x # n
    <3>1. x \in 0 .. n - 1
      BY <2>2
    <3>2. PICK k \in DOMAIN B : \E i \in DOMAIN B[k] : B[k][i].id = x
      BY <3>1 DEF Conserved, AllThere
    <3>3. PICK i \in DOMAIN B[k] : B[k][i].id = x
      BY <3>2
    <3> QED BY <1>5, <3>3
  <2> QED BY <2>1, <2>2
<1>7. AllApart(C, G, n + 1)
  <2> SUFFICES ASSUME NEW k \in DOMAIN C, NEW l \in DOMAIN C,
                      NEW i \in DOMAIN C[k], NEW j \in DOMAIN C[l]
               PROVE  Apart(C, G, n + 1, k, i, l, j)
    BY DEF AllApart
  <2>1. CASE /\ k \in DOMAIN B /\ i \in DOMAIN B[k] /\ C[k][i] = B[k][i]
             /\ l \in DOMAIN B /\ j \in DOMAIN B[l] /\ C[l][j] = B[l][j]
    <3>1. Apart(B, G, n, k, i, l, j)
      BY <2>1 DEF Conserved, AllApart
    <3>2. B[k][i].id \in Nat
      BY <1>5, <2>1
    <3> QED BY <2>1, <3>1, <3>2 DEF Apart
  <2>2. CASE /\ k \in DOMAIN B /\ i \in DOMAIN B[k] /\ C[k][i] = B[k][i]
             /\ l = m /\ j = z /\ C[l][j] = p
    <3>1. B[k][i].id \in Nat /\ B[k][i].id < n
      BY <1>5, <2>2
    <3> QED BY <2>2, <3>1 DEF Apart
  <2>3. CASE /\ k = m /\ i = z /\ C[k][i] = p
             /\ l \in DOMAIN B /\ j \in DOMAIN B[l] /\ C[l][j] = B[l][j]
    <3>1. /\ B[l][j].id \in Nat /\ B[l][j].id < n /\ l \in 1 .. m /\ j \in Nat
          /\ (l = m => j < z)
      BY <1>5, <2>3
    <3> QED BY <1>2, <2>3, <3>1 DEF Apart
  <2>4. CASE k = m /\ i = z /\ C[k][i] = p /\ l = m /\ j = z /\ C[l][j] = p
    BY <1>2, <2>4 DEF Apart
  <2> QED BY <1>4, <2>1, <2>2, <2>3, <2>4
<1> QED BY <1>3, <1>6, <1>7 DEF Conserved

(* ... or into one of its own before it, which is not a group ...          *)
Inserted(B, G, C, H, m, p) ==
    /\ DOMAIN C = 1 .. m + 1
    /\ \A k \in 1 .. m : k # m => C[k] = B[k] /\ H[k] = G[k]
    /\ C[m] = <<p>> /\ H[m] = FALSE
    /\ C[m + 1] = B[m] /\ H[m + 1] = G[m]

LEMMA ConservedByRaw ==
    ASSUME NEW B, NEW G, NEW C, NEW H, NEW n \in Nat, NEW m \in Nat, m # 0, Lists(B, m),
           Conserved(B, G, n), NEW p \in Packet, p.id = n, Inserted(B, G, C, H, m, p)
    PROVE  Lists(C, m + 1) /\ Conserved(C, H, n + 1)
<1> USE DEF Inserted
<1>1. DOMAIN B = 1 .. m /\ m \in 1 .. m /\ m + 1 \in DOMAIN C /\ m \in DOMAIN C
  BY DEF Lists
<1>2. <<p>> \in Seq(Packet) /\ DOMAIN <<p>> = {1} /\ <<p>>[1] = p
  OBVIOUS
<1>3. Lists(C, m + 1)
  <2> SUFFICES ASSUME NEW k \in 1 .. m + 1 PROVE C[k] \in Seq(Packet)
    BY DEF Lists
  <2>1. CASE k = m
    BY <1>2, <2>1
  <2>2. CASE k = m + 1
    BY <1>1, <2>2 DEF Lists
  <2>3. CASE k # m /\ k # m + 1
    <3>1. k \in 1 .. m
      BY <2>3
    <3> QED BY <2>3, <3>1 DEF Lists
  <2> QED BY <2>1, <2>2, <2>3
<1> DEFINE at(k) == IF k = m + 1 THEN m ELSE k
<1>4. ASSUME NEW k \in DOMAIN C, NEW i \in DOMAIN C[k]
      PROVE  \/ /\ at(k) \in DOMAIN B /\ i \in DOMAIN B[at(k)] /\ k # m
                /\ C[k][i] = B[at(k)][i] /\ H[k] = G[at(k)]
             \/ k = m /\ i = 1 /\ C[k][i] = p /\ H[k] = FALSE
  <2>1. CASE k = m
    <3>1. i \in DOMAIN <<p>>
      BY <2>1
    <3> QED BY <1>2, <2>1, <3>1
  <2>2. CASE k = m + 1
    BY <1>1, <2>2
  <2>3. CASE k # m /\ k # m + 1
    <3>1. k \in 1 .. m /\ at(k) = k
      BY <2>3
    <3> QED BY <1>1, <2>3, <3>1
  <2> QED BY <2>1, <2>2, <2>3
<1>5. ASSUME NEW k \in DOMAIN B, NEW i \in DOMAIN B[k]
      PROVE  /\ \E l \in DOMAIN C : i \in DOMAIN C[l] /\ C[l][i] = B[k][i]
             /\ B[k][i].id \in Nat /\ B[k][i].id < n
  <2>1. Len(B[k]) \in Nat /\ DOMAIN B[k] = 1 .. Len(B[k]) /\ B[k][i].id \in Nat
    BY <1>1, ListFacts
  <2>2. B[k][i].id < n
    BY DEF Conserved, AllApart, Apart
  <2>3. CASE k = m
    BY <1>1, <2>1, <2>2, <2>3
  <2>4. CASE k # m
    <3>1. k \in 1 .. m + 1 /\ C[k] = B[k]
      BY <1>1, <2>4
    <3> QED BY <2>1, <2>2, <3>1
  <2> QED BY <2>3, <2>4
<1>6. AllThere(C, n + 1)
  <2> SUFFICES ASSUME NEW x \in 0 .. (n + 1) - 1
               PROVE  \E k \in DOMAIN C : \E i \in DOMAIN C[k] : C[k][i].id = x
    BY DEF AllThere
  <2>1. CASE x = n
    <3>1. 1 \in DOMAIN C[m] /\ C[m][1] = p
      BY <1>2
    <3> QED BY <1>1, <2>1, <3>1
  <2>2. CASE x # n
    <3>1. x \in 0 .. n - 1
      BY <2>2
    <3>2. PICK k \in DOMAIN B : \E i \in DOMAIN B[k] : B[k][i].id = x
      BY <3>1 DEF Conserved, AllThere
    <3>3. PICK i \in DOMAIN B[k] : B[k][i].id = x
      BY <3>2
    <3>4. PICK l \in DOMAIN C : i \in DOMAIN C[l] /\ C[l][i] = B[k][i]
      BY <1>5, <3>3
    <3> QED BY <3>3, <3>4
  <2> QED BY <2>1, <2>2
<1>7. AllApart(C, H, n + 1)
  <2> SUFFICES ASSUME NEW k \in DOMAIN C, NEW l \in DOMAIN C,
                      NEW i \in DOMAIN C[k], NEW j \in DOMAIN C[l]
               PROVE  Apart(C, H, n + 1, k, i, l, j)
    BY DEF AllApart
  <2> DEFINE Old(a, b) == /\ at(a) \in DOMAIN B /\ b \in DOMAIN B[at(a)] /\ a # m
                          /\ C[a][b] = B[at(a)][b] /\ H[a] = G[at(a)]
             New(a, b) == a = m /\ b = 1 /\ C[a][b] = p /\ H[a] = FALSE
  <2>1. CASE Old(k, i) /\ Old(l, j)
    <3>1. Apart(B, G, n, at(k), i, at(l), j)
      BY <2>1 DEF Conserved, AllApart
    <3>2. B[at(k)][i].id \in Nat
      BY <1>5, <2>1
    <3>3. /\ (at(k) = at(l) <=> k = l) /\ (k < l => at(k) < at(l))
      BY <2>1
    <3>4. C[k][i] = B[at(k)][i] /\ C[l][j] = B[at(l)][j] /\ H[k] = G[at(k)] /\ H[l] = G[at(l)]
      BY <2>1
    <3> HIDE DEF at
    <3>5. C[k][i].id < n + 1
      BY <3>1, <3>2, <3>4 DEF Apart
    <3>6. C[k][i].id = C[l][j].id => k = l /\ i = j
      BY <3>1, <3>3, <3>4 DEF Apart
    <3>7. (H[k] /\ H[l]) /\ (k < l \/ (k = l /\ i < j)) => C[k][i].id < C[l][j].id
      BY <3>1, <3>3, <3>4, Zenon DEF Apart
    <3> QED BY <3>5, <3>6, <3>7, Zenon DEF Apart
  <2>2. CASE Old(k, i) /\ New(l, j)
    <3>1. B[at(k)][i].id \in Nat /\ B[at(k)][i].id < n
      BY <1>5, <2>2
    <3> QED BY <2>2, <3>1 DEF Apart
  <2>3. CASE New(k, i) /\ Old(l, j)
    <3>1. B[at(l)][j].id \in Nat /\ B[at(l)][j].id < n
      BY <1>5, <2>3
    <3> QED BY <2>3, <3>1 DEF Apart
  <2>4. CASE New(k, i) /\ New(l, j)
    BY <2>4 DEF Apart
  <2>5. (Old(k, i) \/ New(k, i)) /\ (Old(l, j) \/ New(l, j))
    BY <1>4
  <2> HIDE DEF Old, New
  <2> QED BY <2>1, <2>2, <2>3, <2>4, <2>5
<1> QED BY <1>3, <1>6, <1>7 DEF Conserved

(* ... and an empty batch may be opened after the last.                    *)
LEMMA ConservedByClosing ==
    ASSUME NEW B, NEW G, NEW C, NEW H, NEW n \in Nat, NEW m \in Nat, Lists(B, m),
           Conserved(B, G, n), DOMAIN C = 1 .. m + 1,
           \A k \in 1 .. m : C[k] = B[k] /\ H[k] = G[k], C[m + 1] = <<>>
    PROVE  Lists(C, m + 1) /\ Conserved(C, H, n)
<1>1. DOMAIN B = 1 .. m /\ \A k \in 1 .. m : k \in 1 .. m + 1
  BY DEF Lists
<1>2. \A k \in 1 .. m + 1 : k \in 1 .. m \/ k = m + 1
  OBVIOUS
<1>3. <<>> \in Seq(Packet) /\ DOMAIN <<>> = {}
  OBVIOUS
<1>4. Lists(C, m + 1)
  BY <1>1, <1>2, <1>3 DEF Lists
<1>5. AllThere(C, n)
  <2> SUFFICES ASSUME NEW x \in 0 .. n - 1
               PROVE  \E k \in DOMAIN C : \E i \in DOMAIN C[k] : C[k][i].id = x
    BY DEF AllThere
  <2>1. PICK k \in DOMAIN B : \E i \in DOMAIN B[k] : B[k][i].id = x
    BY DEF Conserved, AllThere
  <2> QED BY <1>1, <2>1
<1>6. AllApart(C, H, n)
  <2> SUFFICES ASSUME NEW k \in DOMAIN C, NEW l \in DOMAIN C,
                      NEW i \in DOMAIN C[k], NEW j \in DOMAIN C[l]
               PROVE  Apart(C, H, n, k, i, l, j)
    BY DEF AllApart
  <2>1. k \in 1 .. m /\ l \in 1 .. m
    BY <1>2, <1>3
  <2>2. i \in DOMAIN B[k] /\ j \in DOMAIN B[l]
    BY <2>1
  <2>3. Apart(B, G, n, k, i, l, j)
    BY <1>1, <2>1, <2>2 DEF Conserved, AllApart
  <2> QED BY <2>1, <2>3 DEF Apart
<1> QED BY <1>4, <1>5, <1>6 DEF Conserved

-----------------------------------------------------------------------------
(* The inductive invariant.                                                *)
Open(buf) == Len(buf) < GroupPackets /\ GroupSize(buf) < GroupBytes

Limits == /\ Open(fec_buf)
          /\ fec_buf # <<>> => Open(Front(fec_buf))
          /\ \A k \in DOMAIN published :
                published[k].grouped => Open(Front(published[k].packets))

(* What is in the buffer is on a track.                                    *)
Filling == fec_buf # <<>> => fec_track_id.name \in Tracks

(* No entry of a FEC peer ever asks for anything else ...                  *)
Asked == \A c \in Conns, name \in Tracks :
            FecPeer(c, name) => subs[c][name] # "reliable"

(* The two counters that object ids come from.                             *)
Numbered ==
    \A i, j \in DOMAIN published :
        /\ published[i].id < IF published[i].grouped THEN fec_object_id ELSE data_object_id
        /\ published[i].grouped = published[j].grouped /\ published[i].id = published[j].id
              => i = j

(* ... so a single packet never goes to one.                               *)
RoutedObject(obj) == ~obj.grouped => \A c \in obj.to : ~FecPeer(c, obj.track)

Routed == \A k \in DOMAIN published : RoutedObject(published[k])

IInv == /\ TypeOK
        /\ Conservation
        /\ HeldOneRound
        /\ Limits
        /\ Filling
        /\ Asked
        /\ Numbered
        /\ Routed

-----------------------------------------------------------------------------
(* What a step does to the packets: nothing, ...                           *)
Unmoved == UNCHANGED <<fec_buf, fec_track_id, fec_object_id, data_object_id, published>>

(* ... it publishes the group buf, ...                                     *)
Sent(buf) ==
    /\ fec_buf' = <<>>
    /\ fec_object_id' = fec_object_id + 1
    /\ \E obj \in Object : /\ published' = Append(published, obj)
                           /\ obj.grouped = TRUE
                           /\ obj.packets = buf
                           /\ obj.id = fec_object_id

(* ... keeps a packet in the buffer, ...                                   *)
Kept(p) ==
    /\ fec_buf' = Append(fec_buf, p)
    /\ ~GroupFull(fec_buf')
    /\ fec_track_id'.name \in Tracks
    /\ UNCHANGED <<fec_object_id, published>>

(* ... or publishes it on its own.                                         *)
SentAlone(p) ==
    /\ \E obj \in Object : /\ published' = Append(published, obj)
                           /\ obj.grouped = FALSE
                           /\ obj.packets = <<p>>
                           /\ obj.id = p.id
                           /\ RoutedObject(obj)
    /\ UNCHANGED <<fec_buf, fec_track_id, fec_object_id>>

Took(p) == /\ p.id = data_object_id
           /\ data_object_id' = data_object_id + 1
           /\ Kept(p) \/ Sent(Append(fec_buf, p)) \/ SentAlone(p)

Expired == /\ fec_buf # <<>>
           /\ data_object_id' = data_object_id
           /\ Sent(fec_buf)

TrackId == [name : Tracks \cup {NoTrack}, reliable : BOOLEAN]

LEMMA TrackOfFacts ==
    ASSUME NEW p \in Packet
    PROVE  TrackOf(p) \in TrackId /\ TrackOf(p).name \in Tracks
<1>1. p.from \in Helpers
  BY DEF Packet
<1>2. HelperTrack[p.from] \in Tracks
  BY <1>1 DEF Tracks
<1>3. (p.from \in HelperReliable) \in BOOLEAN
  OBVIOUS
<1>4. /\ TrackOf(p).name = HelperTrack[p.from]
      /\ TrackOf(p).reliable = (p.from \in HelperReliable)
      /\ TrackOf(p) \in [name : {HelperTrack[p.from]}, reliable : {p.from \in HelperReliable}]
  BY DEF TrackOf
<1>5. TrackOf(p) \in TrackId
  BY <1>2, <1>3 DEF TrackOf, TrackId
<1> QED BY <1>2, <1>4, <1>5

(* The object a publish appends.                                           *)
Appended(track, id, grouped, packets) ==
    \E obj \in Object : /\ published' = Append(published, obj)
                       /\ obj.grouped = grouped
                       /\ obj.packets = packets
                       /\ obj.id = id
                       /\ obj.track = track.name
                       /\ obj.to = {c \in Conns : subs[c][track.name] # "none"}

LEMMA SendObjectFacts ==
    ASSUME TypeOK, NEW track \in TrackId, track.name \in Tracks, NEW id \in Nat,
           NEW grouped \in BOOLEAN, NEW packets \in Seq(Packet),
           SendObject(track, id, grouped, packets)
    PROVE  Appended(track, id, grouped, packets)
<1> DEFINE to == {c \in Conns : subs[c][track.name] # "none"}
           obj == [track |-> track.name, stream |-> track.reliable, id |-> id,
                   grouped |-> grouped, packets |-> packets, to |-> to]
<1>1. to \in SUBSET Conns /\ track.reliable \in BOOLEAN
  BY DEF TrackId
<1>2. published' = Append(published, obj)
  BY DEF SendObject
<1> HIDE DEF to
<1>3. obj \in Object
  BY <1>1 DEF Object
<1>4. /\ obj.grouped = grouped /\ obj.packets = packets /\ obj.id = id
      /\ obj.track = track.name /\ obj.to = to
  OBVIOUS
<1> HIDE DEF obj
<1> QED BY <1>2, <1>3, <1>4 DEF to, Appended

(* Flush publishes the buffer it is given.                                 *)
LEMMA FlushFacts ==
    ASSUME TypeOK, NEW buf \in Seq(Packet), NEW track \in TrackId, track.name \in Tracks,
           Flush(buf, track)
    PROVE  Sent(buf)
<1>1. fec_object_id \in Nat /\ TRUE \in BOOLEAN
  BY DEF TypeOK
<1>2. /\ SendObject(track, fec_object_id, TRUE, buf)
      /\ fec_buf' = <<>> /\ fec_object_id' = fec_object_id + 1
  BY DEF Flush
<1>3. PICK obj \in Object : /\ published' = Append(published, obj)
                            /\ obj.grouped = TRUE
                            /\ obj.packets = buf
                            /\ obj.id = fec_object_id
  <2>1. Appended(track, fec_object_id, TRUE, buf)
    BY <1>1, <1>2, SendObjectFacts, Zenon
  <2> QED BY <2>1 DEF Appended
<1> QED BY <1>2, <1>3 DEF Sent

(* Every step is one of these.                                             *)
LEMMA Moves ==
    ASSUME IInv, Next
    PROVE  /\ Unmoved \/ Expired \/ \E p \in Packet : Took(p)
           /\ fec_track_id' \in TrackId
<1>1. /\ TypeOK /\ Filling /\ Asked /\ fec_track_id \in TrackId
      /\ fec_buf \in Seq(Packet)
  BY DEF IInv, TypeOK, TrackId
<1>2. ASSUME NEW h \in Helpers, NEW size \in Sizes, OnDataPacket(h, size)
      PROVE  fec_track_id' \in TrackId /\ \E p \in Packet : Took(p)
  <2> DEFINE p == [id |-> data_object_id, from |-> h, size |-> size]
             buf == Append(fec_buf, p)
             track == IF fec_buf = <<>> THEN TrackOf(p) ELSE fec_track_id
  <2>1. /\ p \in Packet /\ p.id = data_object_id /\ p.from = h
    BY <1>1 DEF Packet, TypeOK
  <2>2. /\ data_object_id' = data_object_id + 1
        /\ IF UseFec(HelperTrack[h]) THEN GroupPacket(p) ELSE PublishRaw(p)
        /\ subs' = subs
    BY <1>2 DEF OnDataPacket
  <2> HIDE DEF p
  <2>3. buf \in Seq(Packet)
    BY <1>1, <2>1
  <2>4. track \in TrackId /\ track.name \in Tracks
    BY <1>1, <2>1, TrackOfFacts DEF Filling
  <2>5. CASE UseFec(HelperTrack[h])
    <3>2. /\ fec_track_id' = track
          /\ IF GroupFull(buf) THEN Flush(buf, track)
             ELSE fec_buf' = buf /\ UNCHANGED <<fec_object_id, published>>
      BY <2>2, <2>5 DEF GroupPacket
    <3> HIDE DEF buf, track
    <3>3. CASE GroupFull(buf)
      <4>1. Sent(buf)
        BY <1>1, <2>3, <2>4, <3>2, <3>3, FlushFacts
      <4> QED BY <2>1, <2>2, <2>4, <3>2, <4>1 DEF Took, buf
    <3>4. CASE ~GroupFull(buf)
      <4>1. Kept(p)
        BY <2>4, <3>2, <3>4 DEF Kept, buf
      <4> QED BY <2>1, <2>2, <2>4, <3>2, <4>1 DEF Took
    <3> QED BY <3>3, <3>4
  <2>6. CASE ~UseFec(HelperTrack[h])
    <3> DEFINE to == {c \in Conns : subs[c][TrackOf(p).name] # "none"}
    <3>1. /\ SendObject(TrackOf(p), p.id, FALSE, <<p>>)
          /\ UNCHANGED <<fec_buf, fec_track_id, held, fec_object_id>>
      BY <2>2, <2>6 DEF PublishRaw
    <3>2. TrackOf(p) \in TrackId /\ TrackOf(p).name \in Tracks
      BY <2>1, TrackOfFacts
    <3>3. p.id \in Nat /\ FALSE \in BOOLEAN /\ <<p>> \in Seq(Packet)
      BY <2>1 DEF Packet
    <3>4. PICK obj \in Object : /\ published' = Append(published, obj)
                                /\ obj.grouped = FALSE
                                /\ obj.packets = <<p>>
                                /\ obj.id = p.id
                                /\ obj.track = TrackOf(p).name
                                /\ obj.to = to
      <4>1. Appended(TrackOf(p), p.id, FALSE, <<p>>)
        BY <1>1, <3>1, <3>2, <3>3, SendObjectFacts, Zenon
      <4> QED BY <4>1 DEF Appended
    <3>5. TrackOf(p).name = HelperTrack[h]
      BY <2>1 DEF TrackOf
    <3>6. ASSUME NEW c \in to PROVE ~FecPeer(c, HelperTrack[h])
      <4>1. /\ subs[c][HelperTrack[h]] \in {"none", "fec", "reliable"}
            /\ subs[c][HelperTrack[h]] # "none"
        BY <1>1, <3>2, <3>5 DEF TypeOK
      <4>2. subs[c][HelperTrack[h]] # "fec"
        BY <2>6 DEF UseFec
      <4> QED BY <1>1, <3>2, <3>5, <4>1, <4>2 DEF Asked
    <3> HIDE DEF to
    <3>8. RoutedObject(obj)
      BY <3>4, <3>5, <3>6 DEF RoutedObject
    <3>9. SentAlone(p)
      BY <3>1, <3>4, <3>8 DEF SentAlone
    <3> QED BY <1>1, <2>1, <2>2, <3>1, <3>9 DEF Took
  <2> QED BY <2>5, <2>6
<1>3. CASE TransportTick
  <2>1. fec_track_id' = fec_track_id /\ data_object_id' = data_object_id
    BY <1>3 DEF TransportTick
  <2>2. CASE fec_buf # <<>> /\ HoldExpired
    <3>1. Flush(fec_buf, fec_track_id)
      BY <1>3, <2>2 DEF TransportTick
    <3>2. fec_track_id.name \in Tracks
      BY <1>1, <2>2 DEF Filling
    <3>3. Sent(fec_buf)
      BY <1>1, <3>1, <3>2, FlushFacts
    <3> QED BY <1>1, <2>1, <2>2, <3>3 DEF Expired
  <2>3. CASE ~(fec_buf # <<>> /\ HoldExpired)
    <3>1. UNCHANGED <<fec_buf, held, fec_object_id, published>>
      BY <1>3, <2>3 DEF TransportTick
    <3> QED BY <1>1, <2>1, <3>1 DEF Unmoved
  <2> QED BY <2>2, <2>3
<1>4. ASSUME NEW ms \in LoopTimes, Sleep(ms) PROVE Unmoved
  BY <1>4 DEF Sleep, Unmoved
<1>5. ASSUME NEW c \in Conns, NEW name \in Tracks, PeerSubscribes(c, name) PROVE Unmoved
  BY <1>5 DEF PeerSubscribes, Unmoved
<1>9. ASSUME NEW c \in Conns, SubscribeToTracks(c) PROVE Unmoved
  BY <1>9 DEF SubscribeToTracks, Unmoved
<1>6. ASSUME NEW c \in Conns, PeerLeaves(c) PROVE Unmoved
  BY <1>6 DEF PeerLeaves, Unmoved
<1>7. ASSUME NEW c \in Conns, NEW k \in DOMAIN published, OnObject(c, k) PROVE Unmoved
  BY <1>7 DEF OnObject, Unmoved
<1>8. Unmoved => fec_track_id' \in TrackId
  BY <1>1 DEF Unmoved
<1> QED BY <1>2, <1>3, <1>4, <1>5, <1>6, <1>7, <1>8, <1>9 DEF Next

-----------------------------------------------------------------------------
(* One more object.                                                        *)
LEMMA AppendedFacts ==
    ASSUME TypeOK, NEW obj \in Object, published' = Append(published, obj)
    PROVE  /\ Len(published) \in Nat /\ published' \in Seq(Object)
           /\ DOMAIN published = 1 .. Len(published)
           /\ Len(published') = Len(published) + 1
           /\ DOMAIN published' = 1 .. Len(published) + 1
           /\ published'[Len(published) + 1] = obj
           /\ \A k \in DOMAIN published : published'[k] = published[k]
           /\ \A k \in DOMAIN published' : k \in DOMAIN published \/ k = Len(published) + 1
<1>1. published \in Seq(Object) /\ Len(published) \in Nat
  BY DEF TypeOK
<1> HIDE DEF Object
<1> QED BY <1>1, AppendProperties

(* The packets, the counters and the objects keep their types.             *)
PacketTypes == /\ fec_buf \in Seq(Packet)
               /\ fec_object_id \in Nat
               /\ data_object_id \in Nat
               /\ published \in Seq(Object)

LEMMA SentTypes ==
    ASSUME TypeOK, NEW buf, Sent(buf)
    PROVE  fec_buf' \in Seq(Packet) /\ fec_object_id' \in Nat /\ published' \in Seq(Object)
<1>1. PICK obj \in Object : published' = Append(published, obj)
  BY DEF Sent
<1>2. fec_buf' = <<>> /\ fec_object_id' = fec_object_id + 1 /\ fec_object_id \in Nat
  BY DEF Sent, TypeOK
<1> QED BY <1>1, <1>2, AppendedFacts

LEMMA PacketTypesStep ==
    ASSUME IInv, Next
    PROVE  PacketTypes'
<1>1. TypeOK /\ PacketTypes
  BY DEF IInv, TypeOK, PacketTypes
<1>2. CASE Unmoved
  BY <1>1, <1>2 DEF Unmoved, PacketTypes
<1>3. CASE Expired
  <2>1. Sent(fec_buf) /\ data_object_id' = data_object_id
    BY <1>3 DEF Expired
  <2> QED BY <1>1, <2>1, SentTypes DEF PacketTypes
<1>4. ASSUME NEW p \in Packet, Took(p) PROVE PacketTypes'
  <2>1. data_object_id' \in Nat
    BY <1>1, <1>4 DEF Took, PacketTypes
  <2>2. CASE Kept(p)
    BY <1>1, <2>1, <2>2 DEF Kept, PacketTypes
  <2>3. CASE Sent(Append(fec_buf, p))
    BY <1>1, <2>1, <2>3, SentTypes DEF PacketTypes
  <2>4. CASE SentAlone(p)
    <3>1. PICK obj \in Object : published' = Append(published, obj)
      BY <2>4 DEF SentAlone
    <3>2. published' \in Seq(Object)
      BY <1>1, <3>1, AppendedFacts
    <3> QED BY <1>1, <2>1, <2>4, <3>2 DEF PacketTypes, SentAlone
  <2> QED BY <1>4, <2>2, <2>3, <2>4 DEF Took
<1> QED BY <1>2, <1>3, <1>4, Moves

(* How long the buffer has been held is a number, and below HoldTime when  *)
(* main goes to sleep.                                                     *)
LEMMA HeldStep ==
    ASSUME IInv, Next
    PROVE  held' \in Nat /\ HeldOneRound'
<1>1. held \in Nat /\ HeldOneRound /\ HoldTime \in Nat /\ LoopTimes \subseteq Nat
  BY GroupingAssumption DEF IInv, TypeOK
<1>2. ASSUME NEW h \in Helpers, NEW size \in Sizes, OnDataPacket(h, size)
      PROVE  held' \in Nat /\ HeldOneRound'
  <2> DEFINE p == [id |-> data_object_id, from |-> h, size |-> size]
  <2>1. ~asleep /\ asleep' = asleep
    BY <1>2 DEF OnDataPacket
  <2>2. GroupPacket(p) \/ PublishRaw(p)
    BY <1>2 DEF OnDataPacket
  <2> HIDE DEF p
  <2>3. held' \in {0, held}
    BY <2>2 DEF GroupPacket, PublishRaw, Flush
  <2> QED BY <1>1, <2>1, <2>3 DEF HeldOneRound
<1>3. CASE TransportTick
  <2>1. CASE fec_buf # <<>> /\ HoldExpired
    <3>1. held' = 0 /\ fec_buf' = <<>>
      BY <1>3, <2>1 DEF TransportTick, Flush
    <3> QED BY <3>1 DEF HeldOneRound
  <2>2. CASE ~(fec_buf # <<>> /\ HoldExpired)
    <3>1. held' = held /\ fec_buf' = fec_buf
      BY <1>3, <2>2 DEF TransportTick
    <3> QED BY <1>1, <2>2, <3>1 DEF HeldOneRound, HoldExpired
  <2> QED BY <2>1, <2>2
<1>4. ASSUME NEW ms \in LoopTimes, Sleep(ms) PROVE held' \in Nat /\ HeldOneRound'
  <2>1. asleep' = FALSE /\ (held' = held \/ held' = held + ms)
    BY <1>4 DEF Sleep
  <2>2. ms \in Nat
    BY <1>1
  <2> QED BY <1>1, <2>1, <2>2 DEF HeldOneRound
<1>5. CASE UNCHANGED <<asleep, held, fec_buf>>
  BY <1>1, <1>5 DEF HeldOneRound
<1>6. ASSUME NEW c \in Conns, NEW name \in Tracks, PeerSubscribes(c, name)
      PROVE  UNCHANGED <<asleep, held, fec_buf>>
  BY <1>6 DEF PeerSubscribes
<1>7. ASSUME NEW c \in Conns, PeerLeaves(c) \/ SubscribeToTracks(c)
      PROVE  UNCHANGED <<asleep, held, fec_buf>>
  BY <1>7 DEF PeerLeaves, SubscribeToTracks
<1>8. ASSUME NEW c \in Conns, NEW k \in DOMAIN published, OnObject(c, k)
      PROVE  UNCHANGED <<asleep, held, fec_buf>>
  BY <1>8 DEF OnObject
<1> QED BY <1>2, <1>3, <1>4, <1>5, <1>6, <1>7, <1>8 DEF Next

(* What comes out of an object at a peer.                                  *)
LEMMA ExtractedFacts ==
    ASSUME NEW c, NEW obj \in Object, NEW out \in Extracted(c, obj)
    PROVE  /\ out \in Seq(Packet \cup {Garbled})
           /\ (\E i \in 1 .. Len(out) : out[i] = Garbled)
                 => obj.grouped # Unpacks(c, obj)
<1>1. /\ obj.packets \in Seq(Packet) /\ obj.grouped \in BOOLEAN
      /\ Unpacks(c, obj) \in BOOLEAN
  BY DEF Object, Unpacks
<1>2. obj.packets \in Seq(Packet \cup {Garbled})
  BY <1>1
<1>3. \A i \in 1 .. Len(obj.packets) : obj.packets[i] # Garbled
  <2>1. Garbled \notin Packet
    BY GroupingAssumption DEF Packet
  <2> HIDE DEF Packet
  <2> QED BY <1>1, <2>1
<1>4. CASE obj.grouped = Unpacks(c, obj)
  <2>1. out = obj.packets
    BY <1>1, <1>4 DEF Extracted
  <2> QED BY <1>2, <1>3, <2>1
<1>5. CASE obj.grouped # Unpacks(c, obj)
  <2>1. out \in {<<>>, <<Garbled>>}
    BY <1>1, <1>5 DEF Extracted
  <2>2. <<>> \in Seq(Packet \cup {Garbled}) /\ <<Garbled>> \in Seq(Packet \cup {Garbled})
    OBVIOUS
  <2> QED BY <1>5, <2>1, <2>2
<1> QED BY <1>4, <1>5

(* What the daemon c hands on, given an object of the right kind.          *)
Forward == [track : Tracks, packet : Packet \cup {Garbled}]

LEMMA OnObjectFacts ==
    ASSUME TypeOK, NEW c \in Conns, NEW k \in DOMAIN published, OnObject(c, k)
    PROVE  /\ received' \in [Conns -> SUBSET Nat]
           /\ forwarded' \in [Conns -> SUBSET Forward]
           /\ \A d \in Conns : d # c => forwarded'[d] = forwarded[d]
           /\ c \in published[k].to
           /\ \A f \in forwarded'[c] :
                 \/ f \in forwarded[c]
                 \/ /\ f.track = published[k].track
                    /\ f.packet # Garbled \/ published[k].grouped # Unpacks(c, published[k])
<1> DEFINE obj == published[k]
<1>1. obj \in Object /\ k \in Nat
  <2>1. published \in Seq(Object)
    BY DEF TypeOK
  <2> HIDE DEF Object
  <2> QED BY <2>1
<1>2. received \in [Conns -> SUBSET Nat] /\ forwarded \in [Conns -> SUBSET Forward]
  BY DEF TypeOK, Forward
<1>3. PICK out \in Extracted(c, obj) :
         forwarded' = [forwarded EXCEPT ![c] =
             @ \cup {[track |-> obj.track, packet |-> out[j]] : j \in DOMAIN out}]
  BY DEF OnObject
<1>4. received' = [received EXCEPT ![c] = @ \cup {k}] /\ c \in obj.to
  BY DEF OnObject
<1> DEFINE more == {[track |-> obj.track, packet |-> out[j]] : j \in DOMAIN out}
<1>5. /\ out \in Seq(Packet \cup {Garbled})
      /\ (\E i \in 1 .. Len(out) : out[i] = Garbled) => obj.grouped # Unpacks(c, obj)
  BY <1>1, ExtractedFacts
<1>6. obj.track \in Tracks
  BY <1>1 DEF Object
<1> HIDE DEF obj
<1>7. DOMAIN out = 1 .. Len(out) /\ \A j \in DOMAIN out : out[j] \in Packet \cup {Garbled}
  <2> HIDE DEF Packet
  <2> QED BY <1>5
<1>8. ASSUME NEW f \in more
      PROVE  /\ f \in Forward /\ f.track = obj.track
             /\ f.packet # Garbled \/ obj.grouped # Unpacks(c, obj)
  <2>1. PICK j \in DOMAIN out : f = [track |-> obj.track, packet |-> out[j]]
    OBVIOUS
  <2>2. out[j] \in Packet \cup {Garbled}
    BY <1>7
  <2> HIDE DEF Packet
  <2>3. f \in Forward /\ f.track = obj.track /\ f.packet = out[j]
    BY <1>6, <2>1, <2>2 DEF Forward
  <2> QED BY <1>5, <1>7, <2>3
<1> HIDE DEF more
<1>9. /\ forwarded'[c] = forwarded[c] \cup more
      /\ \A d \in Conns : d # c => forwarded'[d] = forwarded[d]
      /\ forwarded' = [d \in Conns |-> forwarded'[d]]
  BY <1>2, <1>3 DEF more
<1>10. forwarded' \in [Conns -> SUBSET Forward]
  <2>1. \A d \in Conns : forwarded'[d] \in SUBSET Forward
    BY <1>2, <1>8, <1>9
  <2> QED BY <1>9, <2>1
<1>11. received' \in [Conns -> SUBSET Nat]
  BY <1>1, <1>2, <1>4
<1>12. ASSUME NEW f \in forwarded'[c], f \notin forwarded[c] PROVE f \in more
  BY <1>9, <1>12
<1> QED BY <1>4, <1>8, <1>9, <1>10, <1>11, <1>12 DEF obj

(* The entries keep their types, and those of FEC peers ask for FEC.       *)
SubsTypes == subs \in [Conns -> [Tracks -> {"none", "fec", "reliable"}]]

LEMMA FlagsFacts ==
    ASSUME NEW r \in BOOLEAN
    PROVE  Flags(r) \in {"none", "fec", "reliable"} /\ (~r => Flags(r) # "reliable")
BY DEF Flags

LEMMA AskedStep ==
    ASSUME IInv, Next
    PROVE  SubsTypes' /\ Asked'
<1>1. SubsTypes /\ Asked /\ ReliableHere \in BOOLEAN
  BY GroupingAssumption DEF IInv, TypeOK, SubsTypes
<1> DEFINE Entry(c, name, f) == /\ f \in {"none", "fec", "reliable"}
                                /\ FecPeer(c, name) => f # "reliable"
<1>2. ASSUME NEW c \in Conns, NEW e,
             subs' = [subs EXCEPT ![c] = [name \in Tracks |-> e[name]]],
             \A name \in Tracks : Entry(c, name, e[name])
      PROVE  SubsTypes' /\ Asked'
  <2>1. subs' \in [Conns -> [Tracks -> {"none", "fec", "reliable"}]]
    BY <1>1, <1>2 DEF SubsTypes
  <2>2. ASSUME NEW d \in Conns, NEW name \in Tracks, FecPeer(d, name)
        PROVE  subs'[d][name] # "reliable"
    BY <1>1, <1>2, <2>2 DEF SubsTypes, Asked
  <2>3. Asked'
    BY <2>2 DEF Asked, FecPeer, Tracks
  <2> QED BY <2>1, <2>3 DEF SubsTypes, Tracks
<1>3. ASSUME NEW c \in Conns, SubscribeToTracks(c) PROVE SubsTypes' /\ Asked'
  <2> DEFINE e == [name \in Tracks |-> IF name \in OwnTracks /\ subs[c][name] = "none"
                                       THEN Flags(ReliableHere) ELSE subs[c][name]]
  <2>1. subs' = [subs EXCEPT ![c] = [name \in Tracks |-> e[name]]]
    BY <1>1, <1>3 DEF SubscribeToTracks, SubsTypes
  <2>2. ASSUME NEW name \in Tracks PROVE Entry(c, name, e[name])
    BY <1>1, FlagsFacts DEF SubsTypes, Asked, FecPeer
  <2> HIDE DEF e, Entry
  <2> QED BY <1>2, <2>1, <2>2
<1>4. ASSUME NEW c \in Conns, NEW name \in Tracks, PeerSubscribes(c, name)
      PROVE  SubsTypes' /\ Asked'
  <2> DEFINE r == c \in ReliablePeers
             e == [other \in Tracks |-> IF other = name THEN Flags(r) ELSE subs[c][other]]
  <2>1. subs' = [subs EXCEPT ![c] = [other \in Tracks |-> e[other]]]
    <3>1. subs' = [subs EXCEPT ![c][name] = Flags(r)]
      BY <1>4 DEF PeerSubscribes
    <3> QED BY <1>1, <3>1 DEF SubsTypes
  <2>2. r \in BOOLEAN
    OBVIOUS
  <2>3. Flags(r) \in {"none", "fec", "reliable"} /\ (~r => Flags(r) # "reliable")
    BY <2>2, FlagsFacts, Zenon
  <2>4. ASSUME NEW other \in Tracks PROVE Entry(c, other, e[other])
    BY <1>1, <2>3 DEF SubsTypes, Asked, FecPeer
  <2> HIDE DEF e, Entry
  <2> QED BY <1>2, <2>1, <2>4
<1>5. ASSUME NEW c \in Conns, PeerLeaves(c) PROVE SubsTypes' /\ Asked'
  <2> DEFINE e == [name \in Tracks |-> "none"]
  <2>1. subs' = [subs EXCEPT ![c] = [name \in Tracks |-> e[name]]]
    BY <1>5 DEF PeerLeaves
  <2>2. \A name \in Tracks : Entry(c, name, e[name])
    OBVIOUS
  <2> HIDE DEF e, Entry
  <2> QED BY <1>2, <2>1, <2>2
<1>6. CASE subs' = subs
  BY <1>1, <1>6 DEF SubsTypes, Asked, FecPeer, Tracks
<1>7. ASSUME NEW h \in Helpers, NEW size \in Sizes, OnDataPacket(h, size)
      PROVE  subs' = subs
  BY <1>7 DEF OnDataPacket
<1>8. TransportTick => subs' = subs
  BY DEF TransportTick
<1>9. ASSUME NEW ms \in LoopTimes, Sleep(ms) PROVE subs' = subs
  BY <1>9 DEF Sleep
<1>10. ASSUME NEW c \in Conns, NEW k \in DOMAIN published, OnObject(c, k)
       PROVE  subs' = subs
  BY <1>10 DEF OnObject
<1> QED BY <1>3, <1>4, <1>5, <1>6, <1>7, <1>8, <1>9, <1>10 DEF Next

LEMMA TypeStep ==
    ASSUME IInv, Next
    PROVE  TypeOK'
<1> DEFINE Rest == /\ asleep \in BOOLEAN /\ served \subseteq Helpers
                   /\ received \in [Conns -> SUBSET Nat]
                   /\ forwarded \in [Conns -> SUBSET Forward]
<1>1. TypeOK /\ Rest
  BY DEF IInv, TypeOK, Forward
<1>2. PacketTypes' /\ fec_track_id' \in TrackId /\ held' \in Nat /\ SubsTypes'
  BY PacketTypesStep, Moves, HeldStep, AskedStep
<1>3. ASSUME NEW h \in Helpers, NEW size \in Sizes, OnDataPacket(h, size) PROVE Rest'
  <2>1. served' = served \cup {h} /\ UNCHANGED <<asleep, received, forwarded>>
    BY <1>3 DEF OnDataPacket
  <2> QED BY <1>1, <2>1
<1>4. ASSUME TransportTick PROVE Rest'
  <2>1. asleep' = TRUE /\ UNCHANGED <<served, received, forwarded>>
    BY <1>4 DEF TransportTick
  <2> QED BY <1>1, <2>1
<1>5. ASSUME NEW ms \in LoopTimes, Sleep(ms) PROVE Rest'
  <2>1. asleep' = FALSE /\ served' = {} /\ UNCHANGED <<received, forwarded>>
    BY <1>5 DEF Sleep
  <2> QED BY <1>1, <2>1
<1>6. ASSUME NEW c \in Conns, NEW name \in Tracks, PeerSubscribes(c, name) PROVE Rest'
  BY <1>1, <1>6 DEF PeerSubscribes
<1>7. ASSUME NEW c \in Conns, PeerLeaves(c) \/ SubscribeToTracks(c) PROVE Rest'
  BY <1>1, <1>7 DEF PeerLeaves, SubscribeToTracks
<1>8. ASSUME NEW c \in Conns, NEW k \in DOMAIN published, OnObject(c, k) PROVE Rest'
  <2>1. UNCHANGED <<asleep, served>>
    BY <1>8 DEF OnObject
  <2>2. received' \in [Conns -> SUBSET Nat] /\ forwarded' \in [Conns -> SUBSET Forward]
    BY <1>1, <1>8, OnObjectFacts
  <2> QED BY <1>1, <2>1, <2>2
<1>9. Rest'
  <2> HIDE DEF Rest
  <2> QED BY <1>3, <1>4, <1>5, <1>6, <1>7, <1>8 DEF Next
<1> QED BY <1>2, <1>9 DEF TypeOK, PacketTypes, SubsTypes, TrackId, Forward

-----------------------------------------------------------------------------
(* Limits.                                                                 *)
LEMMA OpenFacts ==
    ASSUME NEW buf \in Seq(Packet)
    PROVE  (~GroupFull(buf) => Open(buf)) /\ (buf = <<>> => Open(buf))
<1>1. GroupSize(buf) \in Nat /\ Len(buf) \in Nat /\ (buf = <<>> => GroupSize(buf) = 0)
  BY GroupSizeFacts
<1>2. GroupPackets \in Nat \ {0} /\ GroupBytes \in Nat \ {0}
  BY GroupingAssumption
<1>3. buf = <<>> => Len(buf) = 0
  OBVIOUS
<1> QED BY <1>1, <1>2, <1>3 DEF GroupFull, Open

LEMMA FrontOfAppend ==
    ASSUME NEW S, NEW b \in Seq(S), NEW p \in S
    PROVE  Front(Append(b, p)) = b
BY DEF Front

LEMMA SentLimits ==
    ASSUME IInv, NEW buf \in Seq(Packet), Open(Front(buf)), Sent(buf)
    PROVE  Limits'
<1>1. TypeOK /\ Limits
  BY DEF IInv
<1>2. PICK obj \in Object : published' = Append(published, obj) /\ obj.packets = buf
  BY DEF Sent
<1>3. fec_buf' = <<>> /\ Open(<<>>)
  <2>1. <<>> \in Seq(Packet)
    OBVIOUS
  <2> QED BY <2>1, OpenFacts DEF Sent
<1>4. ASSUME NEW k \in DOMAIN published', published'[k].grouped
      PROVE  Open(Front(published'[k].packets))
  <2>1. \/ k \in DOMAIN published /\ published'[k] = published[k]
        \/ published'[k] = obj
    BY <1>1, <1>2, AppendedFacts
  <2> QED BY <1>1, <1>2, <1>4, <2>1 DEF Limits
<1>5. Open(fec_buf)' /\ (fec_buf # <<>> => Open(Front(fec_buf)))'
  BY <1>3 DEF Open
<1>6. (\A k \in DOMAIN published : published[k].grouped => Open(Front(published[k].packets)))'
  BY <1>4 DEF Open
<1> QED BY <1>5, <1>6 DEF Limits

LEMMA LimitsStep ==
    ASSUME IInv, Next
    PROVE  Limits'
<1>1. TypeOK /\ Limits /\ fec_buf \in Seq(Packet)
  BY DEF IInv, TypeOK
<1>2. CASE Unmoved
  BY <1>1, <1>2 DEF Unmoved, Limits, Open
<1>3. CASE Expired
  BY <1>1, <1>3, SentLimits DEF Expired, Limits
<1>4. ASSUME NEW p \in Packet, Took(p) PROVE Limits'
  <2> DEFINE buf == Append(fec_buf, p)
  <2>1. buf \in Seq(Packet) /\ Front(buf) = fec_buf
    <3> HIDE DEF Packet
    <3> QED BY <1>1, FrontOfAppend
  <2>2. CASE Kept(p)
    <3>1. fec_buf' = buf /\ ~GroupFull(fec_buf') /\ published' = published
      BY <2>2 DEF Kept
    <3> HIDE DEF buf
    <3>2. ~GroupFull(buf)
      BY <3>1 DEF GroupFull
    <3>3. Open(buf)
      BY <2>1, <3>2, OpenFacts
    <3> QED BY <1>1, <2>1, <3>1, <3>3 DEF Limits, Open
  <2>3. CASE Sent(buf)
    <3>1. Open(Front(buf))
      BY <1>1, <2>1 DEF Limits
    <3> QED BY <2>1, <2>3, <3>1, SentLimits
  <2>4. CASE SentAlone(p)
    <3>1. PICK obj \in Object : published' = Append(published, obj) /\ obj.grouped = FALSE
      BY <2>4 DEF SentAlone
    <3>2. fec_buf' = fec_buf
      BY <2>4 DEF SentAlone
    <3>3. ASSUME NEW k \in DOMAIN published', published'[k].grouped
          PROVE  Open(Front(published'[k].packets))
      <4>1. \/ k \in DOMAIN published /\ published'[k] = published[k]
            \/ published'[k] = obj
        BY <1>1, <3>1, AppendedFacts
      <4> QED BY <1>1, <3>1, <3>3, <4>1 DEF Limits
    <3> QED BY <1>1, <3>2, <3>3 DEF Limits, Open
  <2> QED BY <1>4, <2>2, <2>3, <2>4 DEF Took
<1> QED BY <1>2, <1>3, <1>4, Moves

-----------------------------------------------------------------------------
(* Tracks, ids and receivers of the objects.                               *)
LEMMA FillingStep ==
    ASSUME IInv, Next
    PROVE  Filling'
<1>1. Filling /\ fec_buf \in Seq(Packet)
  BY DEF IInv, TypeOK
<1>2. CASE Unmoved
  BY <1>1, <1>2 DEF Unmoved, Filling, Tracks
<1>3. CASE Expired
  BY <1>3 DEF Expired, Sent, Filling
<1>4. ASSUME NEW p \in Packet, Took(p) PROVE Filling'
  <2>1. CASE Kept(p)
    BY <2>1 DEF Kept, Filling, Tracks
  <2>2. CASE Sent(Append(fec_buf, p))
    BY <2>2 DEF Sent, Filling
  <2>3. CASE SentAlone(p)
    BY <1>1, <2>3 DEF SentAlone, Filling, Tracks
  <2> QED BY <1>4, <2>1, <2>2, <2>3 DEF Took
<1> QED BY <1>2, <1>3, <1>4, Moves

(* An object whose id comes from its counter keeps the ids apart and the   *)
(* objects where they belong.                                              *)
LEMMA NumberedByPublishing ==
    ASSUME IInv, NEW obj \in Object, published' = Append(published, obj),
           fec_object_id' \in Nat, data_object_id' \in Nat,
           fec_object_id <= fec_object_id', data_object_id <= data_object_id',
           obj.grouped => obj.id = fec_object_id /\ fec_object_id < fec_object_id',
           ~obj.grouped => obj.id = data_object_id /\ data_object_id < data_object_id',
           RoutedObject(obj)
    PROVE  Numbered' /\ Routed'
<1>1. /\ TypeOK /\ Numbered /\ Routed /\ fec_object_id \in Nat /\ data_object_id \in Nat
      /\ obj.grouped \in BOOLEAN /\ obj.id \in Nat
      /\ \A k \in DOMAIN published : published[k] \in Object
  <2>1. obj.grouped \in BOOLEAN /\ obj.id \in Nat
    BY DEF Object
  <2>2. TypeOK /\ published \in Seq(Object)
    BY DEF IInv, TypeOK
  <2>3. \A k \in DOMAIN published : published[k] \in Object
    <3> HIDE DEF Object
    <3> QED BY <2>2
  <2> QED BY <2>1, <2>2, <2>3 DEF IInv, TypeOK
<1>2. \A k \in DOMAIN published' :
         \/ k \in DOMAIN published /\ published'[k] = published[k]
         \/ k = Len(published) + 1 /\ published'[k] = obj
  BY <1>1, AppendedFacts
<1>3. ASSUME NEW k \in DOMAIN published
      PROVE  /\ published[k].grouped \in BOOLEAN /\ published[k].id \in Nat
             /\ published[k].grouped => published[k].id < fec_object_id
             /\ ~published[k].grouped => published[k].id < data_object_id
  BY <1>1 DEF Numbered, Object
<1>4. ASSUME NEW i \in DOMAIN published', NEW j \in DOMAIN published'
      PROVE  /\ published'[i].id < IF published'[i].grouped THEN fec_object_id'
                                                           ELSE data_object_id'
             /\ published'[i].grouped = published'[j].grouped
                   /\ published'[i].id = published'[j].id => i = j
  <2>1. published'[i].id < IF published'[i].grouped THEN fec_object_id'
                                                    ELSE data_object_id'
    <3>1. CASE i \in DOMAIN published /\ published'[i] = published[i]
      BY <1>1, <1>3, <3>1
    <3>2. CASE published'[i] = obj
      BY <1>1, <3>2
    <3> QED BY <1>2, <3>1, <3>2
  <2>2. ASSUME published'[i].grouped = published'[j].grouped, published'[i].id = published'[j].id
        PROVE  i = j
    <3>1. CASE /\ i \in DOMAIN published /\ published'[i] = published[i]
               /\ j \in DOMAIN published /\ published'[j] = published[j]
      BY <1>1, <2>2, <3>1 DEF Numbered
    <3>2. CASE i = Len(published) + 1 /\ published'[i] = obj
               /\ j \in DOMAIN published /\ published'[j] = published[j]
      BY <1>1, <1>3, <2>2, <3>2
    <3>3. CASE i \in DOMAIN published /\ published'[i] = published[i]
               /\ j = Len(published) + 1 /\ published'[j] = obj
      BY <1>1, <1>3, <2>2, <3>3
    <3> QED BY <1>2, <3>1, <3>2, <3>3
  <2> QED BY <2>1, <2>2
<1>5. Numbered'
  BY <1>4 DEF Numbered
<1>6. ASSUME NEW k \in DOMAIN published' PROVE RoutedObject(published'[k])
  BY <1>1, <1>2 DEF Routed
<1>7. Routed'
  BY <1>6 DEF Routed, RoutedObject, FecPeer
<1> QED BY <1>5, <1>7

LEMMA SentNumbered ==
    ASSUME IInv, NEW buf, Sent(buf), data_object_id' \in Nat, data_object_id <= data_object_id'
    PROVE  Numbered' /\ Routed'
<1>1. PICK obj \in Object : /\ published' = Append(published, obj)
                            /\ obj.grouped = TRUE
                            /\ obj.id = fec_object_id
  BY DEF Sent
<1>2. /\ fec_object_id' \in Nat /\ fec_object_id < fec_object_id'
      /\ fec_object_id <= fec_object_id'
  BY DEF Sent, IInv, TypeOK
<1>3. RoutedObject(obj)
  BY <1>1 DEF Sent, RoutedObject
<1> QED BY <1>1, <1>2, <1>3, NumberedByPublishing

LEMMA NumberedStep ==
    ASSUME IInv, Next
    PROVE  Numbered' /\ Routed'
<1>1. Numbered /\ Routed /\ data_object_id \in Nat /\ fec_object_id \in Nat
  BY DEF IInv, TypeOK
<1>2. CASE Unmoved
  BY <1>1, <1>2 DEF Unmoved, Numbered, Routed, RoutedObject, FecPeer
<1>3. CASE Expired
  <2>1. Sent(fec_buf) /\ data_object_id' = data_object_id
    BY <1>3 DEF Expired
  <2> QED BY <1>1, <2>1, SentNumbered
<1>4. ASSUME NEW p \in Packet, Took(p) PROVE Numbered' /\ Routed'
  <2>1. data_object_id' = data_object_id + 1 /\ p.id = data_object_id
    BY <1>4 DEF Took
  <2>2. data_object_id' \in Nat /\ data_object_id < data_object_id'
        /\ data_object_id <= data_object_id'
    BY <1>1, <2>1
  <2>3. CASE Kept(p)
    <3>1. fec_object_id' = fec_object_id /\ published' = published
      BY <2>3 DEF Kept
    <3>2. \A i \in DOMAIN published : published[i] \in Object
      BY DEF IInv, TypeOK
    <3>3. \A i \in DOMAIN published : published[i].id \in Nat
      BY <3>2 DEF Object
    <3> QED BY <1>1, <2>2, <3>1, <3>3 DEF Numbered, Routed, RoutedObject, FecPeer
  <2>4. CASE Sent(Append(fec_buf, p))
    BY <2>2, <2>4, SentNumbered
  <2>5. CASE SentAlone(p)
    <3>1. PICK obj \in Object : /\ published' = Append(published, obj)
                                /\ obj.grouped = FALSE
                                /\ obj.id = p.id
                                /\ RoutedObject(obj)
      BY <2>5 DEF SentAlone
    <3>2. fec_object_id' = fec_object_id /\ fec_object_id <= fec_object_id'
      BY <1>1, <2>5 DEF SentAlone
    <3> QED BY <1>1, <2>1, <2>2, <3>1, <3>2, NumberedByPublishing
  <2> QED BY <1>4, <2>3, <2>4, <2>5 DEF Took
<1> QED BY <1>2, <1>3, <1>4, Moves

-----------------------------------------------------------------------------
(* Conservation.                                                           *)
LEMMA BatchesFacts ==
    ASSUME TypeOK
    PROVE  /\ Len(published) \in Nat
           /\ Lists(Batches, Len(published) + 1)
           /\ \A k \in 1 .. Len(published) : /\ Batches[k] = published[k].packets
                                              /\ Grouped[k] = published[k].grouped
           /\ Batches[Len(published) + 1] = fec_buf
           /\ Grouped[Len(published) + 1] = TRUE
<1>1. /\ published \in Seq(Object) /\ fec_buf \in Seq(Packet) /\ Len(published) \in Nat
  BY DEF TypeOK
<1>2. ASSUME NEW k \in 1 .. Len(published) PROVE published[k].packets \in Seq(Packet)
  <2>1. published[k] \in Object
    <3> HIDE DEF Object
    <3> QED BY <1>1
  <2> QED BY <2>1 DEF Object
<1>3. \A k \in 1 .. Len(published) : k \in 1 .. Len(published) + 1 /\ k <= Len(published)
  BY <1>1
<1>4. \A k \in 1 .. Len(published) + 1 : k \in 1 .. Len(published) \/ k = Len(published) + 1
  BY <1>1
<1>5. /\ Len(published) + 1 \in 1 .. Len(published) + 1
      /\ ~(Len(published) + 1 <= Len(published))
  BY <1>1
<1>6. /\ \A k \in 1 .. Len(published) : /\ Batches[k] = published[k].packets
                                          /\ Grouped[k] = published[k].grouped
      /\ Batches[Len(published) + 1] = fec_buf
      /\ Grouped[Len(published) + 1] = TRUE
      /\ DOMAIN Batches = 1 .. Len(published) + 1
  BY <1>3, <1>5 DEF Batches, Grouped
<1> QED BY <1>1, <1>2, <1>4, <1>6 DEF Lists

(* The same after the step, in terms of the objects.                       *)
LEMMA BatchesPrime ==
    ASSUME TypeOK, NEW obj \in Object, published' = Append(published, obj)
    PROVE  /\ DOMAIN Batches' = 1 .. (Len(published) + 1) + 1
           /\ \A k \in 1 .. Len(published) : /\ Batches'[k] = Batches[k]
                                              /\ Grouped'[k] = Grouped[k]
           /\ Batches'[Len(published) + 1] = obj.packets
           /\ Grouped'[Len(published) + 1] = obj.grouped
           /\ Batches'[(Len(published) + 1) + 1] = fec_buf'
           /\ Grouped'[(Len(published) + 1) + 1] = TRUE
<1> DEFINE n == Len(published)
<1>1. /\ n \in Nat /\ Len(published') = n + 1 /\ DOMAIN published = 1 .. n
      /\ published'[n + 1] = obj
      /\ \A k \in 1 .. n : published'[k] = published[k]
  BY AppendedFacts
<1>2. \A k \in 1 .. n : Batches[k] = published[k].packets /\ Grouped[k] = published[k].grouped
  BY BatchesFacts
<1> HIDE DEF n
<1>3. /\ Batches' = [k \in 1 .. (n + 1) + 1 |->
                        IF k <= n + 1 THEN published'[k].packets ELSE fec_buf']
      /\ Grouped' = [k \in 1 .. (n + 1) + 1 |->
                        IF k <= n + 1 THEN published'[k].grouped ELSE TRUE]
  BY <1>1 DEF Batches, Grouped
<1>4. \A k \in 1 .. n : k \in 1 .. (n + 1) + 1 /\ k <= n + 1
  BY <1>1
<1>5. /\ n + 1 \in 1 .. (n + 1) + 1 /\ n + 1 <= n + 1
      /\ (n + 1) + 1 \in 1 .. (n + 1) + 1 /\ ~((n + 1) + 1 <= n + 1)
  BY <1>1
<1>6. \A k \in 1 .. n : Batches'[k] = Batches[k] /\ Grouped'[k] = Grouped[k]
  BY <1>1, <1>2, <1>3, <1>4
<1>7. DOMAIN Batches' = 1 .. (n + 1) + 1
  BY <1>3
<1>8. Batches'[n + 1] = obj.packets /\ Grouped'[n + 1] = obj.grouped
  BY <1>1, <1>3, <1>5
<1>9. Batches'[(n + 1) + 1] = fec_buf' /\ Grouped'[(n + 1) + 1] = TRUE
  BY <1>3, <1>5
<1> QED BY <1>6, <1>7, <1>8, <1>9 DEF n

LEMMA ConservationStep ==
    ASSUME IInv, Next
    PROVE  Conservation'
<1> DEFINE n == Len(published)
           m == Len(published) + 1
           d == data_object_id
<1>1. /\ TypeOK /\ Conserved(Batches, Grouped, d) /\ d \in Nat /\ fec_buf \in Seq(Packet)
  BY ConservationIs DEF IInv, TypeOK
<1>2. /\ n \in Nat /\ m \in Nat /\ m # 0 /\ m = n + 1 /\ Lists(Batches, m)
      /\ Batches[m] = fec_buf /\ Grouped[m] = TRUE
  <2>1. n \in Nat /\ m = n + 1
    BY <1>1, BatchesFacts
  <2>2. n + 1 \in Nat /\ n + 1 # 0
    BY <2>1
  <2>3. Lists(Batches, m) /\ Batches[m] = fec_buf /\ Grouped[m] = TRUE
    BY <1>1, BatchesFacts
  <2> QED BY <2>1, <2>2, <2>3
<1>3. SUFFICES Conserved(Batches', Grouped', data_object_id')
  BY DEF Conservation, Conserved, AllThere, AllApart, Apart
<1>4. \A k \in 1 .. m : k # m => k \in 1 .. n
  BY <1>2
<1>5. CASE Unmoved
  <2>1. Batches' = Batches /\ Grouped' = Grouped /\ data_object_id' = data_object_id
    BY <1>5 DEF Unmoved, Batches, Grouped
  <2> QED BY <1>1, <2>1
<1>6. CASE Expired
  <2>1. PICK obj \in Object : /\ published' = Append(published, obj)
                              /\ obj.grouped = TRUE
                              /\ obj.packets = fec_buf
    BY <1>6 DEF Expired, Sent
  <2>2. fec_buf' = <<>> /\ data_object_id' = d
    BY <1>6 DEF Expired, Sent
  <2>3. /\ DOMAIN Batches' = 1 .. m + 1 /\ Batches'[m + 1] = <<>>
        /\ Batches'[m] = Batches[m] /\ Grouped'[m] = Grouped[m]
        /\ \A k \in 1 .. n : Batches'[k] = Batches[k] /\ Grouped'[k] = Grouped[k]
    BY <1>1, <1>2, <2>1, <2>2, BatchesPrime
  <2>4. \A k \in 1 .. m : Batches'[k] = Batches[k] /\ Grouped'[k] = Grouped[k]
    BY <1>4, <2>3
  <2> HIDE DEF m, d
  <2>5. Conserved(Batches', Grouped', d)
    BY <1>1, <1>2, <2>3, <2>4, ConservedByClosing
  <2> QED BY <2>2, <2>5
<1>7. ASSUME NEW p \in Packet, Took(p) PROVE Conserved(Batches', Grouped', data_object_id')
  <2> DEFINE C == [k \in 1 .. m |-> IF k = m THEN Append(fec_buf, p) ELSE Batches[k]]
  <2>1. p.id = d /\ data_object_id' = d + 1 /\ d + 1 \in Nat
    BY <1>1, <1>7 DEF Took
  <2>2. /\ DOMAIN C = 1 .. m /\ \A k \in 1 .. m : k # m => C[k] = Batches[k]
        /\ C[m] = Append(Batches[m], p)
    BY <1>2
  <2>3. Lists(C, m) /\ Conserved(C, Grouped, d + 1)
    <3> HIDE DEF C, m, d, Packet
    <3> QED BY <1>1, <1>2, <2>1, <2>2, ConservedByKeeping
  <2>4. CASE Kept(p)
    <3>1. published' = published /\ fec_buf' = Append(fec_buf, p)
      BY <2>4 DEF Kept
    <3>2. Grouped' = Grouped
      BY <3>1 DEF Grouped
    <3>3. \A k \in 1 .. m : Batches'[k] = C[k]
      <4>1. Batches' = [k \in 1 .. m |-> IF k <= n THEN published[k].packets
                                          ELSE Append(fec_buf, p)]
        BY <3>1 DEF Batches
      <4>2. \A k \in 1 .. m : k <= n <=> k # m
        BY <1>2
      <4>3. \A k \in 1 .. n : Batches[k] = published[k].packets
        BY <1>1, BatchesFacts
      <4> QED BY <1>4, <4>1, <4>2, <4>3
    <3>4. Batches' = C
      <4>1. DOMAIN Batches' = 1 .. m
        BY <3>1 DEF Batches
      <4>2. Batches' = [k \in 1 .. m |-> Batches'[k]]
        BY <3>1 DEF Batches
      <4>3. C = [k \in 1 .. m |-> C[k]]
        OBVIOUS
      <4> HIDE DEF C
      <4> QED BY <3>3, <4>2, <4>3
    <3> HIDE DEF C
    <3> QED BY <2>1, <2>3, <3>2, <3>4
  <2>5. CASE Sent(Append(fec_buf, p))
    <3>1. PICK obj \in Object : /\ published' = Append(published, obj)
                                /\ obj.grouped = TRUE
                                /\ obj.packets = Append(fec_buf, p)
      BY <2>5 DEF Sent
    <3>2. fec_buf' = <<>>
      BY <2>5 DEF Sent
    <3>3. /\ DOMAIN Batches' = 1 .. m + 1 /\ Batches'[m + 1] = <<>>
          /\ Batches'[m] = Append(Batches[m], p) /\ Grouped'[m] = Grouped[m]
          /\ \A k \in 1 .. n : Batches'[k] = Batches[k] /\ Grouped'[k] = Grouped[k]
      BY <1>1, <1>2, <3>1, <3>2, BatchesPrime
    <3>4. \A k \in 1 .. m : Batches'[k] = C[k] /\ Grouped'[k] = Grouped[k]
      BY <1>4, <2>2, <3>3
    <3> HIDE DEF C, m, d
    <3>5. Conserved(Batches', Grouped', d + 1)
      BY <1>2, <2>1, <2>3, <3>3, <3>4, ConservedByClosing
    <3> QED BY <2>1, <3>5
  <2>6. CASE SentAlone(p)
    <3>1. PICK obj \in Object : /\ published' = Append(published, obj)
                                /\ obj.grouped = FALSE
                                /\ obj.packets = <<p>>
      BY <2>6 DEF SentAlone
    <3>2. fec_buf' = fec_buf
      BY <2>6 DEF SentAlone
    <3>3. /\ DOMAIN Batches' = 1 .. m + 1 /\ Batches'[m + 1] = Batches[m]
          /\ Grouped'[m + 1] = Grouped[m]
          /\ Batches'[m] = <<p>> /\ Grouped'[m] = FALSE
          /\ \A k \in 1 .. n : Batches'[k] = Batches[k] /\ Grouped'[k] = Grouped[k]
      BY <1>1, <1>2, <3>1, <3>2, BatchesPrime
    <3>4. \A k \in 1 .. m : k # m => Batches'[k] = Batches[k] /\ Grouped'[k] = Grouped[k]
      BY <1>4, <3>3
    <3> HIDE DEF m, d, Packet
    <3>5. Conserved(Batches', Grouped', d + 1)
      <4>1. Inserted(Batches, Grouped, Batches', Grouped', m, p)
        BY <3>3, <3>4 DEF Inserted
      <4> QED BY <1>1, <1>2, <2>1, <4>1, ConservedByRaw
    <3> QED BY <2>1, <3>5
  <2> QED BY <1>7, <2>4, <2>5, <2>6 DEF Took
<1> QED BY <1>5, <1>6, <1>7, Moves

-----------------------------------------------------------------------------
LEMMA InitIInv == Init => IInv
<1> SUFFICES ASSUME Init PROVE IInv
  OBVIOUS
<1> USE DEF Init
<1>1. <<>> \in Seq(Packet) /\ <<>> \in Seq(Object)
      /\ Len(<<>>) = 0 /\ DOMAIN <<>> = {}
  OBVIOUS
<1>2. fec_track_id \in TrackId
  BY DEF TrackId
<1>3. TypeOK
  BY <1>1, <1>2 DEF TypeOK, TrackId, Forward
<1>4. Conservation
  <2>1. Batches = [k \in 1 .. 1 |-> <<>>]
    <3>1. Batches = [k \in 1 .. 0 + 1 |-> IF k <= 0 THEN published[k].packets ELSE <<>>]
      BY <1>1 DEF Batches
    <3> QED BY <3>1
  <2>2. \A k \in DOMAIN Batches : DOMAIN Batches[k] = {}
    BY <1>1, <2>1
  <2>3. 0 .. data_object_id - 1 = {}
    OBVIOUS
  <2> QED BY <2>2, <2>3 DEF Conservation
<1>5. HeldOneRound
  BY DEF HeldOneRound
<1>6. Open(fec_buf)
  BY <1>1, OpenFacts
<1>7. Limits /\ Filling /\ Asked /\ Numbered /\ Routed
  BY <1>1, <1>6 DEF Limits, Filling, Asked, Numbered, Routed
<1> QED BY <1>3, <1>4, <1>5, <1>7 DEF IInv

LEMMA NextIInv == IInv /\ [Next]_vars => IInv'
<1> SUFFICES ASSUME IInv, [Next]_vars PROVE IInv'
  OBVIOUS
<1>1. CASE Next
  <2>1. TypeOK'
    BY <1>1, TypeStep
  <2>2. Conservation'
    BY <1>1, ConservationStep
  <2>3. HeldOneRound'
    BY <1>1, HeldStep
  <2>4. Limits'
    BY <1>1, LimitsStep
  <2>5. Filling' /\ Asked' /\ Numbered' /\ Routed'
    BY <1>1, FillingStep, AskedStep, NumberedStep
  <2> QED BY <2>1, <2>2, <2>3, <2>4, <2>5 DEF IInv
<1>2. CASE UNCHANGED vars
  <2> USE <1>2 DEF vars
  <2>1. TypeOK'
    BY DEF IInv, TypeOK, Tracks, Packet, Object
  <2>2. Conservation'
    BY DEF IInv, Conservation, Batches, Grouped
  <2>3. HeldOneRound'
    BY DEF IInv, HeldOneRound
  <2>4. Limits'
    BY DEF IInv, Limits, Open
  <2>5. Filling' /\ Asked' /\ Numbered' /\ Routed'
    BY DEF IInv, Filling, Asked, Numbered, Routed, RoutedObject, FecPeer, Tracks
  <2> QED BY <2>1, <2>2, <2>3, <2>4, <2>5 DEF IInv
<1> QED BY <1>1, <1>2

THEOREM GroupingInvariance == Spec => []IInv
BY InitIInv, NextIInv, PTL DEF Spec

(* The buffer, the objects and what is forwarded keep their types.         *)
THEOREM GroupingTypeCorrect == Spec => []TypeOK
<1>1. IInv => TypeOK
  BY DEF IInv
<1> QED BY <1>1, GroupingInvariance, PTL

(* transport_publish, flush_fec_buffer and the hold timer never lose a     *)
(* packet, send one twice or let one overtake another of the same buffer.  *)
THEOREM PacketsConserved == Spec => []Conservation
<1>1. IInv => Conservation
  BY DEF IInv
<1> QED BY <1>1, GroupingInvariance, PTL

(* With a loop that takes at least the hold time, no packet waits for more *)
(* than one round.                                                         *)
THEOREM GroupsHeldOneRound == Spec => []HeldOneRound
<1>1. IInv => HeldOneRound
  BY DEF IInv
<1> QED BY <1>1, GroupingInvariance, PTL

(* Only the packet that fills a group up can exceed its limits.            *)
THEOREM GroupsWithinLimits == Spec => []GroupWithinLimits
<1>1. IInv => GroupWithinLimits
  BY DEF IInv, Limits, Open, GroupWithinLimits
<1> QED BY <1>1, GroupingInvariance, PTL

(* The two counters that object ids come from never meet at a FEC peer,    *)
(* whatever the other peers ask for and however they come and go.          *)
THEOREM FecPeerIdsFresh == Spec => []ObjectIdsFresh
<1>1. IInv => ObjectIdsFresh
  <2> SUFFICES ASSUME IInv,
                      NEW i \in DOMAIN published, NEW j \in DOMAIN published,
                      NEW c \in published[i].to \cap published[j].to,
                      FecPeer(c, published[i].track),
                      published[i].track = published[j].track,
                      published[i].id = published[j].id
               PROVE  i = j
    BY DEF ObjectIdsFresh
  <2>1. /\ RoutedObject(published[i]) /\ RoutedObject(published[j])
        /\ published[i].grouped \in BOOLEAN /\ published[j].grouped \in BOOLEAN
    <3>1. published \in Seq(Object) /\ Routed
      BY DEF IInv, TypeOK
    <3>2. published[i] \in Object /\ published[j] \in Object
      <4> HIDE DEF Object
      <4> QED BY <3>1
    <3> QED BY <3>1, <3>2 DEF Routed, Object
  <2>2. published[i].grouped = published[j].grouped
    BY <2>1 DEF RoutedObject
  <2> QED BY <2>2 DEF IInv, Numbered
<1> QED BY <1>1, GroupingInvariance, PTL

(* A FEC peer takes apart exactly what was grouped, whatever the other     *)
(* peers ask for and whichever helpers are reliable.                       *)
THEOREM FecPeerForwardsWhole == Spec => []ForwardedWhole
<1>1. Init => ForwardedWhole
  BY DEF Init, ForwardedWhole
<1>2. IInv /\ ForwardedWhole /\ [Next]_vars => ForwardedWhole'
  <2> SUFFICES ASSUME IInv, ForwardedWhole, [Next]_vars PROVE ForwardedWhole'
    OBVIOUS
  <2>1. CASE forwarded' = forwarded
    BY <2>1 DEF ForwardedWhole, FecPeer
  <2>2. ASSUME NEW c \in Conns, NEW k \in DOMAIN published, OnObject(c, k)
        PROVE  ForwardedWhole'
    <3>1. TypeOK /\ Routed
      BY DEF IInv
    <3>2. /\ \A d \in Conns : d # c => forwarded'[d] = forwarded[d]
          /\ c \in published[k].to
          /\ \A f \in forwarded'[c] :
                \/ f \in forwarded[c]
                \/ /\ f.track = published[k].track
                   /\ \/ f.packet # Garbled
                      \/ published[k].grouped # Unpacks(c, published[k])
      BY <2>2, <3>1, OnObjectFacts
    <3>3. published[k].grouped \in BOOLEAN /\ RoutedObject(published[k])
      <4>1. published[k] \in Object
        <5>1. published \in Seq(Object)
          BY <3>1 DEF TypeOK
        <5> HIDE DEF Object
        <5> QED BY <5>1
      <4> QED BY <3>1, <4>1 DEF Object, Routed
    <3>4. FecPeer(c, published[k].track) => published[k].grouped = TRUE
      BY <3>2, <3>3 DEF RoutedObject
    <3>5. FecPeer(c, published[k].track) => Unpacks(c, published[k]) = TRUE
      BY DEF FecPeer, Unpacks, EntryFlags, Flags
    <3>6. \A d \in Conns : \A f \in forwarded'[d] :
             FecPeer(d, f.track) => f.packet # Garbled
      BY <3>2, <3>4, <3>5 DEF ForwardedWhole
    <3> QED BY <3>6 DEF ForwardedWhole, FecPeer
  <2>3. ASSUME NEW h \in Helpers, NEW size \in Sizes, OnDataPacket(h, size)
        PROVE  forwarded' = forwarded
    BY <2>3 DEF OnDataPacket
  <2>4. TransportTick => forwarded' = forwarded
    BY DEF TransportTick
  <2>5. ASSUME NEW ms \in LoopTimes, Sleep(ms) PROVE forwarded' = forwarded
    BY <2>5 DEF Sleep
  <2>6. ASSUME NEW c \in Conns, NEW name \in Tracks, PeerSubscribes(c, name)
        PROVE  forwarded' = forwarded
    BY <2>6 DEF PeerSubscribes
  <2>7. ASSUME NEW c \in Conns, PeerLeaves(c) \/ SubscribeToTracks(c)
        PROVE  forwarded' = forwarded
    BY <2>7 DEF PeerLeaves, SubscribeToTracks
  <2>8. UNCHANGED vars => forwarded' = forwarded
    BY DEF vars
  <2> QED BY <2>1, <2>2, <2>3, <2>4, <2>5, <2>6, <2>7, <2>8 DEF Next
<1> QED BY <1>1, <1>2, GroupingInvariance, PTL DEF Spec
=============================================================================
