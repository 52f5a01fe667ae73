--------------------------- MODULE SessionProofs ---------------------------
(***************************************************************************)
(* Proofs about the control plane: objects are raised for authorized       *)
(* clients only, and the two ends of a connection, each allocating aliases *)
(* on its own, never mean different tracks by one alias.                   *)
(***************************************************************************)
EXTENDS Session, DataLemmas

(* The table, or the built-in alias, says that a stands for t.             *)
Lists(table, t, a) == \E k \in 1 .. Len(table) : table[k].track = t /\ table[k].alias = a

Knows(table, t, a) == Lists(table, t, a) \/ (t = Unnamed /\ a = UnnamedAlias)

(* A table over the tracks A that maps them one to one to aliases below b. *)
Plain(table, A) ==
    /\ table \in Seq(Entry)
    /\ \A i, j \in 1 .. Len(table) : table[i].track = table[j].track => i = j
    /\ \A i \in 1 .. Len(table) : table[i].track \in A

OneToOne(table, b) ==
    /\ \A i, j \in 1 .. Len(table) : table[i].alias = table[j].alias => i = j
    /\ \A i \in 1 .. Len(table) :
          /\ table[i].alias < b
          /\ IF table[i].track = Unnamed THEN table[i].alias = UnnamedAlias
                                         ELSE FirstAlias <= table[i].alias

Good(table, A, b) == Plain(table, A) /\ OneToOne(table, b)

(* The tracks in A fit into the table.                                     *)
Fits(A) == A \subseteq Tracks /\ IsFiniteSet(A) /\ Cardinality(A) <= TableSize

LEMMA PlainFacts ==
    ASSUME NEW A, NEW table, Plain(table, A)
    PROVE  /\ Len(table) \in Nat /\ DOMAIN table = 1 .. Len(table)
           /\ \A i \in 1 .. Len(table) : /\ table[i] \in Entry
                                        /\ table[i].track \in Tracks
                                        /\ table[i].alias \in Aliases
                                        /\ table[i].alias \in Nat
<1>1. table \in Seq(Entry)
  BY DEF Plain
<1>2. \A e \in Entry : e.track \in Tracks /\ e.alias \in Aliases /\ e.alias \in Nat
  BY DEF Entry, Aliases
<1> HIDE DEF Entry
<1> QED BY <1>1, <1>2

(* There is room for a track that is not in it.                            *)
LEMMA RoomForMore ==
    ASSUME NEW A, Fits(A), NEW table, Plain(table, A), NEW t \in A, ~HasTrack(table, t)
    PROVE  Len(table) < TableSize
<1> DEFINE n == Len(table)
           B == A \ {t}
           f == [i \in 1 .. n |-> table[i].track]
<1>1. n \in Nat /\ TableSize \in Nat
  BY PlainFacts, SubscriptionsAssumption
<1>2. IsFiniteSet(A) /\ Cardinality(A) \in Nat /\ Cardinality(A) <= TableSize
  BY FS_CardinalityType DEF Fits
<1>3. IsFiniteSet(B) /\ Cardinality(B) = Cardinality(A) - 1
  BY <1>2, FS_RemoveElement
<1>4. f \in [1 .. n -> B]
  BY DEF Plain, HasTrack
<1>5. \A i, j \in 1 .. n : f[i] = f[j] => i = j
  BY DEF Plain
<1>6. f \in Injection(1 .. n, B)
  <2> HIDE DEF f, B
  <2> QED BY <1>4, <1>5 DEF Injection, IsInjective
<1>7. Cardinality(1 .. n) <= Cardinality(B)
  <2> HIDE DEF f, B
  <2> QED BY <1>3, <1>6, FS_Injection
<1>8. Cardinality(1 .. n) = n
  BY <1>1, IndexCount
<1> QED BY <1>1, <1>2, <1>3, <1>7, <1>8

(* And it never grows beyond the table.                                    *)
LEMMA PlainFits ==
    ASSUME NEW A, Fits(A), NEW table, Plain(table, A)
    PROVE  Len(table) <= TableSize
<1> DEFINE n == Len(table)
           f == [i \in 1 .. n |-> table[i].track]
<1>1. n \in Nat /\ TableSize \in Nat
  BY PlainFacts, SubscriptionsAssumption
<1>2. IsFiniteSet(A) /\ Cardinality(A) \in Nat /\ Cardinality(A) <= TableSize
  BY FS_CardinalityType DEF Fits
<1>3. f \in [1 .. n -> A] /\ \A i, j \in 1 .. n : f[i] = f[j] => i = j
  BY DEF Plain
<1>4. f \in Injection(1 .. n, A)
  <2> HIDE DEF f
  <2> QED BY <1>3 DEF Injection, IsInjective
<1>5. Cardinality(1 .. n) <= Cardinality(A)
  <2> HIDE DEF f
  <2> QED BY <1>2, <1>4, FS_Injection
<1>6. Cardinality(1 .. n) = n
  BY <1>1, IndexCount
<1> QED BY <1>1, <1>2, <1>5, <1>6

(* The next alias is new.                                                  *)
LEMMA NextAliasFacts ==
    ASSUME NEW A, NEW b \in 8 .. 255, NEW table, Good(table, A, b)
    PROVE  /\ NextAlias(table) \in 8 .. b
           /\ \A i \in 1 .. Len(table) : table[i].alias < NextAlias(table)
<1> DEFINE used == {table[k].alias : k \in 1 .. Len(table)}
           T == {FirstAlias} \cup {a + 1 : a \in used}
<1>1. \A i \in 1 .. Len(table) : table[i].alias \in Nat /\ table[i].alias < b
  BY PlainFacts DEF Good, OneToOne
<1>2. T \subseteq Nat /\ 8 \in T /\ \A y \in T : y <= b
  BY <1>1 DEF FirstAlias
<1>3. NextAlias(table) = Max(T) % 256
  BY DEF NextAlias
<1>4. \A i \in 1 .. Len(table) : table[i].alias + 1 \in T
  OBVIOUS
<1> HIDE DEF T, used
<1>5. Max(T) \in T /\ \A y \in T : y <= Max(T)
  <2>1. b \in Nat /\ T # {} /\ T \subseteq Nat /\ \A y \in T : y <= b
    BY <1>2
  <2> QED BY <2>1, MaxIsGreatest
<1>6. Max(T) \in 8 .. b
  <2>1. Max(T) \in Nat /\ 8 <= Max(T) /\ Max(T) <= b
    BY <1>2, <1>5
  <2> QED BY <2>1
<1>7. NextAlias(table) = Max(T)
  BY <1>3, <1>6
<1>8. ASSUME NEW i \in 1 .. Len(table) PROVE table[i].alias < Max(T)
  <2>1. table[i].alias + 1 <= Max(T)
    BY <1>4, <1>5
  <2> QED BY <1>1, <1>6, <2>1
<1> QED BY <1>6, <1>7, <1>8

-----------------------------------------------------------------------------
(* R is the table with entries added.                                      *)
Extends(table, R) == /\ Len(table) <= Len(R)
                     /\ \A i \in 1 .. Len(table) : R[i] = table[i]

LEMMA ExtendsKeeps ==
    ASSUME NEW A, NEW table, NEW R, Plain(table, A), Plain(R, A), Extends(table, R)
    PROVE  /\ \A t : HasTrack(table, t) => HasTrack(R, t)
           /\ \A t : IsSubscribed(table, t) => IsSubscribed(R, t)
           /\ \A t, a : Lists(table, t, a) => Lists(R, t, a)
           /\ \A t, a : Knows(table, t, a) => Knows(R, t, a)
<1>1. Len(table) \in Nat /\ Len(R) \in Nat
  BY PlainFacts
<1>2. \A i \in 1 .. Len(table) : i \in 1 .. Len(R) /\ R[i] = table[i]
  BY <1>1 DEF Extends
<1>3. \A t : HasTrack(table, t) => HasTrack(R, t)
  BY <1>2 DEF HasTrack
<1>4. \A t, a : Lists(table, t, a) => Lists(R, t, a)
  BY <1>2 DEF Lists
<1> QED BY <1>3, <1>4 DEF IsSubscribed, Knows

(* add_subscription of a track that is not in the table ...                *)
LEMMA AddNew ==
    ASSUME NEW A, Fits(A), NEW table, Plain(table, A), NEW t \in A, NEW a \in Aliases,
           ~HasTrack(table, t), NEW R, R = AddSubscription(table, t, a)
    PROVE  /\ Plain(R, A) /\ Extends(table, R) /\ Len(R) = Len(table) + 1
           /\ R[Len(table) + 1].track = t /\ R[Len(table) + 1].alias = a
<1> DEFINE e == [track |-> t, alias |-> a]
           n == Len(table)
<1>1. e \in Entry /\ e.track = t /\ e.alias = a
  BY DEF Entry, Fits
<1>2. R = Append(table, e)
  BY RoomForMore DEF AddSubscription
<1>3. table \in Seq(Entry) /\ n \in Nat
  BY PlainFacts DEF Plain
<1> HIDE DEF e
<1>4. /\ R \in Seq(Entry) /\ Len(R) = n + 1 /\ R[n + 1] = e
      /\ \A i \in 1 .. n : R[i] = table[i]
  <2> HIDE DEF Entry
  <2> QED BY <1>1, <1>2, <1>3, AppendProperties
<1>5. \A i \in 1 .. n + 1 : i \in 1 .. n \/ i = n + 1
  BY <1>3
<1> HIDE DEF n
<1>6. \A i \in 1 .. n : table[i].track # t /\ table[i].track \in A
  BY DEF HasTrack, Plain, n
<1>7. \A i, j \in 1 .. n : table[i].track = table[j].track => i = j
  BY DEF Plain, n
<1>8. ASSUME NEW i \in 1 .. n + 1, NEW j \in 1 .. n + 1, R[i].track = R[j].track
      PROVE  i = j
  BY <1>1, <1>4, <1>5, <1>6, <1>7, <1>8
<1>9. \A i \in 1 .. n + 1 : R[i].track \in A
  BY <1>1, <1>4, <1>5, <1>6
<1>10. Plain(R, A)
  BY <1>4, <1>8, <1>9 DEF Plain
<1>11. Extends(table, R)
  BY <1>3, <1>4 DEF Extends, n
<1> QED BY <1>1, <1>4, <1>10, <1>11 DEF n

(* ... and of one that is there with the same alias.                       *)
LEMMA AddKnown ==
    ASSUME NEW A, NEW table, Plain(table, A), NEW t, NEW a, Lists(table, t, a)
    PROVE  AddSubscription(table, t, a) = table
<1>1. PICK k \in 1 .. Len(table) : table[k].track = t /\ table[k].alias = a
  BY DEF Lists
<1> DEFINE s == SlotOf(table, t)
<1>2. s \in 1 .. Len(table) /\ table[s].track = t
  BY <1>1 DEF SlotOf
<1>3. s = k
  BY <1>1, <1>2 DEF Plain
<1>4. AddSubscription(table, t, a) = [table EXCEPT ![s].alias = a]
  BY <1>1 DEF AddSubscription, HasTrack
<1>5. table[s] \in Entry /\ table[s].alias = a /\ s \in DOMAIN table
  BY <1>1, <1>2, <1>3, PlainFacts
<1> HIDE DEF s
<1>6. [table[s] EXCEPT !.alias = a] = table[s]
  BY <1>5 DEF Entry
<1>7. [table EXCEPT ![s].alias = a] = [table EXCEPT ![s] = [table[s] EXCEPT !.alias = a]]
  OBVIOUS
<1>8. table \in Seq(Entry)
  BY DEF Plain
<1>9. [table EXCEPT ![s] = table[s]] = table
  <2> HIDE DEF Entry
  <2> QED BY <1>5, <1>8
<1> QED BY <1>4, <1>6, <1>7, <1>9

(* transport_subscribe.                                                    *)
LEMMA SubscribeFacts ==
    ASSUME NEW A, Fits(A), NEW b \in 8 .. 255, NEW table, Good(table, A, b), NEW t \in A,
           NEW R, R = Subscribe(table, t)
    PROVE  /\ Good(R, A, b + 1) /\ Extends(table, R) /\ IsSubscribed(R, t)
<1>1. Plain(table, A) /\ OneToOne(table, b)
  BY DEF Good
<1>2. /\ Len(table) \in Nat
      /\ \A i \in 1 .. Len(table) : table[i].alias \in Nat /\ table[i].alias < b
  BY <1>1, PlainFacts DEF OneToOne
<1>3. CASE IsSubscribed(table, t)
  <2>1. R = table
    BY <1>3 DEF Subscribe
  <2>2. \A i \in 1 .. Len(table) : table[i].alias < b + 1
    <3>1. \A x \in Nat : x < b => x < b + 1
      OBVIOUS
    <3> QED BY <1>2, <3>1, Zenon
  <2>3. OneToOne(table, b + 1)
    BY <1>1, <2>2 DEF OneToOne
  <2> QED BY <1>1, <1>2, <1>3, <2>1, <2>3 DEF Good, Extends
<1>4. CASE ~IsSubscribed(table, t)
  <2> DEFINE a == NextAlias(table)
             n == Len(table)
  <2>1. t # Unnamed /\ ~HasTrack(table, t) /\ R = AddSubscription(table, t, a)
    BY <1>4 DEF Subscribe, IsSubscribed
  <2>2. a \in 8 .. b /\ \A i \in 1 .. n : table[i].alias < a
    BY NextAliasFacts
  <2> HIDE DEF a, n
  <2>3. a \in Aliases /\ a \in Nat /\ a < b + 1 /\ FirstAlias <= a
    BY <2>2 DEF Aliases, FirstAlias
  <2>4. /\ Plain(R, A) /\ Extends(table, R) /\ Len(R) = n + 1
        /\ R[n + 1].track = t /\ R[n + 1].alias = a
    BY <1>1, <2>1, <2>3, AddNew DEF n
  <2>5. /\ \A i \in 1 .. n : R[i] = table[i]
        /\ \A i \in 1 .. n + 1 : i \in 1 .. n \/ i = n + 1
    BY <1>2, <2>4 DEF Extends, n
  <2>6. ASSUME NEW i \in 1 .. n + 1, NEW j \in 1 .. n + 1, R[i].alias = R[j].alias
        PROVE  i = j
    <3>1. \A k \in 1 .. n : R[k].alias # a
      BY <1>2, <2>2, <2>3, <2>5 DEF n
    <3>2. CASE i \in 1 .. n /\ j \in 1 .. n
      BY <1>1, <2>5, <2>6, <3>2 DEF OneToOne, n
    <3> QED BY <2>4, <2>5, <2>6, <3>1, <3>2
  <2>7. ASSUME NEW i \in 1 .. n + 1
        PROVE  /\ R[i].alias < b + 1
               /\ IF R[i].track = Unnamed THEN R[i].alias = UnnamedAlias
                                          ELSE FirstAlias <= R[i].alias
    <3>1. CASE i \in 1 .. n
      <4>1. R[i] = table[i] /\ table[i].alias \in Nat /\ table[i].alias < b
        BY <1>2, <2>5, <3>1 DEF n
      <4>2. R[i].alias < b + 1
        BY <4>1
      <4> QED BY <1>1, <3>1, <4>1, <4>2 DEF OneToOne, n
    <3>2. CASE i = n + 1
      BY <2>1, <2>3, <2>4, <3>2
    <3> QED BY <2>5, <3>1, <3>2
  <2>8. OneToOne(R, b + 1)
    BY <2>4, <2>6, <2>7 DEF OneToOne
  <2>9. HasTrack(R, t)
    <3>1. n + 1 \in 1 .. Len(R)
      BY <1>2, <2>4 DEF n
    <3> QED BY <2>4, <3>1 DEF HasTrack
  <2> QED BY <1>4, <2>4, <2>8, <2>9 DEF Good, IsSubscribed
<1> QED BY <1>3, <1>4

(* On any table, it makes a table.                                         *)
LEMMA SubscribeType ==
    ASSUME NEW table \in Seq(Entry), NEW t \in Tracks
    PROVE  Subscribe(table, t) \in Seq(Entry)
<1> DEFINE used == {table[k].alias : k \in 1 .. Len(table)}
           T == {FirstAlias} \cup {a + 1 : a \in used}
           e == [track |-> t, alias |-> NextAlias(table)]
<1>1. \A k \in 1 .. Len(table) : table[k].alias \in 0 .. 255
  <2>1. \A k \in 1 .. Len(table) : table[k] \in Entry
    <3> HIDE DEF Entry
    <3> QED OBVIOUS
  <2> QED BY <2>1 DEF Entry, Aliases
<1>2. T \subseteq Nat /\ T # {} /\ 256 \in Nat /\ \A y \in T : y <= 256
  <2>1. used \subseteq 0 .. 255
    BY <1>1
  <2> HIDE DEF used
  <2>2. \A a \in used : a + 1 \in Nat /\ a + 1 <= 256
    BY <2>1
  <2>3. 8 \in Nat /\ 8 <= 256 /\ FirstAlias = 8
    BY DEF FirstAlias
  <2> QED BY <2>2, <2>3
<1>3. NextAlias(table) = Max(T) % 256
  BY DEF NextAlias
<1> HIDE DEF T, used
<1>4. Max(T) \in Nat
  BY <1>2, MaxIsGreatest
<1>5. NextAlias(table) \in Aliases
  <2>1. \A x \in Nat : x % 256 \in 0 .. 255
    OBVIOUS
  <2> QED BY <1>3, <1>4, <2>1 DEF Aliases
<1>6. e \in Entry
  BY <1>5 DEF Entry
<1>7. Subscribe(table, t) \in {table, Append(table, e)}
  BY DEF Subscribe, AddSubscription, IsSubscribed
<1> HIDE DEF e, Entry
<1> QED BY <1>6, <1>7

(* subscribe_to_tracks.                                                    *)
LEMMA SubscribeAllFacts ==
    ASSUME NEW A, Fits(A), NEW b \in 8 .. 255, NEW table, Good(table, A, b),
           NEW tracks \in Seq(A), b + Len(tracks) <= 256,
           NEW R, R = SubscribeAll(table, tracks)
    PROVE  /\ Good(R, A, b + Len(tracks)) /\ Extends(table, R)
           /\ \A j \in 1 .. Len(tracks) : IsSubscribed(R, tracks[j])
<1> DEFINE n == Len(tracks)
           S == Seq(Entry)
           F == [k \in 1 .. n |-> [x \in S |-> Subscribe(x, tracks[k])]]
           Is(g) == g = [k \in 0 .. n |-> IF k = 0 THEN table ELSE Subscribe(g[k - 1], tracks[k])]
           after == CHOOSE g : Is(g)
<1>1. n \in Nat /\ \A k \in 1 .. n : tracks[k] \in A /\ tracks[k] \in Tracks
  BY DEF Fits
<1>2. table \in S /\ Len(table) \in Nat
  BY PlainFacts DEF Good, Plain
<1>3. \A k \in 1 .. n, x \in S : Subscribe(x, tracks[k]) \in S
  BY <1>1, SubscribeType
<1> HIDE DEF n, S
<1>4. \A k \in 1 .. n, x \in S : F[k][x] = Subscribe(x, tracks[k]) /\ F[k][x] \in S
  BY <1>3
<1> HIDE DEF F
<1>5. PICK f \in [0 .. n -> S] : IsIteration(f, n, table, F)
  <2>1. IsStep(F, n, S)
    BY <1>4 DEF IsStep
  <2> QED BY <1>1, <1>2, <2>1, IterationExists
<1>6. Is(f)
  <2>1. ASSUME NEW k \in 1 .. n PROVE f[k] = Subscribe(f[k - 1], tracks[k])
    <3>1. k - 1 \in 0 .. n
      BY <1>1
    <3>2. f[k - 1] \in S /\ f[k] = F[k][f[k - 1]]
      BY <1>5, <3>1 DEF IsIteration
    <3> QED BY <1>4, <3>2
  <2>2. ASSUME NEW k \in 0 .. n, k # 0 PROVE k \in 1 .. n
    BY <1>1, <2>2
  <2>3. \A k \in 0 .. n : f[k] = IF k = 0 THEN table ELSE Subscribe(f[k - 1], tracks[k])
    BY <1>5, <2>1, <2>2 DEF IsIteration
  <2>4. f = [k \in 0 .. n |-> f[k]]
    OBVIOUS
  <2> QED BY <2>3, <2>4
<1>7. Is(after)
  <2> HIDE DEF Is
  <2> QED BY <1>6
<1>8. R = after[n]
  BY DEF SubscribeAll, n
<1> HIDE DEF after
<1>9. after[0] = table /\ \A k \in 1 .. n : after[k] = Subscribe(after[k - 1], tracks[k])
  <2>1. 0 \in 0 .. n /\ \A k \in 1 .. n : k \in 0 .. n /\ k # 0
    BY <1>1
  <2> QED BY <1>7, <2>1
<1> HIDE DEF Is
<1> DEFINE Q(k) == /\ Good(after[k], A, b + k)
                   /\ Extends(table, after[k])
                   /\ \A j \in 1 .. k : IsSubscribed(after[k], tracks[j])
           U == {k \in 0 .. n : Q(k)}
<1>10. 0 \in U
  <2>1. b + 0 = b /\ 1 .. 0 = {} /\ 0 \in 0 .. n
    BY <1>1
  <2>2. Extends(table, table)
    BY <1>2 DEF Extends
  <2>3. Q(0)
    BY <1>9, <2>1, <2>2
  <2> QED BY <2>1, <2>3
<1>11. ASSUME NEW k \in 1 .. n, k - 1 \in U PROVE k \in U
  <2> DEFINE x == after[k - 1]
             y == after[k]
             c == b + (k - 1)
             t == tracks[k]
  <2>1. Q(k - 1) /\ k \in 0 .. n
    BY <1>1, <1>11
  <2>2. c \in 8 .. 255 /\ c + 1 = b + k
    BY <1>1 DEF n
  <2>3. /\ Good(x, A, c) /\ Extends(table, x)
        /\ \A j \in 1 .. k - 1 : IsSubscribed(x, tracks[j])
        /\ y = Subscribe(x, t) /\ t \in A
    BY <1>1, <1>9, <2>1
  <2> HIDE DEF x, y, c, t
  <2>4. /\ Good(y, A, c + 1) /\ Extends(x, y) /\ IsSubscribed(y, t)
    BY <2>2, <2>3, SubscribeFacts
  <2>5. Plain(x, A) /\ Plain(y, A) /\ Len(x) \in Nat /\ Len(y) \in Nat
    BY <2>3, <2>4, PlainFacts DEF Good
  <2>6. Extends(table, y)
    <3>1. Len(table) <= Len(y)
      BY <1>2, <2>3, <2>4, <2>5 DEF Extends
    <3>2. \A i \in 1 .. Len(table) : i \in 1 .. Len(x)
      BY <1>2, <2>3, <2>5 DEF Extends
    <3> QED BY <2>3, <2>4, <3>1, <3>2 DEF Extends
  <2>7. ASSUME NEW j \in 1 .. k PROVE IsSubscribed(y, tracks[j])
    <3>1. CASE j = k
      BY <2>4, <3>1 DEF t
    <3>2. CASE j # k
      <4>1. j \in 1 .. k - 1
        BY <3>2
      <4> QED BY <2>3, <2>4, <2>5, <4>1, ExtendsKeeps
    <3> QED BY <3>1, <3>2
  <2>8. Q(k)
    BY <2>2, <2>4, <2>6, <2>7 DEF y
  <2> QED BY <2>1, <2>8
<1>12. 0 .. n \subseteq U
  <2> HIDE DEF U
  <2> QED BY <1>1, <1>10, <1>11, BoundedInduction
<1>13. Q(n)
  <2>1. n \in 0 .. n
    BY <1>1
  <2> QED BY <1>12, <2>1
<1> QED BY <1>8, <1>13 DEF n

(* It changes nothing when every track is subscribed already.              *)
LEMMA SubscribeAllSame ==
    ASSUME NEW table, NEW tracks, Len(tracks) \in Nat,
           \A j \in 1 .. Len(tracks) : IsSubscribed(table, tracks[j])
    PROVE  SubscribeAll(table, tracks) = table
<1> DEFINE n == Len(tracks)
           Is(g) == g = [k \in 0 .. n |-> IF k = 0 THEN table ELSE Subscribe(g[k - 1], tracks[k])]
           after == CHOOSE g : Is(g)
           f == [k \in 0 .. n |-> table]
<1>1. \A k \in 1 .. n : Subscribe(table, tracks[k]) = table
  BY DEF Subscribe
<1>2. n \in Nat /\ \A k \in 0 .. n : k # 0 => k \in 1 .. n /\ k - 1 \in 0 .. n
  OBVIOUS
<1>3. SubscribeAll(table, tracks) = after[n]
  BY DEF SubscribeAll
<1> HIDE DEF n
<1>4. Is(f)
  <2>1. \A k \in 0 .. n : f[k] = IF k = 0 THEN table ELSE Subscribe(f[k - 1], tracks[k])
    BY <1>1, <1>2
  <2> QED BY <2>1
<1>5. Is(after)
  <2> HIDE DEF Is
  <2> QED BY <1>4
<1> HIDE DEF after
<1>6. after[0] = table /\ \A k \in 1 .. n : after[k] = Subscribe(after[k - 1], tracks[k])
  <2>1. 0 \in 0 .. n /\ \A k \in 1 .. n : k \in 0 .. n /\ k # 0
    BY <1>2
  <2> QED BY <1>5, <2>1
<1> HIDE DEF Is
<1> DEFINE U == {k \in 0 .. n : after[k] = table}
<1>7. 0 \in U
  BY <1>2, <1>6
<1>8. ASSUME NEW k \in 1 .. n, k - 1 \in U PROVE k \in U
  <2>1. k \in 0 .. n /\ after[k - 1] = table
    BY <1>2, <1>8
  <2> QED BY <1>1, <1>6, <2>1
<1> HIDE DEF U
<1>9. 0 .. n \subseteq U
  BY <1>2, <1>7, <1>8, BoundedInduction
<1>10. n \in U
  BY <1>2, <1>9
<1> QED BY <1>3, <1>10 DEF U

-----------------------------------------------------------------------------
(* What one end's table, the streams and the objects on them have to do    *)
(* with the table M that has every alias in use.                           *)
Agrees(T, A, M) ==
    /\ Plain(T, A)
    /\ \A i \in 1 .. Len(T) : Knows(M, T[i].track, T[i].alias)

Carries(stream, A, M) ==
    \A i \in 1 .. Len(stream) :
        stream[i].type = "subscribe"
            => stream[i].track \in A /\ Knows(M, stream[i].track, stream[i].alias)

Resolves(objects, M) == \A m \in objects : Knows(M, m.track, m.alias)

Usable(t, a, b) ==
    /\ a \in Aliases /\ a \in Nat /\ a < b
    /\ IF t = Unnamed THEN a = UnnamedAlias ELSE FirstAlias <= a
    /\ a < FirstAlias <=> t = Unnamed

LEMMA KnowsFacts ==
    ASSUME NEW A, NEW b, b \in 8 .. 256, NEW M, Good(M, A, b), NEW t, NEW a, Knows(M, t, a)
    PROVE  Usable(t, a, b)
<1> USE DEF Usable
<1>1. UnnamedAlias \in 0 .. 7
  BY SubscriptionsAssumption
<1>2. CASE t = Unnamed /\ a = UnnamedAlias
  BY <1>1, <1>2 DEF Aliases, FirstAlias
<1>3. CASE Lists(M, t, a)
  <2>1. PICK k \in 1 .. Len(M) : M[k].track = t /\ M[k].alias = a
    BY <1>3 DEF Lists
  <2>2. a \in Aliases /\ a \in Nat /\ t \in A
    BY <2>1, PlainFacts DEF Good, Plain
  <2>3. a < b /\ IF t = Unnamed THEN a = UnnamedAlias ELSE FirstAlias <= a
    BY <2>1 DEF Good, OneToOne
  <2> QED BY <1>1, <2>2, <2>3 DEF FirstAlias, Aliases
<1> QED BY <1>2, <1>3 DEF Knows

LEMMA KnowsOneToOne ==
    ASSUME NEW A, NEW b, b \in 8 .. 256, NEW M, Good(M, A, b),
           NEW t, NEW a, Knows(M, t, a), NEW u, NEW d, Knows(M, u, d)
    PROVE  t = u <=> a = d
<1>1. Usable(t, a, b) /\ Usable(u, d, b)
  BY KnowsFacts
<1>2. CASE t = Unnamed \/ u = Unnamed
  BY <1>1, <1>2 DEF Usable
<1>3. CASE t # Unnamed /\ u # Unnamed
  <2>1. PICK i \in 1 .. Len(M) : M[i].track = t /\ M[i].alias = a
    BY <1>3 DEF Knows, Lists
  <2>2. PICK j \in 1 .. Len(M) : M[j].track = u /\ M[j].alias = d
    BY <1>3 DEF Knows, Lists
  <2> QED BY <2>1, <2>2 DEF Good, Plain, OneToOne
<1> QED BY <1>2, <1>3

(* A table that agrees with M knows no more than M.                        *)
LEMMA AgreesKnows ==
    ASSUME NEW A, NEW M, NEW T, Agrees(T, A, M), NEW t, NEW a, Knows(T, t, a)
    PROVE  Knows(M, t, a)
<1>1. CASE t = Unnamed /\ a = UnnamedAlias
  BY <1>1 DEF Knows
<1>2. CASE Lists(T, t, a)
  BY <1>2 DEF Lists, Agrees
<1> QED BY <1>1, <1>2 DEF Knows

(* A track it has, it has with the alias of M.                             *)
LEMMA AgreesLists ==
    ASSUME NEW A, NEW b \in 8 .. 256, NEW M, Good(M, A, b), NEW T, Agrees(T, A, M),
           NEW t, HasTrack(T, t), NEW a, Knows(M, t, a)
    PROVE  Lists(T, t, a)
<1>1. PICK k \in 1 .. Len(T) : T[k].track = t
  BY DEF HasTrack
<1>2. Knows(M, t, T[k].alias)
  BY <1>1 DEF Agrees
<1>3. T[k].alias = a
  BY <1>2, KnowsOneToOne
<1> QED BY <1>1, <1>3 DEF Lists

(* A SUBSCRIBE that M knows of leaves the table in agreement with M.       *)
LEMMA Absorb ==
    ASSUME NEW A, Fits(A), NEW b \in 8 .. 256, NEW M, Good(M, A, b),
           NEW T, Agrees(T, A, M), NEW t \in A, NEW a, Knows(M, t, a),
           NEW R, R = AddSubscription(T, t, a)
    PROVE  /\ Agrees(R, A, M) /\ Extends(T, R) /\ HasTrack(R, t)
           /\ HasTrack(T, t) => R = T
<1>1. Plain(T, A) /\ a \in Aliases /\ Len(T) \in Nat
  <2>1. a \in Aliases
    BY KnowsFacts DEF Usable
  <2>2. Plain(T, A)
    BY DEF Agrees
  <2> QED BY <2>1, <2>2, PlainFacts
<1>2. CASE HasTrack(T, t)
  <2>1. Lists(T, t, a)
    BY <1>2, AgreesLists
  <2>2. R = T
    BY <1>1, <2>1, AddKnown
  <2> QED BY <1>1, <1>2, <2>2 DEF Extends
<1>3. CASE ~HasTrack(T, t)
  <2> DEFINE n == Len(T)
  <2>1. /\ Plain(R, A) /\ Extends(T, R) /\ Len(R) = n + 1
        /\ R[n + 1].track = t /\ R[n + 1].alias = a
    BY <1>1, <1>3, AddNew
  <2>2. \A i \in 1 .. n + 1 : i \in 1 .. n \/ i = n + 1
    BY <1>1
  <2>3. ASSUME NEW i \in 1 .. n + 1 PROVE Knows(M, R[i].track, R[i].alias)
    <3>1. CASE i = n + 1
      BY <2>1, <3>1
    <3>2. CASE i \in 1 .. n
      BY <2>1, <3>2 DEF Agrees, Extends
    <3> QED BY <2>2, <3>1, <3>2
  <2>4. n + 1 \in 1 .. Len(R)
    BY <1>1, <2>1
  <2>5. HasTrack(R, t)
    BY <2>1, <2>4 DEF HasTrack
  <2> QED BY <1>3, <2>1, <2>3, <2>5 DEF Agrees
<1> QED BY <1>2, <1>3

(* A table of all the tracks of M that agrees with M is as good as M.      *)
LEMMA AgreesIsGood ==
    ASSUME NEW A, NEW b \in 8 .. 256, NEW M, Good(M, A, b), NEW T, Agrees(T, A, M),
           \A i \in 1 .. Len(M) : HasTrack(T, M[i].track)
    PROVE  /\ Good(T, A, b)
           /\ \A t, a : Knows(M, t, a) => Knows(T, t, a)
<1>1. ASSUME NEW i \in 1 .. Len(T), NEW j \in 1 .. Len(T), T[i].alias = T[j].alias
      PROVE  i = j
  <2> DEFINE t == T[i].track
             u == T[j].track
             a == T[i].alias
             d == T[j].alias
  <2>1. Knows(M, t, a) /\ Knows(M, u, d) /\ a = d
    BY <1>1 DEF Agrees
  <2>2. t = u
    <3> HIDE DEF t, u, a, d
    <3>1. Knows(M, t, a) /\ Knows(M, u, d) /\ b \in 8 .. 256 /\ Good(M, A, b)
      BY <2>1
    <3>2. t = u <=> a = d
      BY ONLY <3>1, KnowsOneToOne
    <3> QED BY <2>1, <3>2
  <2> QED BY <2>2 DEF Agrees, Plain
<1>2. ASSUME NEW i \in 1 .. Len(T)
      PROVE  /\ T[i].alias < b
             /\ IF T[i].track = Unnamed THEN T[i].alias = UnnamedAlias
                                        ELSE FirstAlias <= T[i].alias
  <2>1. Knows(M, T[i].track, T[i].alias)
    BY DEF Agrees
  <2>2. Usable(T[i].track, T[i].alias, b)
    BY <2>1, KnowsFacts
  <2> QED BY <2>2 DEF Usable
<1>3. ASSUME NEW t, NEW a, Knows(M, t, a) PROVE Knows(T, t, a)
  <2>1. CASE t = Unnamed /\ a = UnnamedAlias
    BY <2>1 DEF Knows
  <2>2. CASE Lists(M, t, a)
    <3>1. HasTrack(T, t)
      BY <2>2 DEF Lists
    <3>2. Lists(T, t, a)
      BY <1>3, <3>1, AgreesLists
    <3> QED BY <3>2 DEF Knows
  <2> QED BY <1>3, <2>1, <2>2 DEF Knows
<1>4. Good(T, A, b)
  BY <1>1, <1>2 DEF Good, OneToOne, Agrees
<1> QED BY <1>3, <1>4

(* Find: what an alias on a stream is resolved to.                         *)
Found(T, t, a) ==
    /\ FindTrack(T, a) \in {t, NoTrack}
    /\ IsSubscribed(T, t) => FindTrack(T, a) = t

LEMMA FindTrackFacts ==
    ASSUME NEW A, NEW b \in 8 .. 256, NEW M, Good(M, A, b), NEW T, Agrees(T, A, M),
           NEW t, NEW a, Knows(M, t, a)
    PROVE  Found(T, t, a)
<1> USE DEF Found
<1> DEFINE ks == {k \in 1 .. Len(T) : T[k].alias = a}
<1>1. Usable(t, a, b)
  BY KnowsFacts
<1>2. Plain(T, A) /\ Len(T) \in Nat
  BY PlainFacts DEF Agrees
<1>3. CASE t = Unnamed
  BY <1>1, <1>3 DEF FindTrack, Usable
<1>4. CASE t # Unnamed
  <2>1. ~(a < FirstAlias)
    BY <1>1, <1>4 DEF Usable
  <2>2. FindTrack(T, a) = IF ks = {} THEN NoTrack ELSE T[Min(ks)].track
    BY <2>1 DEF FindTrack
  <2>3. ASSUME ks # {} PROVE T[Min(ks)].track = t
    <3>1. ks \subseteq Nat
      BY <1>2
    <3>2. Min(ks) \in ks
      <4> HIDE DEF ks
      <4> QED BY <2>3, <3>1, MinIsLeast
    <3> DEFINE k == Min(ks)
               u == T[k].track
    <3>3. k \in 1 .. Len(T) /\ T[k].alias = a
      BY <3>2
    <3> HIDE DEF k
    <3>4. Knows(M, u, a)
      BY <3>3 DEF Agrees
    <3>5. u = t
      <4> HIDE DEF u
      <4> QED BY <3>4, KnowsOneToOne
    <3> QED BY <3>5 DEF k
  <2>4. ASSUME IsSubscribed(T, t) PROVE ks # {}
    <3>1. HasTrack(T, t)
      BY <1>4, <2>4 DEF IsSubscribed
    <3>2. Lists(T, t, a)
      BY <3>1, AgreesLists
    <3> QED BY <3>2 DEF Lists
  <2> HIDE DEF ks
  <2> QED BY <2>2, <2>3, <2>4
<1> QED BY <1>3, <1>4

(* What find_alias_by_track and the stream of an entry say, the table      *)
(* knows.                                                                  *)
LEMMA FindAliasKnown ==
    ASSUME NEW T, NEW t, IsSubscribed(T, t)
    PROVE  Knows(T, t, FindAlias(T, t))
<1>1. CASE t = Unnamed
  BY <1>1 DEF Knows, FindAlias
<1>2. CASE t # Unnamed
  <2> DEFINE k == SlotOf(T, t)
  <2>1. k \in 1 .. Len(T) /\ T[k].track = t
    BY <1>2 DEF IsSubscribed, HasTrack, SlotOf
  <2>2. FindAlias(T, t) = T[k].alias
    BY <1>2 DEF FindAlias
  <2> HIDE DEF k
  <2> QED BY <2>1, <2>2 DEF Knows, Lists
<1> QED BY <1>1, <1>2

LEMMA StreamObjectKnown ==
    ASSUME NEW T, NEW t, HasTrack(T, t)
    PROVE  /\ Knows(T, t, StreamObject(T, t).alias) /\ StreamObject(T, t).track = t
           /\ StreamObject(T, t) = [alias |-> StreamObject(T, t).alias, track |-> t]
<1> DEFINE k == SlotOf(T, t)
<1>1. k \in 1 .. Len(T) /\ T[k].track = t
  BY DEF HasTrack, SlotOf
<1>2. /\ StreamObject(T, t).alias = T[k].alias /\ StreamObject(T, t).track = t
      /\ StreamObject(T, t) = [alias |-> StreamObject(T, t).alias, track |-> t]
  BY DEF StreamObject
<1> HIDE DEF k
<1> QED BY <1>1, <1>2 DEF Knows, Lists

(* More is known: nothing is contradicted.                                 *)
LEMMA KnownMore ==
    ASSUME NEW A, NEW M, NEW N, \A t, a : Knows(M, t, a) => Knows(N, t, a)
    PROVE  /\ \A T : Agrees(T, A, M) => Agrees(T, A, N)
           /\ \A s : Carries(s, A, M) => Carries(s, A, N)
           /\ \A o : Resolves(o, M) => Resolves(o, N)
BY DEF Agrees, Carries, Resolves

(* The messages of subscribe_to_tracks.                                    *)
HasAll(T, tracks) == \A j \in 1 .. Len(tracks) : IsSubscribed(T, tracks[j])

AreSubscribes(msgs, tracks) ==
    /\ msgs \in Seq(Message) /\ Len(msgs) = Len(tracks)
    /\ \A j \in 1 .. Len(tracks) : msgs[j].type = "subscribe" /\ msgs[j].track = tracks[j]

LEMMA SubscribeMessagesFacts ==
    ASSUME NEW A, A \subseteq Tracks, NEW b \in 8 .. 256, NEW M, Good(M, A, b),
           NEW T, Agrees(T, A, M), NEW tracks, NEW B, B \subseteq A, tracks \in Seq(B),
           HasAll(T, tracks), NEW msgs, msgs = SubscribeMessages(T, tracks)
    PROVE  AreSubscribes(msgs, tracks) /\ Carries(msgs, B, M)
<1> USE DEF HasAll, AreSubscribes
<1> DEFINE n == Len(tracks)
<1>1. n \in Nat /\ \A j \in 1 .. n : tracks[j] \in B /\ tracks[j] \in Tracks
  OBVIOUS
<1>2. msgs = [k \in 1 .. n |-> [type |-> "subscribe", track |-> tracks[k],
                                 alias |-> FindAlias(T, tracks[k])]]
  BY DEF SubscribeMessages
<1> HIDE DEF n
<1>3. ASSUME NEW j \in 1 .. n
      PROVE  /\ msgs[j].type = "subscribe" /\ msgs[j].track = tracks[j]
             /\ Knows(M, tracks[j], msgs[j].alias)
             /\ msgs[j] \in Message
  <2> DEFINE t == tracks[j]
             a == FindAlias(T, t)
  <2>1. msgs[j] = [type |-> "subscribe", track |-> t, alias |-> a]
    BY <1>2
  <2>2. IsSubscribed(T, t) /\ t \in Tracks
    BY <1>1 DEF n
  <2> HIDE DEF t
  <2>3. Knows(T, t, a)
    BY <2>2, FindAliasKnown
  <2> HIDE DEF a
  <2>4. Knows(M, t, a)
    BY <2>3, AgreesKnows
  <2>5. a \in Aliases
    BY <2>4, KnowsFacts DEF Usable
  <2>6. msgs[j] \in [type : {"subscribe"}, track : Tracks, alias : Aliases]
    BY <2>1, <2>2, <2>5
  <2>7. msgs[j] \in Message
    BY <2>6 DEF Message
  <2>8. msgs[j].type = "subscribe" /\ msgs[j].track = t /\ msgs[j].alias = a
    BY <2>1
  <2> QED BY <2>4, <2>7, <2>8 DEF t
<1>4. msgs \in [1 .. n -> Message]
  BY <1>2, <1>3
<1>5. msgs \in Seq(Message) /\ Len(msgs) = n
  <2>1. msgs \in Seq(Message)
    BY <1>1, <1>4, FunctionIsSeq
  <2> HIDE DEF Message
  <2> QED BY <1>1, <1>4, <2>1
<1>6. Carries(msgs, B, M)
  BY <1>1, <1>3, <1>5 DEF Carries
<1> QED BY <1>3, <1>5, <1>6 DEF n

-----------------------------------------------------------------------------
(* The inductive invariant.                                                *)
All == ToSet(ServerTracks) \cup ToSet(ClientTracks)

Without(stream, type) == \A i \in 1 .. Len(stream) : stream[i].type # type

(* Before auth_ok comes a SUBSCRIBE for every track of the server that the *)
(* table T does not have.                                                  *)
Precedes(stream, t, j) ==
    \E i \in 1 .. Len(stream) :
        i < j /\ stream[i].type = "subscribe" /\ stream[i].track = t

Announced(stream, T) ==
    \A j \in 1 .. Len(stream) :
        stream[j].type = "auth_ok"
            => \A t \in ToSet(ServerTracks) : HasTrack(T, t) \/ Precedes(stream, t, j)

(* The table with every alias in use: the server's until the client knows  *)
(* that it is authenticated and allocates aliases above the server's, from *)
(* then on the client's.                                                   *)
Master(c) == IF cli[c].authenticated THEN cli[c].subs ELSE srv[c].subs

Bound(c) == FirstAlias + Len(ServerTracks)
               + (IF cli[c].authenticated THEN Len(ClientTracks) ELSE 0)

TablesOK(c) ==
    /\ Good(Master(c), All, Bound(c))
    /\ Agrees(srv[c].subs, All, Master(c))
    /\ Agrees(cli[c].subs, All, Master(c))
    /\ Carries(c2s[c], All, Master(c))
    /\ Carries(s2c[c], ToSet(ServerTracks), Master(c))
    /\ Resolves(c2sObjects[c], Master(c))
    /\ Resolves(s2cObjects[c], Master(c))

(* The server subscribes to all its tracks at once, at the latest when it  *)
(* authenticates the client; auth_ok goes out then.                        *)
ServerStage(c) ==
    /\ srv[c].authenticated \/ srv[c].subs # <<>>
          => \A t \in ToSet(ServerTracks) : IsSubscribed(srv[c].subs, t)
    /\ ~srv[c].authenticated => Without(s2c[c], "auth_ok")

ClientStage(c) ==
    IF cli[c].authenticated
    THEN /\ srv[c].authenticated
         /\ \A t \in ToSet(ServerTracks) : HasTrack(cli[c].subs, t)
         /\ \A t \in ToSet(ClientTracks) : IsSubscribed(cli[c].subs, t)
    ELSE /\ Without(c2s[c], "subscribe")
         /\ \A i \in 1 .. Len(srv[c].subs) : srv[c].subs[i].track \in ToSet(ServerTracks)

Tokens(stream, c) ==
    \A i \in 1 .. Len(stream) : stream[i].type = "auth" /\ stream[i].ok => c \in GoodToken

(* The server learns of a connection when the client's handshake is over.  *)
PhasesOK(c) == cli[c].phase = "connecting" => srv[c].phase = "none"

AuthOK(c) ==
    /\ srv[c].authenticated => c \in GoodToken
    /\ Tokens(c2s[c], c)
    /\ PhasesOK(c)

ConnOK(c) == /\ TablesOK(c)
             /\ Announced(s2c[c], cli[c].subs)
             /\ ServerStage(c)
             /\ ClientStage(c)
             /\ AuthOK(c)

IInv == TypeOK /\ AcceptedOnlyAuthorized /\ \A c \in Clients : ConnOK(c)

-----------------------------------------------------------------------------
(* The track lists.                                                        *)
LEMMA ToSetFinite ==
    ASSUME NEW S, NEW s \in Seq(S)
    PROVE  IsFiniteSet(ToSet(s)) /\ ToSet(s) \subseteq S /\ s \in Seq(ToSet(s))
           /\ \A t \in ToSet(s) : \E i \in 1 .. Len(s) : s[i] = t
<1> DEFINE n == Len(s)
           f == [i \in 1 .. n |-> s[i]]
<1>1. n \in Nat /\ DOMAIN s = 1 .. n
  OBVIOUS
<1>2. ToSet(s) = {s[i] : i \in 1 .. n}
  BY <1>1 DEF ToSet
<1> HIDE DEF n
<1>3. IsFiniteSet(1 .. n)
  BY <1>1, IndexCount
<1>4. f \in Surjection(1 .. n, ToSet(s))
  BY <1>2 DEF Surjection
<1>5. IsFiniteSet(ToSet(s))
  <2> HIDE DEF f
  <2> QED BY <1>3, <1>4, FS_Surjection
<1>6. ToSet(s) \subseteq S /\ \A t \in ToSet(s) : \E i \in 1 .. n : s[i] = t
  BY <1>2 DEF n
<1>7. s \in Seq(ToSet(s))
  <2>1. s \in [1 .. n -> ToSet(s)]
    BY <1>1, <1>2
  <2> QED BY <1>1, <2>1, FunctionIsSeq
<1> QED BY <1>5, <1>6, <1>7 DEF n

LEMMA AllFacts ==
    /\ Fits(All) /\ Fits(ToSet(ServerTracks)) /\ All \subseteq Tracks
    /\ ToSet(ServerTracks) \subseteq All /\ ToSet(ClientTracks) \subseteq All
    /\ ServerTracks \in Seq(ToSet(ServerTracks)) /\ ClientTracks \in Seq(ToSet(ClientTracks))
    /\ ServerTracks \in Seq(All) /\ ClientTracks \in Seq(All)
<1> DEFINE A == ToSet(ServerTracks)
           B == ToSet(ClientTracks)
<1>1. ServerTracks \in Seq(Tracks) /\ ClientTracks \in Seq(Tracks)
  BY SessionAssumption
<1>2. /\ IsFiniteSet(A) /\ A \subseteq Tracks /\ ServerTracks \in Seq(A)
      /\ IsFiniteSet(B) /\ B \subseteq Tracks /\ ClientTracks \in Seq(B)
  BY <1>1, ToSetFinite
<1>3. Cardinality(A \cup B) <= TableSize /\ TableSize \in Nat
  BY SessionAssumption, SubscriptionsAssumption
<1> HIDE DEF A, B
<1>4. IsFiniteSet(A \cup B) /\ Cardinality(A \cup B) \in Nat
  BY <1>2, FS_Union, FS_CardinalityType
<1>5. Cardinality(A) <= Cardinality(A \cup B) /\ Cardinality(A) \in Nat
  BY <1>2, <1>4, FS_Subset, FS_CardinalityType
<1>6. Cardinality(A) <= TableSize
  BY <1>3, <1>4, <1>5
<1>7. Fits(A \cup B) /\ Fits(A)
  BY <1>2, <1>3, <1>4, <1>6 DEF Fits
<1>8. ServerTracks \in Seq(A \cup B) /\ ClientTracks \in Seq(A \cup B)
  BY <1>2
<1> QED BY <1>2, <1>7, <1>8 DEF All, A, B

LEMMA BoundFacts ==
    /\ Len(ServerTracks) \in Nat /\ Len(ClientTracks) \in Nat
    /\ FirstAlias = 8 /\ FirstAlias \in 8 .. 255
    /\ FirstAlias + Len(ServerTracks) \in 8 .. 255
    /\ FirstAlias + Len(ServerTracks) + Len(ClientTracks) \in 8 .. 255
<1>1. /\ ServerTracks \in Seq(Tracks) /\ ClientTracks \in Seq(Tracks)
      /\ Len(ServerTracks) + Len(ClientTracks) <= 247
  BY SessionAssumption
<1>2. Len(ServerTracks) \in Nat /\ Len(ClientTracks) \in Nat
  BY <1>1
<1>3. \A x, y \in Nat : x + y <= 247 => 8 + x \in 8 .. 255 /\ 8 + x + y \in 8 .. 255
  OBVIOUS
<1>4. FirstAlias = 8 /\ 8 \in 8 .. 255
  BY DEF FirstAlias
<1> QED BY <1>1, <1>2, <1>3, <1>4

(* The streams: what is left when the first message is taken off ...       *)
LEMMA TailFacts ==
    ASSUME NEW S, NEW s \in Seq(S), s # <<>>
    PROVE  /\ Tail(s) \in Seq(S) /\ Len(s) \in Nat /\ Len(Tail(s)) = Len(s) - 1
           /\ \A i \in 1 .. Len(Tail(s)) : i + 1 \in 1 .. Len(s) /\ Tail(s)[i] = s[i + 1]
           /\ Head(s) = s[1] /\ 1 \in 1 .. Len(s) /\ Head(s) \in S
OBVIOUS

LEMMA TailKeeps ==
    ASSUME NEW s \in Seq(Message), s # <<>>, NEW A, NEW M, NEW c
    PROVE  /\ Carries(s, A, M) => Carries(Tail(s), A, M)
           /\ Tokens(s, c) => Tokens(Tail(s), c)
           /\ \A type : Without(s, type) => Without(Tail(s), type)
<1>1. \A i \in 1 .. Len(Tail(s)) : i + 1 \in 1 .. Len(s) /\ Tail(s)[i] = s[i + 1]
  <2> HIDE DEF Message
  <2> QED BY TailFacts
<1>2. Carries(s, A, M) => Carries(Tail(s), A, M)
  BY <1>1 DEF Carries
<1>3. Tokens(s, c) => Tokens(Tail(s), c)
  BY <1>1 DEF Tokens
<1>4. \A type : Without(s, type) => Without(Tail(s), type)
  BY <1>1 DEF Without
<1> QED BY <1>2, <1>3, <1>4

LEMMA AnnouncedTail ==
    ASSUME NEW s \in Seq(Message), s # <<>>, NEW T, NEW R, Announced(s, T),
           \A t : HasTrack(T, t) => HasTrack(R, t),
           Head(s).type = "subscribe" => HasTrack(R, Head(s).track)
    PROVE  Announced(Tail(s), R)
<1>1. /\ Len(s) \in Nat /\ Len(Tail(s)) = Len(s) - 1 /\ Head(s) = s[1]
      /\ \A i \in 1 .. Len(Tail(s)) : i + 1 \in 1 .. Len(s) /\ Tail(s)[i] = s[i + 1]
  <2> HIDE DEF Message
  <2> QED BY TailFacts
<1> SUFFICES ASSUME NEW j \in 1 .. Len(Tail(s)), Tail(s)[j].type = "auth_ok",
                    NEW t \in ToSet(ServerTracks), ~HasTrack(R, t)
             PROVE  Precedes(Tail(s), t, j)
  BY DEF Announced
<1>2. j + 1 \in 1 .. Len(s) /\ s[j + 1].type = "auth_ok"
  BY <1>1
<1>3. Precedes(s, t, j + 1)
  BY <1>2 DEF Announced
<1>4. PICK i \in 1 .. Len(s) : i < j + 1 /\ s[i].type = "subscribe" /\ s[i].track = t
  BY <1>3 DEF Precedes
<1>5. i # 1
  BY <1>1, <1>4
<1>6. i - 1 \in 1 .. Len(Tail(s)) /\ i - 1 < j /\ (i - 1) + 1 = i
  BY <1>1, <1>4, <1>5
<1>7. Tail(s)[i - 1] = s[i]
  BY <1>1, <1>6
<1> QED BY <1>4, <1>6, <1>7 DEF Precedes

(* ... and what there is when messages are added.                          *)
LEMMA ConcatKeeps ==
    ASSUME NEW s \in Seq(Message), NEW r \in Seq(Message), NEW A, NEW M, NEW c
    PROVE  /\ s \o r \in Seq(Message) /\ Len(s \o r) = Len(s) + Len(r)
           /\ \A i \in 1 .. Len(s) : (s \o r)[i] = s[i]
           /\ \A i \in 1 .. Len(r) : (s \o r)[Len(s) + i] = r[i]
           /\ Carries(s, A, M) /\ Carries(r, A, M) => Carries(s \o r, A, M)
           /\ Tokens(s, c) /\ Tokens(r, c) => Tokens(s \o r, c)
           /\ \A type : Without(s, type) /\ Without(r, type) => Without(s \o r, type)
<1> DEFINE q == s \o r
<1>1. /\ q \in Seq(Message) /\ Len(q) = Len(s) + Len(r) /\ Len(s) \in Nat /\ Len(r) \in Nat
      /\ \A i \in 1 .. Len(s) : q[i] = s[i]
      /\ \A i \in 1 .. Len(r) : q[Len(s) + i] = r[i]
  <2> HIDE DEF Message
  <2> QED OBVIOUS
<1> HIDE DEF q
<1>2. ASSUME NEW k \in 1 .. Len(q)
      PROVE  \/ k \in 1 .. Len(s) /\ q[k] = s[k]
             \/ \E i \in 1 .. Len(r) : q[k] = r[i]
  <2>1. CASE k <= Len(s)
    BY <1>1, <2>1
  <2>2. CASE ~(k <= Len(s))
    <3>1. k - Len(s) \in 1 .. Len(r) /\ Len(s) + (k - Len(s)) = k
      BY <1>1, <2>2
    <3>2. q[k] = r[k - Len(s)]
      BY <1>1, <3>1
    <3> QED BY <3>1, <3>2
  <2> QED BY <2>1, <2>2
<1>3. Carries(s, A, M) /\ Carries(r, A, M) => Carries(q, A, M)
  BY <1>2 DEF Carries
<1>4. Tokens(s, c) /\ Tokens(r, c) => Tokens(q, c)
  BY <1>2 DEF Tokens
<1>5. \A type : Without(s, type) /\ Without(r, type) => Without(q, type)
  BY <1>2 DEF Without
<1> QED BY <1>1, <1>3, <1>4, <1>5 DEF q

(* Messages that are added announce nothing too early, if auth_ok comes    *)
(* after the SUBSCRIBEs of every track.                                    *)
LEMMA AnnouncedConcat ==
    ASSUME NEW s \in Seq(Message), NEW r \in Seq(Message), NEW T,
           Announced(s, T), Announced(r, T)
    PROVE  Announced(s \o r, T)
<1> DEFINE q == s \o r
           n == Len(s)
<1>1. /\ Len(q) = n + Len(r) /\ n \in Nat /\ Len(r) \in Nat
      /\ \A i \in 1 .. n : q[i] = s[i]
      /\ \A i \in 1 .. Len(r) : q[n + i] = r[i]
  <2> HIDE DEF Message
  <2> QED OBVIOUS
<1> HIDE DEF q, n
<1> SUFFICES ASSUME NEW j \in 1 .. Len(q), q[j].type = "auth_ok",
                    NEW t \in ToSet(ServerTracks), ~HasTrack(T, t)
             PROVE  Precedes(q, t, j)
  BY DEF Announced, q
<1>2. CASE j <= n
  <2>1. j \in 1 .. n /\ s[j].type = "auth_ok"
    BY <1>1, <1>2
  <2>2. Precedes(s, t, j)
    BY <2>1 DEF Announced, n
  <2>3. PICK i \in 1 .. n : i < j /\ s[i].type = "subscribe" /\ s[i].track = t
    BY <2>2 DEF Precedes, n
  <2>4. i \in 1 .. Len(q) /\ q[i] = s[i]
    BY <1>1
  <2> QED BY <2>3, <2>4 DEF Precedes
<1>3. CASE ~(j <= n)
  <2> DEFINE k == j - n
  <2>1. k \in 1 .. Len(r) /\ n + k = j
    BY <1>1, <1>3
  <2>2. r[k].type = "auth_ok"
    BY <1>1, <2>1
  <2> HIDE DEF k
  <2>3. Precedes(r, t, k)
    BY <2>1, <2>2 DEF Announced
  <2>4. PICK i \in 1 .. Len(r) : i < k /\ r[i].type = "subscribe" /\ r[i].track = t
    BY <2>3 DEF Precedes
  <2>5. n + i \in 1 .. Len(q) /\ q[n + i] = r[i] /\ n + i < j
    BY <1>1, <2>1, <2>4
  <2> QED BY <2>4, <2>5 DEF Precedes
<1> QED BY <1>2, <1>3

-----------------------------------------------------------------------------
(* A step that leaves the tables of a connection alone.                    *)
SameTables(c) ==
    /\ srv'[c].authenticated = srv[c].authenticated /\ srv'[c].subs = srv[c].subs
    /\ cli'[c].authenticated = cli[c].authenticated /\ cli'[c].subs = cli[c].subs

StreamsOK(c, up, down) ==
    /\ Carries(up, All, Master(c))
    /\ Carries(down, ToSet(ServerTracks), Master(c))
    /\ Announced(down, cli[c].subs)
    /\ ~srv[c].authenticated => Without(down, "auth_ok")
    /\ ~cli[c].authenticated => Without(up, "subscribe")
    /\ Tokens(up, c)

ObjectsOK(c, up, down) == Resolves(up, Master(c)) /\ Resolves(down, Master(c))

LEMMA ConnFacts ==
    ASSUME NEW c, ConnOK(c)
    PROVE  /\ StreamsOK(c, c2s[c], s2c[c])
           /\ ObjectsOK(c, c2sObjects[c], s2cObjects[c])
           /\ PhasesOK(c)
<1>1. TablesOK(c) /\ Announced(s2c[c], cli[c].subs) /\ ServerStage(c) /\ ClientStage(c) /\ AuthOK(c)
  BY DEF ConnOK
<1>2. ~srv[c].authenticated => Without(s2c[c], "auth_ok")
  BY <1>1 DEF ServerStage
<1>3. ~cli[c].authenticated => Without(c2s[c], "subscribe")
  BY <1>1 DEF ClientStage
<1> QED BY <1>1, <1>2, <1>3 DEF StreamsOK, ObjectsOK, PhasesOK, TablesOK, AuthOK

LEMMA ConnSame ==
    ASSUME NEW c, ConnOK(c), SameTables(c), StreamsOK(c, c2s'[c], s2c'[c]),
           ObjectsOK(c, c2sObjects'[c], s2cObjects'[c]), PhasesOK(c)'
    PROVE  ConnOK(c)'
<1>1. Master(c)' = Master(c) /\ Bound(c)' = Bound(c)
  BY DEF SameTables, Master, Bound
<1>2. TablesOK(c) /\ ServerStage(c) /\ ClientStage(c) /\ AuthOK(c)
  BY DEF ConnOK
<1>3. TablesOK(c)'
  BY <1>1, <1>2 DEF TablesOK, SameTables, StreamsOK, ObjectsOK
<1>4. Announced(s2c[c], cli[c].subs)'
  BY DEF StreamsOK, SameTables
<1>5. ServerStage(c)'
  BY <1>2 DEF ServerStage, SameTables, StreamsOK
<1>6. ClientStage(c)'
  BY <1>2 DEF ClientStage, SameTables, StreamsOK
<1>7. AuthOK(c)'
  BY <1>2 DEF AuthOK, SameTables, StreamsOK, PhasesOK
<1> QED BY <1>3, <1>4, <1>5, <1>6, <1>7 DEF ConnOK

(* The types of everything but the sizes of the tables, which follow from  *)
(* ConnOK.                                                                 *)
SrvRecord == [phase : {"none", "open", "closed"}, stream : BOOLEAN,
              authenticated : BOOLEAN, subs : Seq(Entry)]

CliRecord == [phase : {"connecting", "ready", "closed"},
              authenticated : BOOLEAN, subs : Seq(Entry)]

StreamObjects == [alias : Aliases, track : Tracks]

Types ==
    /\ srv \in [Clients -> SrvRecord]
    /\ cli \in [Clients -> CliRecord]
    /\ c2s \in [Clients -> Seq(Message)]
    /\ s2c \in [Clients -> Seq(Message)]
    /\ c2sObjects \in [Clients -> SUBSET StreamObjects]
    /\ s2cObjects \in [Clients -> SUBSET StreamObjects]
    /\ accepted \subseteq Clients

Inv == Types /\ AcceptedOnlyAuthorized /\ \A c \in Clients : ConnOK(c)

LEMMA InvIsIInv == Inv <=> IInv
<1>1. IInv => Inv
  BY DEF IInv, Inv, TypeOK, Types, SrvRecord, CliRecord, StreamObjects
<1>2. ASSUME Inv PROVE IInv
  <2>1. ASSUME NEW c \in Clients
        PROVE  Len(srv[c].subs) <= TableSize /\ Len(cli[c].subs) <= TableSize
    <3>1. Plain(srv[c].subs, All) /\ Plain(cli[c].subs, All)
      BY <1>2 DEF Inv, ConnOK, TablesOK, Agrees
    <3> QED BY <3>1, AllFacts, PlainFits
  <2>2. TypeOK
    BY <1>2, <2>1 DEF Inv, TypeOK, Types, SrvRecord, CliRecord, StreamObjects
  <2> QED BY <1>2, <2>2 DEF Inv, IInv
<1> QED BY <1>1, <1>2

(* A message more that carries no alias and promises nothing.              *)
LEMMA PlainMessage ==
    ASSUME NEW m, m \in Message, m.type # "subscribe", m.type # "auth_ok", NEW A, NEW M, NEW T
    PROVE  /\ <<m>> \in Seq(Message) /\ Carries(<<m>>, A, M) /\ Announced(<<m>>, T)
           /\ Without(<<m>>, "auth_ok") /\ Without(<<m>>, "subscribe")
<1>1. /\ <<m>> \in Seq(Message) /\ Len(<<m>>) = 1 /\ <<m>>[1] = m
  <2> HIDE DEF Message
  <2> QED OBVIOUS
<1>2. \A i \in 1 .. Len(<<m>>) : <<m>>[i] = m
  BY <1>1
<1> QED BY <1>1, <1>2 DEF Carries, Announced, Without

LEMMA MessageKinds ==
    /\ \A t \in Tracks : [type |-> "unicast", track |-> t] \in Message
    /\ \A ok \in BOOLEAN : [type |-> "auth", ok |-> ok] \in Message
    /\ [type |-> "auth_ok"] \in Message
BY DEF Message

LEMMA InitInv == Init => Inv
<1> SUFFICES ASSUME Init PROVE Inv
  OBVIOUS
<1>1. <<>> \in Seq(Entry) /\ <<>> \in Seq(Message) /\ Len(<<>>) = 0 /\ 1 .. 0 = {}
  OBVIOUS
<1>2. Types
  BY <1>1 DEF Init, Types, SrvRecord, CliRecord
<1>3. AcceptedOnlyAuthorized
  BY DEF Init, AcceptedOnlyAuthorized
<1>4. ASSUME NEW c \in Clients PROVE ConnOK(c)
  <2>1. /\ srv[c].phase = "none" /\ srv[c].stream = FALSE
        /\ srv[c].authenticated = FALSE /\ srv[c].subs = <<>>
        /\ cli[c].authenticated = FALSE /\ cli[c].subs = <<>>
        /\ c2s[c] = <<>> /\ s2c[c] = <<>> /\ c2sObjects[c] = {} /\ s2cObjects[c] = {}
    BY DEF Init
  <2>2. Master(c) = <<>>
    BY <2>1 DEF Master
  <2>3. Plain(<<>>, All) /\ Good(<<>>, All, Bound(c))
    BY <1>1 DEF Plain, Good, OneToOne
  <2>4. TablesOK(c)
    BY <1>1, <2>1, <2>2, <2>3 DEF TablesOK, Agrees, Carries, Resolves
  <2>5. Announced(s2c[c], cli[c].subs)
    BY <1>1, <2>1 DEF Announced
  <2>6. PhasesOK(c)
    BY <2>1 DEF PhasesOK
  <2>7. ServerStage(c) /\ ClientStage(c) /\ AuthOK(c)
    BY <1>1, <2>1, <2>6 DEF ServerStage, ClientStage, AuthOK, Without, Tokens
  <2> QED BY <2>4, <2>5, <2>7 DEF ConnOK
<1> QED BY <1>2, <1>3, <1>4 DEF Inv

-----------------------------------------------------------------------------
(* A message more on a stream, or one less.                                *)
LEMMA UpMore ==
    ASSUME NEW c, NEW up, up \in Seq(Message), NEW down, StreamsOK(c, up, down),
           NEW m, m \in Message, m.type # "subscribe", m.type # "auth_ok",
           m.type = "auth" /\ m.ok => c \in GoodToken
    PROVE  Append(up, m) \in Seq(Message) /\ StreamsOK(c, Append(up, m), down)
<1> DEFINE r == <<m>>
<1>1. /\ r \in Seq(Message) /\ Carries(r, All, Master(c)) /\ Without(r, "subscribe")
  BY PlainMessage
<1>2. Tokens(r, c)
  BY DEF Tokens
<1>3. Append(up, m) = up \o r
  <2> HIDE DEF Message
  <2> QED BY AppendIsConcat
<1> HIDE DEF r
<1>4. /\ up \o r \in Seq(Message)
      /\ Carries(up, All, Master(c)) => Carries(up \o r, All, Master(c))
      /\ Tokens(up, c) => Tokens(up \o r, c)
      /\ Without(up, "subscribe") => Without(up \o r, "subscribe")
  <2> HIDE DEF Message
  <2> QED BY <1>1, <1>2, ConcatKeeps
<1> QED BY <1>3, <1>4 DEF StreamsOK

LEMMA DownMore ==
    ASSUME NEW c, NEW up, NEW down, down \in Seq(Message), StreamsOK(c, up, down),
           NEW m, m \in Message, m.type # "subscribe", m.type # "auth_ok"
    PROVE  Append(down, m) \in Seq(Message) /\ StreamsOK(c, up, Append(down, m))
<1> DEFINE r == <<m>>
<1>1. /\ r \in Seq(Message) /\ Carries(r, ToSet(ServerTracks), Master(c))
      /\ Without(r, "auth_ok") /\ Announced(r, cli[c].subs)
  BY PlainMessage
<1>2. Append(down, m) = down \o r
  <2> HIDE DEF Message
  <2> QED BY AppendIsConcat
<1> HIDE DEF r
<1>3. /\ down \o r \in Seq(Message)
      /\ Carries(down, ToSet(ServerTracks), Master(c))
            => Carries(down \o r, ToSet(ServerTracks), Master(c))
      /\ Without(down, "auth_ok") => Without(down \o r, "auth_ok")
  <2> HIDE DEF Message
  <2> QED BY <1>1, ConcatKeeps
<1>4. Announced(down, cli[c].subs) => Announced(down \o r, cli[c].subs)
  BY <1>1, AnnouncedConcat
<1> QED BY <1>2, <1>3, <1>4 DEF StreamsOK

LEMMA UpLess ==
    ASSUME NEW c, NEW up, up \in Seq(Message), up # <<>>, NEW down, StreamsOK(c, up, down)
    PROVE  Tail(up) \in Seq(Message) /\ StreamsOK(c, Tail(up), down)
<1>1. Tail(up) \in Seq(Message)
  <2> HIDE DEF Message
  <2> QED BY TailFacts
<1>2. /\ Carries(up, All, Master(c)) => Carries(Tail(up), All, Master(c))
      /\ Tokens(up, c) => Tokens(Tail(up), c)
      /\ Without(up, "subscribe") => Without(Tail(up), "subscribe")
  BY TailKeeps
<1> QED BY <1>1, <1>2 DEF StreamsOK

LEMMA DownLess ==
    ASSUME NEW c, NEW up, NEW down, down \in Seq(Message), down # <<>>,
           StreamsOK(c, up, down),
           Head(down).type = "subscribe" => HasTrack(cli[c].subs, Head(down).track)
    PROVE  Tail(down) \in Seq(Message) /\ StreamsOK(c, up, Tail(down))
<1>1. Tail(down) \in Seq(Message)
  <2> HIDE DEF Message
  <2> QED BY TailFacts
<1>2. /\ Carries(down, ToSet(ServerTracks), Master(c))
            => Carries(Tail(down), ToSet(ServerTracks), Master(c))
      /\ Without(down, "auth_ok") => Without(Tail(down), "auth_ok")
  BY TailKeeps
<1>3. Announced(down, cli[c].subs) => Announced(Tail(down), cli[c].subs)
  BY AnnouncedTail
<1> QED BY <1>1, <1>2, <1>3 DEF StreamsOK

LEMMA BoundKnown == \A c : Bound(c) \in 8 .. 256 /\ Bound(c) \in 8 .. 255
<1> TAKE c
<1>1. \A x : x \in 8 .. 255 => x \in 8 .. 256
  OBVIOUS
<1>2. Bound(c) \in 8 .. 255
  <2>1. CASE cli[c].authenticated
    BY <2>1, BoundFacts DEF Bound
  <2>2. CASE ~cli[c].authenticated
    <3>1. Bound(c) = FirstAlias + Len(ServerTracks) + 0
      BY <2>2 DEF Bound
    <3>2. FirstAlias + Len(ServerTracks) \in 8 .. 255
      BY BoundFacts
    <3>3. \A x : x \in 8 .. 255 => x + 0 = x
      OBVIOUS
    <3> QED BY ONLY <3>1, <3>2, <3>3
  <2> QED BY <2>1, <2>2
<1> QED BY <1>1, <1>2

(* What is published on a stream of its own is known at both ends.         *)
LEMMA PublishedKnown ==
    ASSUME NEW b \in 8 .. 256, NEW M, Good(M, All, b), NEW T, Agrees(T, All, M),
           NEW t, t \in Tracks, HasTrack(T, t), NEW o, o = StreamObject(T, t)
    PROVE  o \in StreamObjects /\ Knows(M, o.track, o.alias)
<1> DEFINE a == o.alias
<1>1. Knows(T, t, a) /\ o.track = t /\ o = [alias |-> a, track |-> t]
  BY StreamObjectKnown
<1> HIDE DEF a
<1>2. Knows(M, t, a)
  BY <1>1, AgreesKnows
<1>3. Usable(t, a, b)
  BY <1>2, KnowsFacts
<1> QED BY <1>1, <1>2, <1>3 DEF Usable, StreamObjects, a

(* A connection a step does not touch.                                     *)
Untouched(c) ==
    /\ srv'[c] = srv[c] /\ cli'[c] = cli[c] /\ c2s'[c] = c2s[c] /\ s2c'[c] = s2c[c]
    /\ c2sObjects'[c] = c2sObjects[c] /\ s2cObjects'[c] = s2cObjects[c]

LEMMA ConnUntouched ==
    ASSUME NEW c, ConnOK(c), Untouched(c)
    PROVE  ConnOK(c)'
<1>1. /\ StreamsOK(c, c2s[c], s2c[c]) /\ ObjectsOK(c, c2sObjects[c], s2cObjects[c])
      /\ PhasesOK(c)
  BY ConnFacts
<1>2. StreamsOK(c, c2s'[c], s2c'[c]) /\ ObjectsOK(c, c2sObjects'[c], s2cObjects'[c])
  BY <1>1 DEF Untouched
<1>3. PhasesOK(c)' /\ SameTables(c)
  BY <1>1 DEF PhasesOK, Untouched, SameTables
<1> QED BY <1>2, <1>3, ConnSame

(* A step on one connection.                                               *)
LEMMA OneConnection ==
    ASSUME Inv, NEW c \in Clients, Types', AcceptedOnlyAuthorized', ConnOK(c)',
           \A d \in Clients \ {c} : Untouched(d)
    PROVE  Inv'
<1>1. ASSUME NEW d \in Clients PROVE ConnOK(d)'
  <2>1. ConnOK(d)
    BY DEF Inv
  <2> QED BY <2>1, ConnUntouched
<1> QED BY <1>1 DEF Inv

-----------------------------------------------------------------------------
(* The steps.                                                              *)
LEMMA ConnectedStep ==
    ASSUME Inv, NEW c \in Clients, Connected(c)
    PROVE  Inv'
<1> DEFINE m == [type |-> "auth", ok |-> c \in GoodToken]
<1>1. ConnOK(c) /\ Types /\ AcceptedOnlyAuthorized
  BY DEF Inv
<1>2. /\ StreamsOK(c, c2s[c], s2c[c]) /\ ObjectsOK(c, c2sObjects[c], s2cObjects[c])
      /\ PhasesOK(c)
  BY <1>1, ConnFacts
<1>3. m \in Message /\ m.type = "auth" /\ (m.ok => c \in GoodToken)
  <2>1. m \in Message
    <3>1. \A b \in BOOLEAN : [type |-> "auth", ok |-> b] \in Message
      BY MessageKinds
    <3>2. (c \in GoodToken) \in BOOLEAN
      OBVIOUS
    <3> HIDE DEF Message
    <3> QED BY ONLY <3>1, <3>2, Zenon DEF m
  <2>2. m.type = "auth"
    OBVIOUS
  <2>3. m.ok = (c \in GoodToken)
    BY Zenon
  <2> HIDE DEF m
  <2> QED BY <2>1, <2>2, <2>3
<1>4. c2s' = [c2s EXCEPT ![c] = Append(@, m)]
  BY DEF Connected
<1> HIDE DEF m
<1>5. Append(c2s[c], m) \in Seq(Message) /\ StreamsOK(c, Append(c2s[c], m), s2c[c])
  BY <1>1, <1>2, <1>3, UpMore DEF Types
<1>6. /\ srv' \in [Clients -> SrvRecord] /\ cli' \in [Clients -> CliRecord]
      /\ srv'[c].phase = "open"
      /\ cli'[c].phase = "ready" /\ SameTables(c)
  BY <1>1 DEF Connected, Types, SrvRecord, CliRecord, SameTables
<1>7. Types'
  <2> HIDE DEF Message
  <2> QED BY <1>1, <1>4, <1>5, <1>6 DEF Types, Connected
<1>8. PhasesOK(c)'
  BY <1>2, <1>6 DEF PhasesOK, Connected
<1>9. ConnOK(c)'
  <2>1. c2s'[c] = Append(c2s[c], m) /\ s2c'[c] = s2c[c]
    BY <1>1, <1>4 DEF Types, Connected
  <2>2. StreamsOK(c, c2s'[c], s2c'[c])
    BY <1>5, <2>1
  <2>3. ObjectsOK(c, c2sObjects'[c], s2cObjects'[c])
    BY <1>2 DEF Connected
  <2> QED BY <1>1, <1>6, <1>8, <2>2, <2>3, ConnSame
<1>10. \A d \in Clients \ {c} : Untouched(d)
  BY <1>1, <1>4 DEF Connected, Types, Untouched
<1>11. AcceptedOnlyAuthorized'
  BY <1>1 DEF AcceptedOnlyAuthorized, Connected
<1> QED BY <1>7, <1>9, <1>10, <1>11, OneConnection

(* quicly_close by the server, on a message or an object it refuses.       *)
LEMMA ServerCloseFacts ==
    ASSUME Inv, NEW c \in Clients, ServerClose(c)
    PROVE  /\ srv' \in [Clients -> SrvRecord]
           /\ srv'[c].phase = "closed" /\ srv'[c].authenticated = srv[c].authenticated
           /\ srv'[c].subs = srv[c].subs
           /\ \A d \in Clients \ {c} : srv'[d] = srv[d]
BY DEF Inv, Types, ServerClose, SrvRecord

(* The server's table and authentication stay as they are.                 *)
ServerKeeps(c) ==
    /\ srv' \in [Clients -> SrvRecord]
    /\ srv'[c].authenticated = srv[c].authenticated /\ srv'[c].subs = srv[c].subs
    /\ srv'[c].phase \in {"open", "closed"}
    /\ \A d \in Clients \ {c} : srv'[d] = srv[d]

LEMMA ServerKeepsPhases ==
    ASSUME Inv, NEW c \in Clients, srv[c].phase = "open", ServerKeeps(c), UNCHANGED cli
    PROVE  PhasesOK(c)' /\ SameTables(c)
<1>1. PhasesOK(c)
  BY ConnFacts DEF Inv
<1>2. cli[c].phase # "connecting"
  BY <1>1 DEF PhasesOK
<1> QED BY <1>1, <1>2 DEF PhasesOK, SameTables, ServerKeeps

(* The messages of ServerReceive that change no table.                     *)
LEMMA ServerReceiveKeeps ==
    ASSUME Inv, NEW c \in Clients, srv[c].phase = "open", c2s[c] # <<>>, ServerKeeps(c),
           UNCHANGED <<cli, s2c, c2sObjects, s2cObjects>>,
           c2s' = [c2s EXCEPT ![c] = Tail(@)],
           accepted' \subseteq accepted \cup (IF srv[c].authenticated THEN {c} ELSE {})
    PROVE  Inv'
<1>1. ConnOK(c) /\ Types /\ AcceptedOnlyAuthorized
  BY DEF Inv
<1>2. StreamsOK(c, c2s[c], s2c[c]) /\ ObjectsOK(c, c2sObjects[c], s2cObjects[c])
  BY <1>1, ConnFacts
<1>3. Tail(c2s[c]) \in Seq(Message) /\ StreamsOK(c, Tail(c2s[c]), s2c[c])
  BY <1>1, <1>2, UpLess DEF Types
<1>4. srv[c].authenticated => c \in GoodToken
  BY <1>1 DEF ConnOK, AuthOK
<1>5. AcceptedOnlyAuthorized' /\ accepted' \subseteq Clients
  BY <1>1, <1>4 DEF AcceptedOnlyAuthorized, Types
<1>6. c2s' \in [Clients -> Seq(Message)] /\ c2s'[c] = Tail(c2s[c])
      /\ \A d \in Clients \ {c} : c2s'[d] = c2s[d]
  <2> HIDE DEF Message
  <2> QED BY <1>1, <1>3 DEF Types
<1>7. Types'
  BY <1>1, <1>5, <1>6 DEF Types, ServerKeeps
<1>8. PhasesOK(c)' /\ SameTables(c)
  BY ServerKeepsPhases
<1>9. ConnOK(c)'
  <2>1. StreamsOK(c, c2s'[c], s2c'[c]) /\ ObjectsOK(c, c2sObjects'[c], s2cObjects'[c])
    BY <1>2, <1>3, <1>6
  <2> QED BY <1>1, <1>8, <2>1, ConnSame
<1>10. \A d \in Clients \ {c} : Untouched(d)
  BY <1>6 DEF Untouched, ServerKeeps
<1> QED BY <1>5, <1>7, <1>9, <1>10, OneConnection

(* An object on a track stream of the server.                              *)
LEMMA ServerReceiveObjectStep ==
    ASSUME Inv, NEW c \in Clients, ServerReceiveObject(c)
    PROVE  Inv'
<1>1. ConnOK(c) /\ Types /\ AcceptedOnlyAuthorized
  BY DEF Inv
<1>2. StreamsOK(c, c2s[c], s2c[c]) /\ ObjectsOK(c, c2sObjects[c], s2cObjects[c])
  BY <1>1, ConnFacts
<1>3. PICK m \in c2sObjects[c] :
        /\ srv[c].phase = "open"
        /\ c2sObjects' = [c2sObjects EXCEPT ![c] = @ \ {m}]
        /\ IF ~srv[c].authenticated
           THEN ServerClose(c)
           ELSE /\ accepted' = IF FindTrack(srv[c].subs, m.alias) = NoTrack
                               THEN accepted ELSE accepted \cup {c}
                /\ UNCHANGED <<srv, s2c>>
        /\ UNCHANGED <<cli, c2s, s2cObjects>>
  BY DEF ServerReceiveObject
<1>4. ServerKeeps(c) /\ UNCHANGED s2c
  <2>1. CASE srv[c].authenticated
    BY <1>1, <1>3, <2>1 DEF ServerKeeps, Types
  <2>2. CASE ~srv[c].authenticated
    <3>1. ServerClose(c)
      BY <1>3, <2>2
    <3> QED BY <3>1, ServerCloseFacts DEF ServerKeeps, ServerClose
  <2> QED BY <2>1, <2>2
<1>5. accepted' \subseteq accepted \cup (IF srv[c].authenticated THEN {c} ELSE {})
  BY <1>3 DEF ServerClose
<1>6. srv[c].authenticated => c \in GoodToken
  BY <1>1 DEF ConnOK, AuthOK
<1>7. AcceptedOnlyAuthorized' /\ accepted' \subseteq Clients
  BY <1>1, <1>5, <1>6 DEF AcceptedOnlyAuthorized, Types
<1>8. /\ c2sObjects' \in [Clients -> SUBSET StreamObjects]
      /\ c2sObjects'[c] \subseteq c2sObjects[c]
      /\ \A d \in Clients \ {c} : c2sObjects'[d] = c2sObjects[d]
  <2> HIDE DEF StreamObjects
  <2> QED BY <1>1, <1>3 DEF Types
<1>9. Types'
  BY <1>1, <1>3, <1>4, <1>7, <1>8 DEF Types, ServerKeeps
<1>10. PhasesOK(c)' /\ SameTables(c)
  BY <1>3, <1>4, ServerKeepsPhases
<1>11. ConnOK(c)'
  <2>1. StreamsOK(c, c2s'[c], s2c'[c])
    BY <1>2, <1>3, <1>4
  <2>2. ObjectsOK(c, c2sObjects'[c], s2cObjects'[c])
    BY <1>2, <1>3, <1>8 DEF ObjectsOK, Resolves
  <2> QED BY <1>1, <1>10, <2>1, <2>2, ConnSame
<1>12. \A d \in Clients \ {c} : Untouched(d)
  BY <1>3, <1>4, <1>8 DEF Untouched, ServerKeeps
<1> QED BY <1>7, <1>9, <1>11, <1>12, OneConnection

LEMMA ClientReceiveObjectStep ==
    ASSUME Inv, NEW c \in Clients, ClientReceiveObject(c)
    PROVE  Inv'
<1>1. ConnOK(c) /\ Types /\ AcceptedOnlyAuthorized
  BY DEF Inv
<1>2. /\ StreamsOK(c, c2s[c], s2c[c]) /\ ObjectsOK(c, c2sObjects[c], s2cObjects[c])
      /\ PhasesOK(c)
  BY <1>1, ConnFacts
<1>3. /\ UNCHANGED <<srv, cli, c2s, s2c, c2sObjects, accepted>>
      /\ s2cObjects' \in [Clients -> SUBSET StreamObjects]
      /\ s2cObjects'[c] \subseteq s2cObjects[c]
      /\ \A d \in Clients \ {c} : s2cObjects'[d] = s2cObjects[d]
  <2> HIDE DEF StreamObjects
  <2> QED BY <1>1 DEF Types, ClientReceiveObject
<1>4. Types' /\ AcceptedOnlyAuthorized'
  BY <1>1, <1>3 DEF Types, AcceptedOnlyAuthorized
<1>5. ConnOK(c)'
  <2>1. ObjectsOK(c, c2sObjects'[c], s2cObjects'[c])
    BY <1>2, <1>3 DEF ObjectsOK, Resolves
  <2>2. StreamsOK(c, c2s'[c], s2c'[c]) /\ PhasesOK(c)' /\ SameTables(c)
    BY <1>2, <1>3 DEF PhasesOK, SameTables
  <2> QED BY <1>1, <2>1, <2>2, ConnSame
<1>6. \A d \in Clients \ {c} : Untouched(d)
  BY <1>3 DEF Untouched
<1> QED BY <1>4, <1>5, <1>6, OneConnection

(* A connection is freed on one side, or its control stream is heard of.   *)
LEMMA FreedStep ==
    ASSUME Inv, NEW c \in Clients, ClientFreed(c) \/ ServerFreed(c) \/ StreamOpened(c)
    PROVE  Inv'
<1>1. ConnOK(c) /\ Types /\ AcceptedOnlyAuthorized
  BY DEF Inv
<1>2. /\ StreamsOK(c, c2s[c], s2c[c]) /\ ObjectsOK(c, c2sObjects[c], s2cObjects[c])
      /\ PhasesOK(c)
  BY <1>1, ConnFacts
<1>3. UNCHANGED <<c2s, s2c, c2sObjects, s2cObjects, accepted>>
  BY DEF ClientFreed, ServerFreed, StreamOpened
<1>4. /\ srv' \in [Clients -> SrvRecord] /\ cli' \in [Clients -> CliRecord]
      /\ SameTables(c) /\ PhasesOK(c)'
      /\ \A d \in Clients \ {c} : srv'[d] = srv[d] /\ cli'[d] = cli[d]
  <2>1. CASE ClientFreed(c)
    BY <1>1, <1>2, <2>1 DEF ClientFreed, Types, SrvRecord, CliRecord, SameTables, PhasesOK
  <2>2. CASE ServerFreed(c)
    BY <1>1, <1>2, <2>2 DEF ServerFreed, Types, SrvRecord, CliRecord, SameTables, PhasesOK
  <2>3. CASE StreamOpened(c)
    BY <1>1, <1>2, <2>3 DEF StreamOpened, Types, SrvRecord, CliRecord, SameTables, PhasesOK
  <2> QED BY <2>1, <2>2, <2>3
<1>5. Types' /\ AcceptedOnlyAuthorized'
  BY <1>1, <1>3, <1>4 DEF Types, AcceptedOnlyAuthorized
<1>6. ConnOK(c)'
  <2>1. StreamsOK(c, c2s'[c], s2c'[c]) /\ ObjectsOK(c, c2sObjects'[c], s2cObjects'[c])
    BY <1>2, <1>3
  <2> QED BY <1>1, <1>4, <2>1, ConnSame
<1>7. \A d \in Clients \ {c} : Untouched(d)
  BY <1>3, <1>4 DEF Untouched
<1> QED BY <1>5, <1>6, <1>7, OneConnection

(* transport_publish by a client.                                          *)
LEMMA ClientPublishStep ==
    ASSUME Inv, NEW c \in Clients, NEW t \in Tracks, ClientPublish(c, t)
    PROVE  Inv'
<1>1. ConnOK(c) /\ Types /\ AcceptedOnlyAuthorized
  BY DEF Inv
<1>2. /\ StreamsOK(c, c2s[c], s2c[c]) /\ ObjectsOK(c, c2sObjects[c], s2cObjects[c])
      /\ PhasesOK(c)
  BY <1>1, ConnFacts
<1>3. UNCHANGED <<srv, cli, s2c, s2cObjects, accepted>>
  BY DEF ClientPublish
<1>4. AcceptedOnlyAuthorized' /\ PhasesOK(c)' /\ SameTables(c)
  BY <1>1, <1>2, <1>3 DEF AcceptedOnlyAuthorized, PhasesOK, SameTables
<1>5. CASE HasTrack(cli[c].subs, t)
  <2> DEFINE o == StreamObject(cli[c].subs, t)
             M == Master(c)
  <2>1. c2sObjects' = [c2sObjects EXCEPT ![c] = @ \cup {o}] /\ UNCHANGED c2s
    BY <1>5 DEF ClientPublish
  <2>2. Agrees(cli[c].subs, All, M) /\ Good(M, All, Bound(c)) /\ Bound(c) \in 8 .. 256
    BY <1>1, BoundKnown DEF ConnOK, TablesOK
  <2>3. o \in StreamObjects /\ Knows(M, o.track, o.alias)
    BY <1>5, <2>2, PublishedKnown
  <2> HIDE DEF o
  <2>4. /\ c2sObjects' \in [Clients -> SUBSET StreamObjects]
        /\ c2sObjects'[c] = c2sObjects[c] \cup {o}
        /\ \A d \in Clients \ {c} : c2sObjects'[d] = c2sObjects[d]
    <3> HIDE DEF StreamObjects
    <3> QED BY <1>1, <2>1, <2>3 DEF Types
  <2>5. Types'
    BY <1>1, <1>3, <2>1, <2>4 DEF Types
  <2>6. ObjectsOK(c, c2sObjects'[c], s2cObjects'[c])
    BY <1>2, <1>3, <2>3, <2>4 DEF ObjectsOK, Resolves
  <2>7. ConnOK(c)'
    <3>1. StreamsOK(c, c2s'[c], s2c'[c])
      BY <1>2, <1>3, <2>1
    <3> QED BY <1>1, <1>4, <2>6, <3>1, ConnSame
  <2>8. \A d \in Clients \ {c} : Untouched(d)
    BY <1>3, <2>1, <2>4 DEF Untouched
  <2> QED BY <1>4, <2>5, <2>7, <2>8, OneConnection
<1>6. CASE ~HasTrack(cli[c].subs, t)
  <2> DEFINE m == [type |-> "unicast", track |-> t]
  <2>1. c2s' = [c2s EXCEPT ![c] = Append(@, m)] /\ UNCHANGED c2sObjects
    BY <1>6 DEF ClientPublish
  <2>2. m \in Message /\ m.type = "unicast"
    BY MessageKinds
  <2> HIDE DEF m
  <2>3. Append(c2s[c], m) \in Seq(Message) /\ StreamsOK(c, Append(c2s[c], m), s2c[c])
    BY <1>1, <1>2, <2>2, UpMore DEF Types
  <2>4. /\ c2s' \in [Clients -> Seq(Message)] /\ c2s'[c] = Append(c2s[c], m)
        /\ \A d \in Clients \ {c} : c2s'[d] = c2s[d]
    <3> HIDE DEF Message
    <3> QED BY <1>1, <2>1, <2>3 DEF Types
  <2>5. Types'
    BY <1>1, <1>3, <2>1, <2>4 DEF Types
  <2>6. ConnOK(c)'
    <3>1. StreamsOK(c, c2s'[c], s2c'[c]) /\ ObjectsOK(c, c2sObjects'[c], s2cObjects'[c])
      BY <1>2, <1>3, <2>1, <2>3, <2>4
    <3> QED BY <1>1, <1>4, <3>1, ConnSame
  <2>7. \A d \in Clients \ {c} : Untouched(d)
    BY <1>3, <2>1, <2>4 DEF Untouched
  <2> QED BY <1>4, <2>5, <2>6, <2>7, OneConnection
<1> QED BY <1>5, <1>6

(* transport_publish by the server, to every connection at once.           *)
LEMMA ServerPublishStep ==
    ASSUME Inv, NEW t \in Tracks, ServerPublish(t)
    PROVE  Inv'
<1> DEFINE open == {c \in Clients : /\ srv[c].phase = "open" /\ cli[c].phase # "closed"
                                    /\ IsSubscribed(srv[c].subs, t)}
           streams == {c \in open : HasTrack(srv[c].subs, t)}
           unicast == {c \in open \ streams : srv[c].stream}
           m == [type |-> "unicast", track |-> t]
           O(c) == StreamObject(srv[c].subs, t)
<1>1. Types /\ AcceptedOnlyAuthorized
  BY DEF Inv
<1>2. UNCHANGED <<srv, cli, c2s, c2sObjects, accepted>>
  BY DEF ServerPublish
<1>3. /\ s2cObjects' = [c \in Clients |->
                           IF c \in streams
                           THEN s2cObjects[c] \cup {O(c)} ELSE s2cObjects[c]]
      /\ s2c' = [c \in Clients |-> IF c \in unicast THEN Append(s2c[c], m) ELSE s2c[c]]
  BY DEF ServerPublish
<1>4. m \in Message /\ m.type = "unicast"
  BY MessageKinds
<1>8. \A c \in streams : HasTrack(srv[c].subs, t)
  OBVIOUS
<1> HIDE DEF open, streams, unicast, m, O
<1>5. ASSUME NEW c \in Clients
      PROVE  ConnOK(c)' /\ s2cObjects'[c] \subseteq StreamObjects /\ s2c'[c] \in Seq(Message)
  <2>1. ConnOK(c)
    BY DEF Inv
  <2>2. /\ StreamsOK(c, c2s[c], s2c[c]) /\ ObjectsOK(c, c2sObjects[c], s2cObjects[c])
        /\ PhasesOK(c)
    BY <2>1, ConnFacts
  <2>3. PhasesOK(c)' /\ SameTables(c)
    BY <1>2, <2>2 DEF PhasesOK, SameTables
  <2>4. s2c'[c] \in Seq(Message) /\ StreamsOK(c, c2s'[c], s2c'[c])
    <3>1. s2c[c] \in Seq(Message)
      BY <1>1 DEF Types
    <3>2. Append(s2c[c], m) \in Seq(Message) /\ StreamsOK(c, c2s[c], Append(s2c[c], m))
      BY <1>4, <2>2, <3>1, DownMore
    <3>3. s2c'[c] = Append(s2c[c], m) \/ s2c'[c] = s2c[c]
      BY <1>3
    <3> HIDE DEF Message
    <3> QED BY <1>2, <2>2, <3>1, <3>2, <3>3
  <2>5. s2cObjects'[c] \subseteq StreamObjects /\ ObjectsOK(c, c2sObjects'[c], s2cObjects'[c])
    <3>1. s2cObjects[c] \subseteq StreamObjects
      BY <1>1 DEF Types
    <3>2. CASE c \in streams
      <4>1. s2cObjects'[c] = s2cObjects[c] \cup {O(c)}
        BY <1>3, <3>2
      <4>2. /\ Agrees(srv[c].subs, All, Master(c)) /\ Good(Master(c), All, Bound(c))
            /\ Bound(c) \in 8 .. 256
        BY <2>1, BoundKnown DEF ConnOK, TablesOK
      <4>3. O(c) \in StreamObjects /\ Knows(Master(c), O(c).track, O(c).alias)
        BY <1>8, <3>2, <4>2, PublishedKnown DEF O
      <4> QED BY <1>2, <2>2, <3>1, <4>1, <4>3 DEF ObjectsOK, Resolves
    <3>3. CASE c \notin streams
      <4>1. s2cObjects'[c] = s2cObjects[c]
        BY <1>3, <3>3
      <4> QED BY <1>2, <2>2, <3>1, <4>1
    <3> QED BY <3>2, <3>3
  <2> QED BY <2>1, <2>3, <2>4, <2>5, ConnSame
<1>6. /\ s2cObjects' \in [Clients -> SUBSET StreamObjects]
      /\ s2c' \in [Clients -> Seq(Message)]
  BY <1>3, <1>5
<1>7. Types' /\ AcceptedOnlyAuthorized'
  BY <1>1, <1>2, <1>6 DEF Types, AcceptedOnlyAuthorized
<1> QED BY <1>5, <1>7 DEF Inv

(* A SUBSCRIBE that reaches the server.                                    *)
LEMMA ServerSubscribeStep ==
    ASSUME Inv, NEW c \in Clients, ServerReceive(c), Head(c2s[c]).type = "subscribe",
           srv[c].authenticated
    PROVE  Inv'
<1> DEFINE m == Head(c2s[c])
           t == m.track
           a == m.alias
           M == Master(c)
           T == srv[c].subs
           R == AddSubscription(T, t, a)
           b == Bound(c)
<1>1. ConnOK(c) /\ Types /\ AcceptedOnlyAuthorized
  BY DEF Inv
<1>2. /\ TablesOK(c) /\ ServerStage(c) /\ ClientStage(c) /\ AuthOK(c)
      /\ Announced(s2c[c], cli[c].subs)
  BY <1>1 DEF ConnOK
<1>3. /\ srv[c].phase = "open" /\ c2s[c] # <<>>
      /\ srv' = [srv EXCEPT ![c].subs = R]
      /\ c2s' = [c2s EXCEPT ![c] = Tail(@)]
      /\ UNCHANGED <<cli, s2c, c2sObjects, s2cObjects, accepted>>
  BY DEF ServerReceive, ServerSubscribe
<1>4. /\ c2s[c] \in Seq(Message) /\ m = c2s[c][1] /\ 1 \in 1 .. Len(c2s[c])
      /\ Tail(c2s[c]) \in Seq(Message)
  <2> HIDE DEF Message
  <2>1. c2s[c] \in Seq(Message)
    BY <1>1 DEF Types
  <2> QED BY <1>3, <2>1, TailFacts
<1>5. cli[c].authenticated
  BY <1>2, <1>4 DEF ClientStage, Without
<1>6. t \in All /\ Knows(M, t, a)
  BY <1>2, <1>4 DEF TablesOK, Carries
<1>7. /\ Good(M, All, Bound(c)) /\ Agrees(T, All, M) /\ Agrees(cli[c].subs, All, M)
      /\ M = cli[c].subs /\ Bound(c) \in 8 .. 256
  BY <1>2, <1>5, BoundKnown DEF TablesOK, Master
<1> HIDE DEF m, M
<1>8. Agrees(R, All, M) /\ Extends(T, R) /\ HasTrack(R, t)
  <2> HIDE DEF t, a, T, R
  <2>1. /\ Fits(All) /\ b \in 8 .. 256 /\ Good(M, All, b) /\ Agrees(T, All, M)
        /\ t \in All /\ Knows(M, t, a) /\ R = AddSubscription(T, t, a)
    BY <1>6, <1>7, AllFacts DEF R, b
  <2> HIDE DEF b
  <2> QED BY ONLY <2>1, Absorb
<1>9. Plain(T, All) /\ Plain(R, All) /\ R \in Seq(Entry)
  BY <1>7, <1>8 DEF Agrees, Plain
<1> HIDE DEF R
<1>10. /\ srv' \in [Clients -> SrvRecord] /\ srv'[c].subs = R
       /\ srv'[c].phase = "open" /\ srv'[c].authenticated = srv[c].authenticated
       /\ \A d \in Clients \ {c} : srv'[d] = srv[d]
  <2> HIDE DEF Entry, T
  <2> QED BY <1>1, <1>3, <1>9 DEF Types, SrvRecord
<1>11. /\ c2s' \in [Clients -> Seq(Message)] /\ c2s'[c] = Tail(c2s[c])
       /\ \A d \in Clients \ {c} : c2s'[d] = c2s[d]
  <2> HIDE DEF Message
  <2> QED BY <1>1, <1>3, <1>4 DEF Types
<1>12. Types' /\ AcceptedOnlyAuthorized'
  BY <1>1, <1>3, <1>10, <1>11 DEF Types, AcceptedOnlyAuthorized
<1>13. /\ Carries(Tail(c2s[c]), All, M) /\ Tokens(Tail(c2s[c]), c)
  BY <1>2, <1>3, <1>4, TailKeeps DEF TablesOK, AuthOK, M
<1>14. Master(c)' = M /\ Bound(c)' = Bound(c)
  BY <1>3, <1>5, <1>7 DEF Master, Bound
<1>15. TablesOK(c)'
  <2>1. Carries(s2c[c], ToSet(ServerTracks), M) /\ Resolves(c2sObjects[c], M)
        /\ Resolves(s2cObjects[c], M)
    BY <1>2 DEF TablesOK, M
  <2> QED BY <1>3, <1>7, <1>8, <1>10, <1>11, <1>13, <1>14, <2>1 DEF TablesOK
<1>16. ServerStage(c)'
  <2>1. \A u \in ToSet(ServerTracks) : IsSubscribed(T, u)
    BY <1>2 DEF ServerStage
  <2>2. \A u : IsSubscribed(T, u) => IsSubscribed(R, u)
    BY <1>8, <1>9, ExtendsKeeps
  <2> QED BY <1>10, <2>1, <2>2 DEF ServerStage
<1>17. ClientStage(c)' /\ Announced(s2c[c], cli[c].subs)'
  BY <1>2, <1>3, <1>5, <1>10 DEF ClientStage
<1>18. AuthOK(c)'
  BY <1>2, <1>3, <1>10, <1>11, <1>13 DEF AuthOK, PhasesOK
<1>19. ConnOK(c)'
  BY <1>15, <1>16, <1>17, <1>18 DEF ConnOK
<1>20. \A d \in Clients \ {c} : Untouched(d)
  BY <1>3, <1>10, <1>11 DEF Untouched
<1> QED BY <1>12, <1>19, <1>20, OneConnection

(* A SUBSCRIBE that reaches a client.                                      *)
LEMMA ClientSubscribeStep ==
    ASSUME Inv, NEW c \in Clients, ClientReceive(c), Head(s2c[c]).type = "subscribe"
    PROVE  Inv'
<1> DEFINE m == Head(s2c[c])
           t == m.track
           a == m.alias
           M == Master(c)
           T == cli[c].subs
           R == AddSubscription(T, t, a)
           b == Bound(c)
<1>1. ConnOK(c) /\ Types /\ AcceptedOnlyAuthorized
  BY DEF Inv
<1>2. /\ TablesOK(c) /\ ServerStage(c) /\ ClientStage(c) /\ AuthOK(c)
      /\ Announced(s2c[c], T)
  BY <1>1 DEF ConnOK
<1>3. /\ cli[c].phase = "ready" /\ s2c[c] # <<>>
      /\ cli' = [cli EXCEPT ![c].subs = R]
      /\ s2c' = [s2c EXCEPT ![c] = Tail(@)]
      /\ UNCHANGED <<srv, c2s, c2sObjects, s2cObjects, accepted>>
  BY DEF ClientReceive
<1>4. /\ s2c[c] \in Seq(Message) /\ m = s2c[c][1] /\ 1 \in 1 .. Len(s2c[c])
      /\ Tail(s2c[c]) \in Seq(Message)
  <2> HIDE DEF Message
  <2>1. s2c[c] \in Seq(Message)
    BY <1>1 DEF Types
  <2> QED BY <1>3, <2>1, TailFacts
<1>5. t \in ToSet(ServerTracks) /\ t \in All /\ Knows(M, t, a)
  BY <1>2, <1>4 DEF TablesOK, Carries, All
<1>6. /\ Good(M, All, Bound(c)) /\ Agrees(T, All, M) /\ Agrees(srv[c].subs, All, M)
      /\ Bound(c) \in 8 .. 256
  BY <1>2, BoundKnown DEF TablesOK
<1> HIDE DEF M
<1>7. /\ Agrees(R, All, M) /\ Extends(T, R) /\ HasTrack(R, t)
      /\ HasTrack(T, t) => R = T
  <2> HIDE DEF m, t, a, T, R
  <2>1. /\ Fits(All) /\ b \in 8 .. 256 /\ Good(M, All, b) /\ Agrees(T, All, M)
        /\ t \in All /\ Knows(M, t, a) /\ R = AddSubscription(T, t, a)
    BY <1>5, <1>6, AllFacts DEF R, b
  <2> HIDE DEF b
  <2> QED BY ONLY <2>1, Absorb
<1>8. Plain(T, All) /\ Plain(R, All) /\ R \in Seq(Entry)
  BY <1>6, <1>7 DEF Agrees, Plain
<1>9. cli[c].authenticated => R = T
  BY <1>2, <1>5, <1>7 DEF ClientStage
<1> HIDE DEF R
<1>10. /\ cli' \in [Clients -> CliRecord] /\ cli'[c].subs = R
       /\ cli'[c].phase = "ready" /\ cli'[c].authenticated = cli[c].authenticated
       /\ \A d \in Clients \ {c} : cli'[d] = cli[d]
  <2> HIDE DEF Entry, T
  <2> QED BY <1>1, <1>3, <1>8 DEF Types, CliRecord
<1>11. /\ s2c' \in [Clients -> Seq(Message)] /\ s2c'[c] = Tail(s2c[c])
       /\ \A d \in Clients \ {c} : s2c'[d] = s2c[d]
  <2> HIDE DEF Message
  <2> QED BY <1>1, <1>3, <1>4 DEF Types
<1>12. Types' /\ AcceptedOnlyAuthorized'
  BY <1>1, <1>3, <1>10, <1>11 DEF Types, AcceptedOnlyAuthorized
<1>13. /\ Carries(Tail(s2c[c]), ToSet(ServerTracks), M)
       /\ Without(s2c[c], "auth_ok") => Without(Tail(s2c[c]), "auth_ok")
  BY <1>2, <1>3, <1>4, TailKeeps DEF TablesOK, M
<1>14. Master(c)' = M /\ Bound(c)' = Bound(c)
  BY <1>3, <1>9, <1>10 DEF Master, Bound, M
<1>15. TablesOK(c)'
  <2>1. Carries(c2s[c], All, M) /\ Resolves(c2sObjects[c], M) /\ Resolves(s2cObjects[c], M)
    BY <1>2 DEF TablesOK, M
  <2> QED BY <1>3, <1>6, <1>7, <1>10, <1>11, <1>13, <1>14, <2>1 DEF TablesOK
<1>16. /\ \A u : HasTrack(T, u) => HasTrack(R, u)
       /\ \A u : IsSubscribed(T, u) => IsSubscribed(R, u)
  BY <1>7, <1>8, ExtendsKeeps
<1>17. Announced(s2c[c], cli[c].subs)'
  <2>1. Announced(Tail(s2c[c]), R)
    <3> HIDE DEF T
    <3> QED BY <1>2, <1>3, <1>4, <1>7, <1>16, AnnouncedTail
  <2> QED BY <1>10, <1>11, <2>1
<1>18. ServerStage(c)'
  BY <1>2, <1>3, <1>11, <1>13 DEF ServerStage
<1>19. ClientStage(c)'
  BY <1>2, <1>3, <1>10, <1>16 DEF ClientStage
<1>20. AuthOK(c)'
  BY <1>2, <1>3, <1>10 DEF AuthOK, PhasesOK
<1>21. ConnOK(c)'
  BY <1>15, <1>17, <1>18, <1>19, <1>20 DEF ConnOK
<1>22. \A d \in Clients \ {c} : Untouched(d)
  BY <1>3, <1>10, <1>11 DEF Untouched
<1> QED BY <1>12, <1>21, <1>22, OneConnection

(* A unicast object that reaches a client.                                 *)
LEMMA ClientUnicastStep ==
    ASSUME Inv, NEW c \in Clients, ClientReceive(c), Head(s2c[c]).type = "unicast"
    PROVE  Inv'
<1>1. ConnOK(c) /\ Types /\ AcceptedOnlyAuthorized
  BY DEF Inv
<1>2. /\ StreamsOK(c, c2s[c], s2c[c]) /\ ObjectsOK(c, c2sObjects[c], s2cObjects[c])
      /\ PhasesOK(c)
  BY <1>1, ConnFacts
<1>3. /\ s2c[c] # <<>> /\ s2c' = [s2c EXCEPT ![c] = Tail(@)]
      /\ UNCHANGED <<srv, cli, c2s, c2sObjects, s2cObjects, accepted>>
  BY DEF ClientReceive
<1>4. Tail(s2c[c]) \in Seq(Message) /\ StreamsOK(c, c2s[c], Tail(s2c[c]))
  BY <1>1, <1>2, <1>3, DownLess DEF Types
<1>5. /\ s2c' \in [Clients -> Seq(Message)] /\ s2c'[c] = Tail(s2c[c])
      /\ \A d \in Clients \ {c} : s2c'[d] = s2c[d]
  <2> HIDE DEF Message
  <2> QED BY <1>1, <1>3, <1>4 DEF Types
<1>6. Types' /\ AcceptedOnlyAuthorized'
  BY <1>1, <1>3, <1>5 DEF Types, AcceptedOnlyAuthorized
<1>7. ConnOK(c)'
  <2>1. StreamsOK(c, c2s'[c], s2c'[c]) /\ ObjectsOK(c, c2sObjects'[c], s2cObjects'[c])
    BY <1>2, <1>3, <1>4, <1>5
  <2>2. PhasesOK(c)' /\ SameTables(c)
    BY <1>2, <1>3 DEF PhasesOK, SameTables
  <2> QED BY <1>1, <2>1, <2>2, ConnSame
<1>8. \A d \in Clients \ {c} : Untouched(d)
  BY <1>3, <1>5 DEF Untouched
<1> QED BY <1>6, <1>7, <1>8, OneConnection

(* The client's table when it learns that it is authenticated: it has the  *)
(* aliases of the server's tracks, and its own are above them.             *)
ClientTable(c, R) ==
    /\ Good(R, All, FirstAlias + Len(ServerTracks) + Len(ClientTracks))
    /\ \A t, a : Knows(Master(c), t, a) => Knows(R, t, a)
    /\ \A t \in ToSet(ServerTracks) : HasTrack(R, t)
    /\ \A t \in ToSet(ClientTracks) : IsSubscribed(R, t)
    /\ Extends(cli[c].subs, R)
    /\ srv[c].authenticated

LEMMA ClientTableFacts ==
    ASSUME NEW c, ConnOK(c), s2c[c] \in Seq(Message), s2c[c] # <<>>,
           Head(s2c[c]).type = "auth_ok",
           NEW R, R = SubscribeAll(cli[c].subs, ClientTracks)
    PROVE  ClientTable(c, R)
<1> DEFINE M == Master(c)
           T == cli[c].subs
           n == FirstAlias + Len(ServerTracks)
<1>1. TablesOK(c) /\ ServerStage(c) /\ ClientStage(c) /\ Announced(s2c[c], T)
  BY DEF ConnOK
<1>2. Agrees(T, All, M) /\ Agrees(srv[c].subs, All, M) /\ Good(M, All, Bound(c))
  BY <1>1 DEF TablesOK
<1>3. s2c[c][1].type = "auth_ok" /\ 1 \in 1 .. Len(s2c[c])
  <2>1. Head(s2c[c]) = s2c[c][1] /\ 1 \in 1 .. Len(s2c[c])
    <3> HIDE DEF Message
    <3> QED BY TailFacts
  <2> QED BY <2>1
<1>4. srv[c].authenticated
  BY <1>1, <1>3 DEF ServerStage, Without
<1>5. Plain(T, All) /\ Len(T) \in Nat
  BY <1>2, PlainFacts DEF Agrees
<1>6. \A j \in 1 .. Len(ClientTracks) : ClientTracks[j] \in ToSet(ClientTracks)
  <2>1. ClientTracks \in Seq(ToSet(ClientTracks))
    BY AllFacts
  <2> QED BY <2>1
<1>7. CASE cli[c].authenticated
  <2>1. /\ \A t \in ToSet(ServerTracks) : HasTrack(T, t)
        /\ \A t \in ToSet(ClientTracks) : IsSubscribed(T, t)
    BY <1>1, <1>7 DEF ClientStage
  <2>2. R = T
    BY <1>6, <2>1, BoundFacts, SubscribeAllSame
  <2>3. M = T /\ Bound(c) = n + Len(ClientTracks)
    BY <1>7 DEF Master, Bound
  <2>4. Extends(T, T)
    BY <1>5 DEF Extends
  <2> QED BY <1>2, <1>4, <2>1, <2>2, <2>3, <2>4 DEF ClientTable
<1>8. CASE ~cli[c].authenticated
  <2>1. M = srv[c].subs
    BY <1>8 DEF Master
  <2>2. Good(M, All, n) /\ n \in 8 .. 255 /\ n \in 8 .. 256
    <3>1. Bound(c) = n + 0
      BY <1>8 DEF Bound
    <3>2. n \in 8 .. 255
      BY BoundFacts
    <3>3. \A x : x \in 8 .. 255 => x + 0 = x /\ x \in 8 .. 256
      OBVIOUS
    <3> HIDE DEF n, M
    <3> QED BY <1>2, <3>1, <3>2, <3>3
  <2>3. \A t \in ToSet(ServerTracks) : HasTrack(T, t)
    <3>1. \A t : ~Precedes(s2c[c], t, 1)
      <4>1. s2c[c] \in Seq(Message) /\ \A i \in Nat \ {0} : ~(i < 1)
        OBVIOUS
      <4>2. Len(s2c[c]) \in Nat
        <5> HIDE DEF Message
        <5> QED BY <4>1
      <4> QED BY <4>2 DEF Precedes
    <3> QED BY <1>1, <1>3, <3>1 DEF Announced
  <2>4. \A i \in 1 .. Len(M) : HasTrack(T, M[i].track)
    BY <1>1, <1>8, <2>1, <2>3 DEF ClientStage
  <2> HIDE DEF M, n
  <2>5. Good(T, All, n) /\ \A t, a : Knows(M, t, a) => Knows(T, t, a)
    <3> HIDE DEF T
    <3> QED BY <1>2, <2>2, <2>4, AgreesIsGood
  <2>6. n + Len(ClientTracks) <= 256
    <3>1. n + Len(ClientTracks) \in 8 .. 255
      BY BoundFacts DEF n
    <3>2. \A x : x \in 8 .. 255 => x <= 256
      OBVIOUS
    <3> QED BY ONLY <3>1, <3>2
  <2>7. /\ Good(R, All, n + Len(ClientTracks)) /\ Extends(T, R)
        /\ \A j \in 1 .. Len(ClientTracks) : IsSubscribed(R, ClientTracks[j])
    <3>1. /\ Fits(All) /\ n \in 8 .. 255 /\ Good(T, All, n) /\ ClientTracks \in Seq(All)
          /\ n + Len(ClientTracks) <= 256 /\ R = SubscribeAll(T, ClientTracks)
      BY <2>2, <2>5, <2>6, AllFacts
    <3> HIDE DEF T
    <3> QED BY ONLY <3>1, SubscribeAllFacts
  <2>8. Plain(R, All)
    BY <2>7 DEF Good
  <2>9. /\ \A t : HasTrack(T, t) => HasTrack(R, t)
        /\ \A t, a : Knows(T, t, a) => Knows(R, t, a)
    BY <1>5, <2>7, <2>8, ExtendsKeeps
  <2>10. \A t \in ToSet(ClientTracks) : IsSubscribed(R, t)
    <3>1. \A t \in ToSet(ClientTracks) : \E j \in 1 .. Len(ClientTracks) : ClientTracks[j] = t
      BY AllFacts, ToSetFinite
    <3> QED BY <2>7, <3>1
  <2> QED BY <1>4, <2>3, <2>5, <2>7, <2>9, <2>10 DEF ClientTable, M, n
<1> QED BY <1>7, <1>8

(* The SUBSCRIBEs a client sends on it.                                    *)
LEMMA ClientSubscribes ==
    ASSUME NEW c, NEW R, ClientTable(c, R), NEW msgs, msgs = SubscribeMessages(R, ClientTracks)
    PROVE  /\ msgs \in Seq(Message) /\ Carries(msgs, All, R) /\ Tokens(msgs, c)
           /\ Agrees(R, All, R)
<1> DEFINE b == FirstAlias + Len(ServerTracks) + Len(ClientTracks)
<1>1. /\ Good(R, All, b) /\ \A t \in ToSet(ClientTracks) : IsSubscribed(R, t)
  BY DEF ClientTable
<1>2. b \in 8 .. 256
  <2>1. b \in 8 .. 255
    BY BoundFacts
  <2> HIDE DEF b
  <2> QED BY <2>1
<1>3. Agrees(R, All, R)
  BY <1>1 DEF Agrees, Good, Knows, Lists
<1>4. HasAll(R, ClientTracks)
  <2>1. ClientTracks \in Seq(ToSet(ClientTracks))
    BY AllFacts
  <2> QED BY <1>1, <2>1 DEF HasAll
<1> HIDE DEF b
<1>5. AreSubscribes(msgs, ClientTracks) /\ Carries(msgs, All, R)
  <2>1. /\ All \subseteq Tracks /\ b \in 8 .. 256 /\ Good(R, All, b) /\ Agrees(R, All, R)
        /\ All \subseteq All /\ ClientTracks \in Seq(All) /\ HasAll(R, ClientTracks)
        /\ msgs = SubscribeMessages(R, ClientTracks)
    BY <1>1, <1>2, <1>3, <1>4, AllFacts
  <2> QED BY ONLY <2>1, SubscribeMessagesFacts
<1>6. Tokens(msgs, c)
  BY <1>5 DEF Tokens, AreSubscribes
<1> QED BY <1>3, <1>5, <1>6 DEF AreSubscribes

LEMMA ClientAuthOkStep ==
    ASSUME Inv, NEW c \in Clients, ClientReceive(c), Head(s2c[c]).type = "auth_ok"
    PROVE  Inv'
<1> DEFINE M == Master(c)
           T == cli[c].subs
           R == SubscribeAll(T, ClientTracks)
           msgs == SubscribeMessages(R, ClientTracks)
           up == c2s[c] \o msgs
<1>1. ConnOK(c) /\ Types /\ AcceptedOnlyAuthorized
  BY DEF Inv
<1>2. /\ TablesOK(c) /\ ServerStage(c) /\ ClientStage(c) /\ AuthOK(c)
      /\ Announced(s2c[c], T)
  BY <1>1 DEF ConnOK
<1>3. /\ cli[c].phase = "ready" /\ s2c[c] # <<>>
      /\ cli' = [cli EXCEPT ![c].authenticated = TRUE, ![c].subs = R]
      /\ c2s' = [c2s EXCEPT ![c] = up]
      /\ s2c' = [s2c EXCEPT ![c] = Tail(@)]
      /\ UNCHANGED <<srv, c2sObjects, s2cObjects, accepted>>
  BY DEF ClientReceive
<1>4. s2c[c] \in Seq(Message) /\ c2s[c] \in Seq(Message) /\ Tail(s2c[c]) \in Seq(Message)
  <2> HIDE DEF Message
  <2>1. s2c[c] \in Seq(Message) /\ c2s[c] \in Seq(Message)
    BY <1>1 DEF Types
  <2> QED BY <1>3, <2>1, TailFacts
<1>5. ClientTable(c, R)
  BY <1>1, <1>3, <1>4, ClientTableFacts
<1> HIDE DEF R
<1>6. msgs \in Seq(Message) /\ Carries(msgs, All, R) /\ Tokens(msgs, c) /\ Agrees(R, All, R)
  BY <1>5, ClientSubscribes
<1> HIDE DEF msgs
<1>7. /\ \A t, a : Knows(M, t, a) => Knows(R, t, a)
      /\ Good(R, All, FirstAlias + Len(ServerTracks) + Len(ClientTracks))
  BY <1>5 DEF ClientTable
<1>8. /\ Agrees(srv[c].subs, All, R) /\ Carries(c2s[c], All, R)
      /\ Carries(s2c[c], ToSet(ServerTracks), R)
      /\ Resolves(c2sObjects[c], R) /\ Resolves(s2cObjects[c], R)
  <2>1. /\ Agrees(srv[c].subs, All, M) /\ Carries(c2s[c], All, M)
        /\ Carries(s2c[c], ToSet(ServerTracks), M)
        /\ Resolves(c2sObjects[c], M) /\ Resolves(s2cObjects[c], M)
    BY <1>2 DEF TablesOK
  <2> HIDE DEF M
  <2> QED BY <1>7, <2>1, KnownMore
<1>9. up \in Seq(Message) /\ Carries(up, All, R) /\ Tokens(up, c)
  <2>1. Tokens(c2s[c], c)
    BY <1>2 DEF AuthOK
  <2> QED BY <1>4, <1>6, <1>8, <2>1, ConcatKeeps
<1> HIDE DEF up
<1>10. R \in Seq(Entry) /\ Plain(R, All) /\ Plain(T, All)
  <2>1. Plain(T, All)
    BY <1>2 DEF TablesOK, Agrees
  <2> QED BY <1>7, <2>1 DEF Good, Plain
<1>11. /\ cli' \in [Clients -> CliRecord] /\ cli'[c].subs = R
       /\ cli'[c].phase = "ready" /\ cli'[c].authenticated = TRUE
       /\ \A d \in Clients \ {c} : cli'[d] = cli[d]
  <2> HIDE DEF Entry, T
  <2> QED BY <1>1, <1>3, <1>10 DEF Types, CliRecord
<1>12. /\ s2c' \in [Clients -> Seq(Message)] /\ s2c'[c] = Tail(s2c[c])
       /\ c2s' \in [Clients -> Seq(Message)] /\ c2s'[c] = up
       /\ \A d \in Clients \ {c} : s2c'[d] = s2c[d] /\ c2s'[d] = c2s[d]
  <2> HIDE DEF Message
  <2> QED BY <1>1, <1>3, <1>4, <1>9 DEF Types
<1>13. Types' /\ AcceptedOnlyAuthorized'
  BY <1>1, <1>3, <1>11, <1>12 DEF Types, AcceptedOnlyAuthorized
<1>14. Carries(Tail(s2c[c]), ToSet(ServerTracks), R)
  BY <1>3, <1>4, <1>8, TailKeeps
<1>15. /\ Master(c)' = R
       /\ Bound(c)' = FirstAlias + Len(ServerTracks) + Len(ClientTracks)
  BY <1>11 DEF Master, Bound
<1>16. TablesOK(c)'
  BY <1>3, <1>6, <1>7, <1>8, <1>9, <1>11, <1>12, <1>14, <1>15 DEF TablesOK
<1>17. \A u : HasTrack(T, u) => HasTrack(R, u)
  BY <1>5, <1>10, ExtendsKeeps DEF ClientTable
<1>18. Announced(s2c[c], cli[c].subs)'
  <2>1. Announced(Tail(s2c[c]), R)
    <3> HIDE DEF T
    <3> QED BY <1>2, <1>3, <1>4, <1>17, AnnouncedTail
  <2> QED BY <1>11, <1>12, <2>1
<1>19. ServerStage(c)' /\ ClientStage(c)'
  BY <1>2, <1>3, <1>5, <1>11 DEF ServerStage, ClientStage, ClientTable
<1>20. AuthOK(c)'
  BY <1>2, <1>3, <1>9, <1>11, <1>12 DEF AuthOK, PhasesOK
<1>21. ConnOK(c)'
  BY <1>16, <1>18, <1>19, <1>20 DEF ConnOK
<1>22. \A d \in Clients \ {c} : Untouched(d)
  BY <1>3, <1>11, <1>12 DEF Untouched
<1> QED BY <1>13, <1>21, <1>22, OneConnection

-----------------------------------------------------------------------------
(* The server's table of a connection it subscribes to its tracks on, and  *)
(* the table with every alias in use.                                      *)
NewMaster(c, R) == IF cli[c].authenticated THEN cli[c].subs ELSE R

ServerTable(c, R) ==
    /\ Good(NewMaster(c, R), All, Bound(c))
    /\ Agrees(R, All, NewMaster(c, R))
    /\ \A t, a : Knows(Master(c), t, a) => Knows(NewMaster(c, R), t, a)
    /\ HasAll(R, ServerTracks)
    /\ ~cli[c].authenticated
          => \A i \in 1 .. Len(R) : R[i].track \in ToSet(ServerTracks)

LEMMA ServerTracksIn ==
    /\ \A j \in 1 .. Len(ServerTracks) : ServerTracks[j] \in ToSet(ServerTracks)
    /\ \A t \in ToSet(ServerTracks) : \E j \in 1 .. Len(ServerTracks) : ServerTracks[j] = t
<1>1. ServerTracks \in Seq(ToSet(ServerTracks))
  BY AllFacts
<1>2. \A j \in 1 .. Len(ServerTracks) : ServerTracks[j] \in ToSet(ServerTracks)
  BY <1>1
<1> QED BY <1>2, AllFacts, ToSetFinite

LEMMA ServerTableFacts ==
    ASSUME NEW c, ConnOK(c), NEW R, R = SubscribeAll(srv[c].subs, ServerTracks)
    PROVE  ServerTable(c, R)
<1> DEFINE T == srv[c].subs
           b == FirstAlias + Len(ServerTracks)
           A == ToSet(ServerTracks)
<1>1. TablesOK(c) /\ ServerStage(c) /\ ClientStage(c)
  BY DEF ConnOK
<1>2. /\ Good(Master(c), All, Bound(c)) /\ Agrees(T, All, Master(c))
  BY <1>1 DEF TablesOK
<1>3. CASE srv[c].authenticated \/ T # <<>>
  <2>1. \A j \in 1 .. Len(ServerTracks) : IsSubscribed(T, ServerTracks[j])
    BY <1>1, <1>3, ServerTracksIn DEF ServerStage
  <2>2. R = T
    BY <2>1, BoundFacts, SubscribeAllSame
  <2>3. NewMaster(c, R) = Master(c)
    BY <2>2 DEF NewMaster, Master
  <2>4. ~cli[c].authenticated => \A i \in 1 .. Len(R) : R[i].track \in A
    BY <1>1, <2>2 DEF ClientStage
  <2> QED BY <1>2, <2>1, <2>2, <2>3, <2>4 DEF ServerTable, HasAll
<1>4. CASE ~srv[c].authenticated /\ T = <<>>
  <2>1. T = <<>> /\ ~cli[c].authenticated
    BY <1>1, <1>4 DEF ClientStage
  <2>2. NewMaster(c, R) = R /\ Master(c) = T
    BY <2>1 DEF NewMaster, Master
  <2>3. Bound(c) = b /\ b \in 8 .. 255
    <3>1. Bound(c) = b + 0
      BY <2>1 DEF Bound
    <3>2. b \in 8 .. 255
      BY BoundFacts
    <3>3. \A x : x \in 8 .. 255 => x + 0 = x
      OBVIOUS
    <3> HIDE DEF b
    <3> QED BY ONLY <3>1, <3>2, <3>3
  <2>4. Good(T, A, FirstAlias)
    <3>1. <<>> \in Seq(Entry) /\ Len(<<>>) = 0 /\ 1 .. 0 = {}
      OBVIOUS
    <3> HIDE DEF A
    <3> QED BY <2>1, <3>1 DEF Good, Plain, OneToOne
  <2>5. /\ Good(R, A, b) /\ Extends(T, R)
        /\ \A j \in 1 .. Len(ServerTracks) : IsSubscribed(R, ServerTracks[j])
    <3>1. \A x : x \in 8 .. 255 => x <= 256
      OBVIOUS
    <3>2. FirstAlias + Len(ServerTracks) <= 256
      BY <2>3, <3>1
    <3>3. /\ Fits(A) /\ FirstAlias \in 8 .. 255 /\ Good(T, A, FirstAlias)
          /\ ServerTracks \in Seq(A) /\ FirstAlias + Len(ServerTracks) <= 256
          /\ R = SubscribeAll(T, ServerTracks)
      BY <2>4, <3>2, AllFacts, BoundFacts
    <3>4. /\ Good(R, A, FirstAlias + Len(ServerTracks)) /\ Extends(T, R)
          /\ \A j \in 1 .. Len(ServerTracks) : IsSubscribed(R, ServerTracks[j])
      <4> HIDE DEF T, A, b
      <4> QED BY ONLY <3>3, SubscribeAllFacts
    <3> QED BY <3>4
  <2> HIDE DEF b, T
  <2>6. Plain(R, A) /\ Plain(T, A)
    BY <2>4, <2>5 DEF Good
  <2>7. Plain(R, All) /\ Good(R, All, b)
    BY <2>5, <2>6, AllFacts DEF Plain, Good
  <2>8. \A t, a : Knows(T, t, a) => Knows(R, t, a)
    BY <2>5, <2>6, ExtendsKeeps
  <2>9. Agrees(R, All, R)
    BY <2>7 DEF Agrees, Knows, Lists
  <2>10. \A i \in 1 .. Len(R) : R[i].track \in A
    BY <2>6 DEF Plain
  <2> QED BY <2>2, <2>3, <2>5, <2>7, <2>8, <2>9, <2>10 DEF ServerTable, HasAll
<1> QED BY <1>3, <1>4

(* What goes out on it, auth_ok last.                                      *)
LEMMA ReplyFacts ==
    ASSUME NEW A, NEW M, NEW msgs, AreSubscribes(msgs, ServerTracks), Carries(msgs, A, M),
           NEW q, q = <<[type |-> "auth_ok"]>> \/ q = <<>>, NEW T
    PROVE  /\ msgs \o q \in Seq(Message) /\ q \in Seq(Message)
           /\ Carries(msgs \o q, A, M) /\ Announced(msgs \o q, T)
           /\ q = <<>> => Without(msgs \o q, "auth_ok")
<1> DEFINE n == Len(msgs)
           r == msgs \o q
<1>1. /\ msgs \in Seq(Message) /\ n = Len(ServerTracks) /\ n \in Nat
      /\ \A j \in 1 .. n : msgs[j].type = "subscribe" /\ msgs[j].track = ServerTracks[j]
  BY BoundFacts DEF AreSubscribes
<1>2. q \in Seq(Message) /\ Len(q) \in {0, 1} /\ Without(q, "subscribe")
      /\ (q = <<>> => Len(q) = 0)
  <2> DEFINE x == [type |-> "auth_ok"]
  <2>1. x \in Message /\ x.type = "auth_ok"
    BY MessageKinds
  <2> HIDE DEF x
  <2>2. CASE q = <<>>
    <3>1. q \in Seq(Message) /\ Len(q) = 0
      BY <2>2
    <3> QED BY <3>1 DEF Without
  <2>3. CASE q = <<x>>
    <3>1. q \in Seq(Message) /\ Len(q) = 1 /\ q[1] = x
      <4> HIDE DEF Message
      <4> QED BY <2>1, <2>3
    <3>2. q # <<>>
      BY <2>3
    <3> QED BY <2>1, <3>1, <3>2 DEF Without
  <2> QED BY <2>2, <2>3 DEF x
<1>3. Carries(q, A, M)
  BY <1>2 DEF Carries, Without
<1>4. /\ r \in Seq(Message) /\ Len(r) = n + Len(q) /\ Carries(r, A, M)
      /\ \A i \in 1 .. n : r[i] = msgs[i]
  BY <1>1, <1>2, <1>3, ConcatKeeps
<1> HIDE DEF r
<1>5. Announced(r, T)
  <2> SUFFICES ASSUME NEW j \in 1 .. Len(r), r[j].type = "auth_ok", NEW t \in ToSet(ServerTracks)
               PROVE  Precedes(r, t, j)
    BY DEF Announced
  <2>1. PICK i \in 1 .. n : ServerTracks[i] = t
    BY <1>1, ServerTracksIn
  <2>2. ~(j \in 1 .. n)
    BY <1>1, <1>4
  <2>3. i \in 1 .. Len(r) /\ i < j
    BY <1>1, <1>2, <1>4, <2>2
  <2>4. r[i].type = "subscribe" /\ r[i].track = t
    BY <1>1, <1>4, <2>1
  <2> QED BY <2>3, <2>4 DEF Precedes
<1>6. ASSUME q = <<>> PROVE Without(r, "auth_ok")
  <2>1. Len(r) = n
    BY <1>1, <1>2, <1>4, <1>6
  <2> QED BY <1>1, <1>4, <2>1 DEF Without
<1> QED BY <1>2, <1>4, <1>5, <1>6 DEF r

(* One connection of ServerAuthOk.                                         *)
SrvAuth(r, R, z) == [r EXCEPT !.subs = R, !.stream = TRUE, !.authenticated = @ \/ z]

LEMMA SrvAuthFacts ==
    ASSUME NEW r \in SrvRecord, NEW R \in Seq(Entry), NEW z \in BOOLEAN
    PROVE  /\ SrvAuth(r, R, z) \in SrvRecord
           /\ SrvAuth(r, R, z).phase = r.phase /\ SrvAuth(r, R, z).subs = R
           /\ SrvAuth(r, R, z).stream = TRUE
           /\ SrvAuth(r, R, z).authenticated <=> r.authenticated \/ z
<1> HIDE DEF Entry
<1> QED BY DEF SrvRecord, SrvAuth

LEMMA MessagesAssociative ==
    ASSUME NEW x, x \in Seq(Message), NEW y, y \in Seq(Message), NEW z, z \in Seq(Message)
    PROVE  (x \o y) \o z = x \o (y \o z)
<1> HIDE DEF Message
<1> QED BY ConcatAssociative

LEMMA ServerAuthOkConn ==
    ASSUME Inv, NEW d \in Clients, srv[d].phase = "open",
           NEW z \in BOOLEAN, z => d \in GoodToken,
           NEW R, R = SubscribeAll(srv[d].subs, ServerTracks),
           NEW q, q = <<[type |-> "auth_ok"]>> \/ q = <<>>, ~z => q = <<>>,
           srv'[d] = SrvAuth(srv[d], R, z),
           s2c'[d] = s2c[d] \o SubscribeMessages(R, ServerTracks) \o q,
           c2s'[d] = c2s[d] \/ (c2s[d] # <<>> /\ c2s'[d] = Tail(c2s[d])),
           UNCHANGED <<cli, c2sObjects, s2cObjects>>
    PROVE  /\ ConnOK(d)'
           /\ srv'[d] \in SrvRecord /\ s2c'[d] \in Seq(Message) /\ c2s'[d] \in Seq(Message)
<1> DEFINE M == Master(d)
           N == NewMaster(d, R)
           b == Bound(d)
           A == ToSet(ServerTracks)
           msgs == SubscribeMessages(R, ServerTracks)
           r == msgs \o q
<1>1. ConnOK(d) /\ Types
  BY DEF Inv
<1>2. /\ TablesOK(d) /\ ServerStage(d) /\ ClientStage(d) /\ AuthOK(d)
      /\ Announced(s2c[d], cli[d].subs)
  BY <1>1 DEF ConnOK
<1>3. ServerTable(d, R)
  BY <1>1, ServerTableFacts
<1>4. /\ Good(N, All, b) /\ Agrees(R, All, N) /\ HasAll(R, ServerTracks)
      /\ \A t, a : Knows(M, t, a) => Knows(N, t, a)
  BY <1>3 DEF ServerTable
<1>5. /\ Agrees(cli[d].subs, All, N) /\ Carries(c2s[d], All, N) /\ Carries(s2c[d], A, N)
      /\ Resolves(c2sObjects[d], N) /\ Resolves(s2cObjects[d], N)
  <2>1. /\ Agrees(cli[d].subs, All, M) /\ Carries(c2s[d], All, M) /\ Carries(s2c[d], A, M)
        /\ Resolves(c2sObjects[d], M) /\ Resolves(s2cObjects[d], M)
    BY <1>2 DEF TablesOK
  <2> HIDE DEF M, N
  <2> QED BY <1>4, <2>1, KnownMore
<1>6. c2s[d] \in Seq(Message) /\ s2c[d] \in Seq(Message) /\ srv[d] \in SrvRecord
  BY <1>1 DEF Types
<1>7. b \in 8 .. 256
  BY BoundKnown
<1> HIDE DEF N, b
<1>8. AreSubscribes(msgs, ServerTracks) /\ Carries(msgs, A, N)
  <2>1. /\ All \subseteq Tracks /\ b \in 8 .. 256 /\ Good(N, All, b) /\ Agrees(R, All, N)
        /\ A \subseteq All /\ ServerTracks \in Seq(A) /\ HasAll(R, ServerTracks)
        /\ msgs = SubscribeMessages(R, ServerTracks)
    BY <1>4, <1>7, AllFacts
  <2> HIDE DEF msgs, A
  <2> QED BY ONLY <2>1, SubscribeMessagesFacts
<1>9. msgs \in Seq(Message)
  BY <1>8 DEF AreSubscribes
<1> HIDE DEF msgs
<1>10. /\ r \in Seq(Message) /\ q \in Seq(Message) /\ Carries(r, A, N)
       /\ Announced(r, cli[d].subs) /\ (~z => Without(r, "auth_ok"))
  BY <1>8, ReplyFacts
<1>11. s2c'[d] = s2c[d] \o r
  <2>1. s2c'[d] = (s2c[d] \o msgs) \o q
    BY DEF msgs
  <2>2. s2c[d] \in Seq(Message) /\ msgs \in Seq(Message) /\ q \in Seq(Message)
    BY <1>6, <1>9, <1>10
  <2>3. (s2c[d] \o msgs) \o q = s2c[d] \o (msgs \o q)
    <3> DEFINE s == s2c[d]
    <3>1. s \in Seq(Message)
      BY <2>2
    <3> HIDE DEF s
    <3>2. (s \o msgs) \o q = s \o (msgs \o q)
      BY ONLY <2>2, <3>1, MessagesAssociative
    <3> QED BY <3>2 DEF s
  <2> QED BY ONLY <2>1, <2>3 DEF r
<1> HIDE DEF r
<1>12. s2c'[d] \in Seq(Message) /\ Carries(s2c'[d], A, N)
  <2>1. s2c[d] \o r \in Seq(Message) /\ Carries(s2c[d] \o r, A, N)
    BY <1>5, <1>6, <1>10, ConcatKeeps
  <2> QED BY <1>11, <2>1
<1>13. Announced(s2c'[d], cli[d].subs)
  <2>1. Announced(s2c[d] \o r, cli[d].subs)
    BY <1>2, <1>6, <1>10, AnnouncedConcat
  <2> QED BY <1>11, <2>1
<1>14. /\ c2s'[d] \in Seq(Message) /\ Carries(c2s'[d], All, N) /\ Tokens(c2s'[d], d)
       /\ Without(c2s[d], "subscribe") => Without(c2s'[d], "subscribe")
  <2>1. Tokens(c2s[d], d)
    BY <1>2 DEF AuthOK
  <2>2. CASE c2s'[d] = c2s[d]
    BY <1>5, <1>6, <2>1, <2>2
  <2>3. CASE c2s[d] # <<>> /\ c2s'[d] = Tail(c2s[d])
    <3>1. /\ Carries(Tail(c2s[d]), All, N) /\ Tokens(Tail(c2s[d]), d)
          /\ Without(c2s[d], "subscribe") => Without(Tail(c2s[d]), "subscribe")
      BY <1>5, <1>6, <2>1, <2>3, TailKeeps
    <3>2. Tail(c2s[d]) \in Seq(Message)
      <4> HIDE DEF Message
      <4> QED BY <1>6, <2>3, TailFacts
    <3> QED BY <2>3, <3>1, <3>2
  <2> QED BY <2>2, <2>3
<1>15. R \in Seq(Entry)
  BY <1>4 DEF Agrees, Plain
<1>16. /\ srv'[d] \in SrvRecord /\ srv'[d].phase = "open" /\ srv'[d].subs = R
       /\ srv'[d].authenticated <=> srv[d].authenticated \/ z
  <2> DEFINE w == srv[d]
             x == SrvAuth(w, R, z)
  <2>1. w \in SrvRecord /\ R \in Seq(Entry) /\ z \in BOOLEAN
    BY <1>6, <1>15
  <2> HIDE DEF w
  <2>2. /\ x \in SrvRecord /\ x.phase = w.phase /\ x.subs = R
        /\ x.authenticated <=> w.authenticated \/ z
    BY ONLY <2>1, SrvAuthFacts, Zenon
  <2>3. srv'[d] = x /\ w.phase = "open"
    BY DEF w
  <2> HIDE DEF x
  <2>4. (x.authenticated <=> srv[d].authenticated \/ z)
    BY <2>2 DEF w
  <2> QED BY <2>2, <2>3, <2>4
<1>17. Master(d)' = N /\ Bound(d)' = b
  BY <1>16 DEF Master, NewMaster, Bound, N, b
<1>18. TablesOK(d)'
  BY <1>4, <1>5, <1>12, <1>14, <1>16, <1>17 DEF TablesOK
<1>19. ServerStage(d)'
  <2>1. \A t \in ToSet(ServerTracks) : IsSubscribed(R, t)
    BY <1>4, ServerTracksIn DEF HasAll
  <2>2. ASSUME ~srv[d].authenticated, ~z PROVE Without(s2c'[d], "auth_ok")
    <3>1. Without(s2c[d], "auth_ok")
      BY <1>2, <2>2 DEF ServerStage
    <3>2. Without(s2c[d] \o r, "auth_ok")
      BY <1>6, <1>10, <2>2, <3>1, ConcatKeeps
    <3> QED BY <1>11, <3>2
  <2> QED BY <1>16, <2>1, <2>2 DEF ServerStage
<1>20. ClientStage(d)'
  <2>1. ~cli[d].authenticated => \A i \in 1 .. Len(R) : R[i].track \in A
    BY <1>3 DEF ServerTable
  <2> QED BY <1>2, <1>14, <1>16, <2>1 DEF ClientStage
<1>21. AuthOK(d)'
  BY <1>2, <1>14, <1>16 DEF AuthOK, PhasesOK
<1>22. ConnOK(d)'
  BY <1>13, <1>18, <1>19, <1>20, <1>21 DEF ConnOK
<1> QED BY <1>12, <1>14, <1>16, <1>22

(* A good token: the server subscribes to its tracks on every connection   *)
(* that has a control stream, and answers.                                 *)
LEMMA ServerAuthOkStep ==
    ASSUME Inv, NEW c \in Clients, ServerReceive(c), Head(c2s[c]).type = "auth", Head(c2s[c]).ok
    PROVE  Inv'
<1> DEFINE open == {c} \cup {d \in Clients : srv[d].phase = "open" /\ srv[d].stream}
           T(d) == SubscribeAll(srv[d].subs, ServerTracks)
           Q(d) == IF d = c THEN <<[type |-> "auth_ok"]>> ELSE <<>>
<1>1. ConnOK(c) /\ Types /\ AcceptedOnlyAuthorized
  BY DEF Inv
<1>2. /\ srv[c].phase = "open" /\ c2s[c] # <<>> /\ ServerAuthOk(c)
      /\ c2s' = [c2s EXCEPT ![c] = Tail(@)]
      /\ UNCHANGED <<cli, c2sObjects, s2cObjects>>
  BY DEF ServerReceive
<1>3. /\ \A d \in Clients \ {c} : c2s'[d] = c2s[d]
      /\ c2s'[c] = Tail(c2s[c]) /\ c2s' \in [Clients -> Seq(Message)]
  <2>1. c2s[c] \in Seq(Message)
    BY <1>1 DEF Types
  <2> HIDE DEF Message
  <2>2. Tail(c2s[c]) \in Seq(Message)
    BY <1>2, <2>1, TailFacts
  <2> QED BY <1>1, <1>2, <2>2 DEF Types
<1>4. c \in GoodToken
  <2>1. Head(c2s[c]) = c2s[c][1] /\ 1 \in 1 .. Len(c2s[c])
    <3>1. c2s[c] \in Seq(Message)
      BY <1>1 DEF Types
    <3> HIDE DEF Message
    <3> QED BY <1>2, <3>1, TailFacts
  <2>2. Tokens(c2s[c], c)
    BY <1>1 DEF ConnOK, AuthOK
  <2> QED BY <2>1, <2>2 DEF Tokens
<1>5. UNCHANGED accepted
  BY <1>2 DEF ServerAuthOk
<1>6. ASSUME NEW d \in Clients
      PROVE  /\ srv'[d] = IF d \notin open THEN srv[d] ELSE SrvAuth(srv[d], T(d), d = c)
             /\ s2c'[d] = IF d \notin open THEN s2c[d]
                          ELSE s2c[d] \o SubscribeMessages(T(d), ServerTracks) \o Q(d)
  BY <1>2 DEF ServerAuthOk, SrvAuth
<1>7. DOMAIN srv' = Clients /\ DOMAIN s2c' = Clients
      /\ srv' = [d \in Clients |-> srv'[d]] /\ s2c' = [d \in Clients |-> s2c'[d]]
  BY <1>2 DEF ServerAuthOk
<1> HIDE DEF open, T, Q
<1>8. ASSUME NEW d \in Clients
      PROVE  ConnOK(d)' /\ srv'[d] \in SrvRecord /\ s2c'[d] \in Seq(Message)
  <2>1. ConnOK(d)
    BY DEF Inv
  <2>2. CASE d \notin open
    <3>1. d # c
      BY <2>2 DEF open
    <3>2. Untouched(d)
      BY <1>2, <1>3, <1>6, <2>2, <3>1 DEF Untouched
    <3>3. srv[d] \in SrvRecord /\ s2c[d] \in Seq(Message)
      BY <1>1 DEF Types
    <3> QED BY <2>1, <3>2, <3>3, ConnUntouched DEF Untouched
  <2>3. CASE d \in open
    <3> DEFINE z == (d = c)
               R == T(d)
               q == Q(d)
    <3>1. /\ srv'[d] = SrvAuth(srv[d], R, z)
          /\ s2c'[d] = s2c[d] \o SubscribeMessages(R, ServerTracks) \o q
      BY <1>6, <2>3
    <3>2. /\ R = SubscribeAll(srv[d].subs, ServerTracks)
          /\ q = <<[type |-> "auth_ok"]>> \/ q = <<>>
          /\ ~z => q = <<>>
      BY DEF T, Q
    <3>3. z \in BOOLEAN
      OBVIOUS
    <3>4. srv[d].phase = "open" /\ (z => d \in GoodToken)
      BY <1>2, <1>4, <2>3 DEF open
    <3>5. c2s'[d] = c2s[d] \/ (c2s[d] # <<>> /\ c2s'[d] = Tail(c2s[d]))
      BY <1>2, <1>3
    <3> HIDE DEF z, R, q
    <3> QED BY <1>2, <3>1, <3>2, <3>3, <3>4, <3>5, ServerAuthOkConn
  <2> QED BY <2>2, <2>3
<1>9. srv' \in [Clients -> SrvRecord] /\ s2c' \in [Clients -> Seq(Message)]
  <2> HIDE DEF SrvRecord, Message
  <2> QED BY <1>7, <1>8
<1>10. Types' /\ AcceptedOnlyAuthorized'
  BY <1>1, <1>2, <1>3, <1>5, <1>9 DEF Types, AcceptedOnlyAuthorized
<1> QED BY <1>8, <1>10 DEF Inv

-----------------------------------------------------------------------------
LEMMA ServerReceiveStep ==
    ASSUME Inv, NEW c \in Clients, ServerReceive(c)
    PROVE  Inv'
<1> DEFINE m == Head(c2s[c])
<1>1. Types
  BY DEF Inv
<1>2. /\ srv[c].phase = "open" /\ c2s[c] # <<>> /\ c2s' = [c2s EXCEPT ![c] = Tail(@)]
      /\ UNCHANGED <<cli, c2sObjects, s2cObjects>>
  BY DEF ServerReceive
<1>3. ASSUME ServerClose(c) PROVE Inv'
  <2>1. ServerKeeps(c) /\ UNCHANGED <<s2c, accepted>>
    BY <1>3, ServerCloseFacts DEF ServerKeeps, ServerClose
  <2> QED BY <1>2, <2>1, ServerReceiveKeeps
<1>4. CASE m.type = "auth" /\ m.ok /\ ServerAuthOk(c)
  BY <1>4, ServerAuthOkStep
<1>5. CASE m.type = "auth" /\ ~m.ok /\ ServerClose(c)
  BY <1>3, <1>5
<1>6. CASE m.type = "unicast" /\ ServerUnicast(c)
  <2>1. CASE srv[c].authenticated
    <3>1. accepted' = accepted \cup {c} /\ UNCHANGED <<srv, s2c>>
      BY <1>6, <2>1 DEF ServerUnicast
    <3>2. ServerKeeps(c)
      BY <1>1, <1>2, <3>1 DEF ServerKeeps, Types
    <3>3. accepted' \subseteq accepted \cup (IF srv[c].authenticated THEN {c} ELSE {})
      BY <2>1, <3>1
    <3> QED BY <1>2, <3>1, <3>2, <3>3, ServerReceiveKeeps
  <2>2. CASE ~srv[c].authenticated
    BY <1>3, <1>6, <2>2 DEF ServerUnicast
  <2> QED BY <2>1, <2>2
<1>7. CASE m.type = "subscribe" /\ ServerSubscribe(c, m)
  <2>1. CASE srv[c].authenticated
    BY <1>7, <2>1, ServerSubscribeStep
  <2>2. CASE ~srv[c].authenticated
    BY <1>3, <1>7, <2>2 DEF ServerSubscribe
  <2> QED BY <2>1, <2>2
<1> QED BY <1>4, <1>5, <1>6, <1>7 DEF ServerReceive

LEMMA ClientReceiveStep ==
    ASSUME Inv, NEW c \in Clients, ClientReceive(c)
    PROVE  Inv'
<1>1. Head(s2c[c]).type \in {"subscribe", "auth_ok", "unicast"}
  BY DEF ClientReceive
<1> QED BY <1>1, ClientSubscribeStep, ClientAuthOkStep, ClientUnicastStep

LEMMA StutterInv == Inv /\ UNCHANGED vars => Inv'
<1> SUFFICES ASSUME Inv, UNCHANGED vars PROVE Inv'
  OBVIOUS
<1>1. UNCHANGED <<srv, cli, c2s, s2c, c2sObjects, s2cObjects, accepted>>
  BY DEF vars
<1>2. Types' /\ AcceptedOnlyAuthorized'
  BY <1>1 DEF Inv, Types, AcceptedOnlyAuthorized
<1>3. ASSUME NEW c \in Clients PROVE ConnOK(c)'
  <2>1. ConnOK(c) /\ Untouched(c)
    BY <1>1 DEF Inv, Untouched
  <2> QED BY <2>1, ConnUntouched
<1> QED BY <1>2, <1>3 DEF Inv

(* Session.tla keeps its inductive invariant: the aliases in use are those *)
(* of the server's tracks until the client learns that it is authenticated *)
(* and then those of the client's table, one to one; tables, SUBSCRIBEs on *)
(* their way and objects in flight only say what is in it.                 *)
THEOREM SessionInvariance == Spec => []IInv
<1>1. Init => Inv
  BY InitInv
<1>2. Inv /\ [Next]_vars => Inv'
  <2> SUFFICES ASSUME Inv, [Next]_vars PROVE Inv'
    OBVIOUS
  <2>1. CASE UNCHANGED vars
    BY <2>1, StutterInv
  <2>2. ASSUME NEW c \in Clients,
               \/ Connected(c) \/ StreamOpened(c)
               \/ ServerReceive(c) \/ ClientReceive(c)
               \/ ServerReceiveObject(c) \/ ClientReceiveObject(c)
               \/ ClientFreed(c) \/ ServerFreed(c)
        PROVE  Inv'
    BY <2>2, ConnectedStep, ServerReceiveStep, ClientReceiveStep, ServerReceiveObjectStep,
       ClientReceiveObjectStep, FreedStep
  <2>3. ASSUME NEW c \in Clients, NEW t \in Tracks, ClientPublish(c, t) PROVE Inv'
    BY <2>3, ClientPublishStep
  <2>4. ASSUME NEW t \in Tracks, ServerPublish(t) PROVE Inv'
    BY <2>4, ServerPublishStep
  <2> QED BY <2>1, <2>2, <2>3, <2>4 DEF Next
<1>3. Inv => IInv
  BY InvIsIInv
<1> QED BY <1>1, <1>2, <1>3, PTL DEF Spec

(* Both ends and the streams between them keep their types, no table       *)
(* outgrows its 32 slots.                                                  *)
THEOREM SessionTypeCorrect == Spec => []TypeOK
<1>1. IInv => TypeOK
  BY DEF IInv
<1> QED BY <1>1, SessionInvariance, PTL

(* handle_transport_event's daemon callback is given objects of clients    *)
(* with a good token only: `authenticated` is looked at on the control     *)
(* stream and on every track stream.                                       *)
THEOREM AcceptedAuthorized == Spec => []AcceptedOnlyAuthorized
<1>1. IInv => AcceptedOnlyAuthorized
  BY DEF IInv
<1> QED BY <1>1, SessionInvariance, PTL

(* A client that has received TRANSPORT_MSG_AUTH_OK is authenticated at    *)
(* the server.                                                             *)
THEOREM AuthAgreed == Spec => []AuthAgreement
<1>1. IInv => AuthAgreement
  BY DEF IInv, AuthAgreement, ConnOK, ClientStage
<1> QED BY <1>1, SessionInvariance, PTL

(* Both ends of a connection allocate aliases (next_alias in               *)
(* transport_subscribe) and never disagree about a track, nor use one      *)
(* alias for two.                                                          *)
THEOREM AliasesAgree == Spec => []AliasAgreement
<1>1. ASSUME IInv PROVE AliasAgreement
  <2> SUFFICES ASSUME NEW c \in Clients, NEW i \in 1 .. Len(srv[c].subs),
                      NEW j \in 1 .. Len(cli[c].subs)
               PROVE  srv[c].subs[i].track = cli[c].subs[j].track
                        <=> srv[c].subs[i].alias = cli[c].subs[j].alias
    BY DEF AliasAgreement
  <2> DEFINE t == srv[c].subs[i].track
             a == srv[c].subs[i].alias
             u == cli[c].subs[j].track
             d == cli[c].subs[j].alias
             M == Master(c)
             b == Bound(c)
  <2>1. TablesOK(c)
    BY <1>1 DEF IInv, ConnOK
  <2>2. /\ Good(M, All, b) /\ Knows(M, t, a) /\ Knows(M, u, d)
    BY <2>1 DEF TablesOK, Agrees
  <2>3. b \in 8 .. 256
    BY BoundKnown
  <2>4. t = u <=> a = d
    <3> HIDE DEF t, a, u, d, M, b
    <3> QED BY ONLY <2>2, <2>3, KnowsOneToOne
  <2> QED BY <2>4
<1> QED BY <1>1, SessionInvariance, PTL

(* A reliable object in flight is raised under its own track or dropped,   *)
(* and not dropped by an end that subscribed to the track itself           *)
(* (parse_track_stream_messages).                                          *)
THEOREM ObjectsResolved == Spec => []ObjectsResolve
<1>1. ASSUME IInv PROVE ObjectsResolve
  <2>1. ASSUME NEW c \in Clients
        PROVE  /\ \A m \in c2sObjects[c] :
                     /\ FindTrack(srv[c].subs, m.alias) \in {m.track, NoTrack}
                     /\ IsSubscribed(srv[c].subs, m.track)
                           => FindTrack(srv[c].subs, m.alias) = m.track
               /\ \A m \in s2cObjects[c] :
                     /\ FindTrack(cli[c].subs, m.alias) \in {m.track, NoTrack}
                     /\ IsSubscribed(cli[c].subs, m.track)
                           => FindTrack(cli[c].subs, m.alias) = m.track
               /\ srv[c].authenticated
                     => \A t \in ToSet(ServerTracks) : IsSubscribed(srv[c].subs, t)
               /\ cli[c].authenticated
                     => \A t \in ToSet(ClientTracks) : IsSubscribed(cli[c].subs, t)
    <3> DEFINE M == Master(c)
               b == Bound(c)
               S == srv[c].subs
               T == cli[c].subs
    <3>1. TablesOK(c) /\ ServerStage(c) /\ ClientStage(c)
      BY <1>1 DEF IInv, ConnOK
    <3>2. /\ Good(M, All, b) /\ Agrees(S, All, M) /\ Agrees(T, All, M) /\ b \in 8 .. 256
          /\ \A m \in c2sObjects[c] : Knows(M, m.track, m.alias)
          /\ \A m \in s2cObjects[c] : Knows(M, m.track, m.alias)
      BY <3>1, BoundKnown DEF TablesOK, Resolves
    <3>3. /\ srv[c].authenticated => \A t \in ToSet(ServerTracks) : IsSubscribed(S, t)
          /\ cli[c].authenticated => \A t \in ToSet(ClientTracks) : IsSubscribed(T, t)
      BY <3>1 DEF ServerStage, ClientStage
    <3> HIDE DEF M, b, S, T
    <3>4. ASSUME NEW m \in c2sObjects[c]
          PROVE  /\ FindTrack(S, m.alias) \in {m.track, NoTrack}
                 /\ IsSubscribed(S, m.track) => FindTrack(S, m.alias) = m.track
      <4> DEFINE t == m.track
                 a == m.alias
      <4>1. Good(M, All, b) /\ b \in 8 .. 256 /\ Agrees(S, All, M) /\ Knows(M, t, a)
        BY <3>2
      <4>2. Found(S, t, a)
        <5> HIDE DEF t, a
        <5> QED BY ONLY <4>1, FindTrackFacts
      <4> QED BY <4>2 DEF Found
    <3>5. ASSUME NEW m \in s2cObjects[c]
          PROVE  /\ FindTrack(T, m.alias) \in {m.track, NoTrack}
                 /\ IsSubscribed(T, m.track) => FindTrack(T, m.alias) = m.track
      <4> DEFINE t == m.track
                 a == m.alias
      <4>1. Good(M, All, b) /\ b \in 8 .. 256 /\ Agrees(T, All, M) /\ Knows(M, t, a)
        BY <3>2
      <4>2. Found(T, t, a)
        <5> HIDE DEF t, a
        <5> QED BY ONLY <4>1, FindTrackFacts
      <4> QED BY <4>2 DEF Found
    <3> QED BY <3>3, <3>4, <3>5 DEF S, T
  <2> QED BY <2>1 DEF ObjectsResolve
<1> QED BY <1>1, SessionInvariance, PTL
=============================================================================
