------------------------- MODULE TrackStreamsProofs -------------------------
(***************************************************************************)
(* What TrackStreams guarantees for every stream limit, backpressure limit  *)
(* and number of objects.                                                  *)
(***************************************************************************)
EXTENDS TrackStreams, FiniteSetTheorems, SequenceTheorems, TLAPS

(* A stream of its own is all an end has beyond what the peer's streams    *)
(* displaced; without one it has no more than those.                       *)
Turns ==
    \A e \in Ends :
        Len(streams[e]) <= (IF entry[e] = "own" THEN 1 ELSE 0) + Cardinality(Heard(e))

(* Up to the first stream of the peer, the end's only stream holds all it   *)
(* published, and the peer has raised as much as it parsed of it.          *)
Order ==
    \A e \in Ends : Heard(e) = {} =>
        /\ streams[e] = <<>> => published[e] = 0 /\ raised[Peer(e)] = <<>>
        /\ streams[e] # <<>> =>
              /\ Len(streams[e][1].objects) = published[e]
              /\ \A i \in 1 .. published[e] : streams[e][1].objects[i] = i
              /\ Len(raised[Peer(e)]) = IF streams[e][1].parsed = 0 THEN 0
                                        ELSE streams[e][1].parsed - 1
        /\ \A i \in 1 .. Len(raised[Peer(e)]) : raised[Peer(e)][i] = i

IInv == TypeOK /\ Turns /\ BacklogBounded /\ Order

(* The two ends are each other's peers.                                    *)
LEMMA Peers ==
    \A e \in Ends : Peer(e) \in Ends /\ Peer(e) # e /\ Peer(Peer(e)) = e
BY DEF Ends, Peer

LEMMA TwoEnds ==
    \A e, x \in Ends : x = e \/ x = Peer(e)
BY DEF Ends, Peer

(* The streams an end has heard of are finitely many.                      *)
LEMMA HeardFinite ==
    ASSUME TypeOK, NEW e \in Ends
    PROVE  IsFiniteSet(Heard(e)) /\ Cardinality(Heard(e)) \in Nat
<1>1. Len(streams[Peer(e)]) \in Nat
  BY Peers DEF TypeOK
<1>2. IsFiniteSet(1 .. Len(streams[Peer(e)]))
  BY <1>1, FS_Interval
<1>3. Heard(e) \subseteq 1 .. Len(streams[Peer(e)])
  BY DEF Heard
<1> QED BY <1>2, <1>3, FS_Subset, FS_CardinalityType

(* The fields of a stream of a sequence.                                   *)
LEMMA StreamFields ==
    ASSUME NEW s \in Seq(Stream), NEW k \in 1 .. Len(s)
    PROVE  /\ s[k] \in Stream
           /\ s[k].objects \in Seq(Nat) /\ Len(s[k].objects) \in Nat
           /\ s[k].parsed \in Nat
<1>1. s[k] \in Stream
  OBVIOUS
<1> QED BY <1>1 DEF Stream

(* Changing one field of a stream.                                         *)
LEMMA StreamUpdate ==
    ASSUME NEW r \in Stream, NEW objs \in Seq(Nat), NEW q \in Nat
    PROVE  /\ [r EXCEPT !.objects = objs] \in Stream
           /\ [r EXCEPT !.objects = objs].objects = objs
           /\ [r EXCEPT !.objects = objs].parsed = r.parsed
           /\ [r EXCEPT !.parsed = q] \in Stream
           /\ [r EXCEPT !.parsed = q].objects = r.objects
           /\ [r EXCEPT !.parsed = q].parsed = q
BY DEF Stream

(* Changing one stream of a sequence.                                      *)
LEMMA SeqUpdate ==
    ASSUME NEW s \in Seq(Stream), NEW k \in 1 .. Len(s), NEW u \in Stream
    PROVE  /\ [s EXCEPT ![k] = u] \in Seq(Stream)
           /\ Len([s EXCEPT ![k] = u]) = Len(s)
           /\ \A j \in 1 .. Len(s) : [s EXCEPT ![k] = u][j] = IF j = k THEN u ELSE s[j]
OBVIOUS

(* What a write leaves behind: one more object on the end's own stream, or *)
(* one more stream.                                                        *)
LEMMA WriteFacts ==
    ASSUME TypeOK, NEW e \in Ends, Write(e)
    PROVE  LET n == Len(streams[e])
           IN  /\ streams' \in [Ends -> Seq(Stream)]
               /\ \A x \in Ends : x # e => streams'[x] = streams[x]
               /\ entry[e] = "own" =>
                     /\ n \in Nat \ {0}
                     /\ Len(streams'[e]) = n
                     /\ \A k \in 1 .. n : k # n => streams'[e][k] = streams[e][k]
                     /\ streams'[e][n].objects
                           = Append(streams[e][n].objects, published[e] + 1)
                     /\ streams'[e][n].parsed = streams[e][n].parsed
               /\ entry[e] # "own" =>
                     /\ Len(streams'[e]) = n + 1
                     /\ \A k \in 1 .. n : streams'[e][k] = streams[e][k]
                     /\ streams'[e][n + 1].objects = <<published[e] + 1>>
                     /\ streams'[e][n + 1].parsed = 0
<1> DEFINE n == Len(streams[e])
           s == [objects |-> <<published[e] + 1>>, parsed |-> 0]
<1>1. /\ streams[e] \in Seq(Stream) /\ n \in Nat
      /\ published[e] + 1 \in Nat
  BY DEF TypeOK
<1>2. CASE entry[e] = "own"
  <2>1. n \in Nat \ {0}
    BY <1>1, <1>2 DEF TypeOK
  <2>2. streams[e][n] \in Stream
    BY <1>1, <2>1
  <2> DEFINE objs == Append(streams[e][n].objects, published[e] + 1)
             u == [streams[e][n] EXCEPT !.objects = objs]
             t == [streams[e] EXCEPT ![n] = u]
  <2>3. objs \in Seq(Nat)
    BY <1>1, <2>2 DEF Stream
  <2>4. streams' = [streams EXCEPT ![e] = t]
    BY <1>2 DEF Write
  <2> HIDE DEF objs
  <2>5. u \in Stream /\ u.parsed = streams[e][n].parsed /\ u.objects = objs
    BY <2>2, <2>3, StreamUpdate, 0 \in Nat
  <2> HIDE DEF u
  <2>6. /\ t \in Seq(Stream) /\ Len(t) = n
        /\ \A j \in 1 .. n : t[j] = IF j = n THEN u ELSE streams[e][j]
    BY <1>1, <2>1, <2>5, SeqUpdate
  <2> HIDE DEF t
  <2>7. streams'[e] = t /\ streams' \in [Ends -> Seq(Stream)]
        /\ \A x \in Ends : x # e => streams'[x] = streams[x]
    BY <2>4, <2>6 DEF TypeOK
  <2> QED BY <1>1, <1>2, <2>1, <2>5, <2>6, <2>7 DEF objs
<1>3. CASE entry[e] # "own"
  <2>1. s \in Stream
    BY <1>1 DEF Stream
  <2>2. streams' = [streams EXCEPT ![e] = Append(streams[e], s)]
    BY <1>3 DEF Write
  <2>3. Append(streams[e], s) \in Seq(Stream)
    BY <1>1, <2>1
  <2> QED BY <1>1, <1>3, <2>1, <2>2, <2>3 DEF TypeOK
<1> QED BY <1>2, <1>3

(* Stream k of the peer's has been parsed up to q.                         *)
ParsedTo(e, k, q) == streams' = [streams EXCEPT ![Peer(e)][k].parsed = q]

(* What parsing leaves behind: one stream of the peer's is further on.     *)
LEMMA ParseFacts ==
    ASSUME TypeOK, NEW e \in Ends, NEW k, NEW q \in Nat, Sendable(Peer(e), k),
           ParsedTo(e, k, q)
    PROVE  LET p == Peer(e)
           IN  /\ k \in 1 .. Len(streams[p])
               /\ streams' \in [Ends -> Seq(Stream)]
               /\ streams'[e] = streams[e]
               /\ Len(streams'[p]) = Len(streams[p])
               /\ \A j \in 1 .. Len(streams[p]) :
                     /\ streams'[p][j].objects = streams[p][j].objects
                     /\ streams'[p][j].parsed = IF j = k THEN q ELSE streams[p][j].parsed
<1> DEFINE p == Peer(e)
<1>1. p \in Ends /\ p # e
  BY Peers
<1>2. k \in 1 .. Len(streams[p]) /\ streams[p] \in Seq(Stream)
  BY <1>1 DEF Sendable, TypeOK
<1>3. streams[p][k] \in Stream
  BY <1>2
<1> DEFINE u == [streams[p][k] EXCEPT !.parsed = q]
<1>4. u \in Stream /\ u.parsed = q /\ u.objects = streams[p][k].objects
  BY <1>3, StreamUpdate, <<>> \in Seq(Nat)
<1> DEFINE t == [streams[p] EXCEPT ![k] = u]
<1>5. streams' = [streams EXCEPT ![p] = t]
  BY DEF ParsedTo
<1> HIDE DEF u
<1>6. /\ t \in Seq(Stream) /\ Len(t) = Len(streams[p])
      /\ \A j \in 1 .. Len(streams[p]) : t[j] = IF j = k THEN u ELSE streams[p][j]
  BY <1>2, <1>4, SeqUpdate
<1> HIDE DEF t
<1>7. streams' \in [Ends -> Seq(Stream)] /\ streams'[e] = streams[e] /\ streams'[p] = t
  BY <1>1, <1>5, <1>6 DEF TypeOK
<1> QED BY <1>2, <1>4, <1>6, <1>7

-----------------------------------------------------------------------------
LEMMA InitEstablishes == Init => IInv
<1> SUFFICES ASSUME Init PROVE IInv
  OBVIOUS
<1> USE DEF Init
<1>1. TypeOK
  BY DEF TypeOK, Stream
<1>2. \A e \in Ends : Peer(e) \in Ends /\ streams[e] = <<>> /\ Len(streams[e]) = 0
                      /\ raised[Peer(e)] = <<>> /\ published[e] = 0
  BY Peers
<1>3. Turns
  BY <1>1, <1>2, HeardFinite DEF Turns
<1>4. BacklogBounded
  BY <1>2 DEF BacklogBounded
<1>5. Order
  BY <1>2 DEF Order
<1> QED BY <1>1, <1>3, <1>4, <1>5 DEF IInv

(* transport_publish: a stream is opened only without one of one's own.    *)
LEMMA PublishKeeps ==
    ASSUME IInv, NEW e \in Ends, Publish(e)
    PROVE  IInv'
<1> DEFINE p == Peer(e)
           n == Len(streams[e])
<1>1. TypeOK /\ Turns /\ BacklogBounded /\ Order
  BY DEF IInv
<1>2. p \in Ends /\ p # e /\ Peer(p) = e /\ \A x \in Ends : x = e \/ x = p
  BY Peers, TwoEnds
<1>3. /\ Write(e) /\ TrackReady(e)
      /\ entry' = [entry EXCEPT ![e] = "own"]
      /\ published' = [published EXCEPT ![e] = @ + 1]
      /\ raised' = raised
  BY DEF Publish
<1>4. /\ entry'[e] = "own" /\ entry'[p] = entry[p]
      /\ published'[e] = published[e] + 1 /\ published'[p] = published[p]
      /\ entry' \in [Ends -> {"null", "own", "incoming"}]
      /\ published' \in [Ends -> Nat] /\ raised' \in [Ends -> Seq(Nat)]
  BY <1>1, <1>2, <1>3 DEF TypeOK
<1>5. /\ streams' \in [Ends -> Seq(Stream)] /\ streams'[p] = streams[p]
      /\ n \in Nat /\ published[e] \in Nat
      /\ streams[e] \in Seq(Stream) /\ streams'[e] \in Seq(Stream)
      /\ \A k \in 1 .. n : /\ streams[e][k].objects \in Seq(Nat)
                           /\ Len(streams[e][k].objects) \in Nat
                           /\ streams[e][k].parsed \in Nat
  <2>1. streams' \in [Ends -> Seq(Stream)] /\ streams'[p] = streams[p]
    BY <1>1, <1>2, <1>3, WriteFacts
  <2>2. streams[e] \in Seq(Stream) /\ published[e] \in Nat
    BY <1>1 DEF TypeOK
  <2> QED BY <2>1, <2>2, StreamFields
<1>6. CASE entry[e] = "own"
  <2>1. /\ n \in 1 .. n
        /\ Len(streams'[e]) = n
        /\ \A k \in 1 .. n : k # n => streams'[e][k] = streams[e][k]
        /\ streams'[e][n].objects = Append(streams[e][n].objects, published[e] + 1)
        /\ streams'[e][n].parsed = streams[e][n].parsed
    BY <1>1, <1>3, <1>5, <1>6, WriteFacts
  <2>2. /\ Len(streams'[e][n].objects) = Len(streams[e][n].objects) + 1
        /\ \A i \in 1 .. Len(streams[e][n].objects) :
              streams'[e][n].objects[i] = streams[e][n].objects[i]
        /\ streams'[e][n].objects[Len(streams[e][n].objects) + 1] = published[e] + 1
        /\ streams'[e][n].objects # <<>>
    <3>1. streams[e][n].objects \in Seq(Nat) /\ published[e] + 1 \in Nat
      BY <1>5, <2>1
    <3> DEFINE a == streams[e][n].objects
               x == published[e] + 1
    <3>2. streams'[e][n].objects = Append(a, x)
      BY <2>1
    <3> HIDE DEF a, x
    <3>3. /\ Append(a, x) # <<>> /\ Len(Append(a, x)) = Len(a) + 1
          /\ \A i \in 1 .. Len(a) : Append(a, x)[i] = a[i]
          /\ Append(a, x)[Len(a) + 1] = x
      <4>1. a \in Seq(Nat) /\ x \in Nat
        BY <3>1 DEF a, x
      <4> QED BY <4>1, AppendProperties
    <3> QED BY <3>2, <3>3 DEF a, x
  <2>3. Heard(e)' = Heard(e) /\ Heard(p)' = Heard(p)
    <3>1. \A k \in 1 .. n : streams'[e][k].parsed = streams[e][k].parsed
      BY <2>1
    <3> QED BY <1>2, <1>5, <2>1, <3>1 DEF Heard
  <2>4. TypeOK'
    <3>1. ASSUME NEW x \in Ends
          PROVE  /\ entry'[x] = "own" => streams'[x] # <<>>
                 /\ Len(streams'[x]) <= published'[x]
                 /\ \A k \in 1 .. Len(streams'[x]) :
                       /\ streams'[x][k].objects # <<>>
                       /\ streams'[x][k].parsed <= Len(streams'[x][k].objects) + 1
      <4>1. CASE x = p
        BY <1>1, <1>2, <1>4, <1>5, <4>1 DEF TypeOK
      <4>2. CASE x = e
        <5>1. n <= published[e] /\ streams'[e] # <<>>
          BY <1>1, <1>5, <2>1 DEF TypeOK
        <5>2. ASSUME NEW k \in 1 .. n
              PROVE  /\ streams'[e][k].objects # <<>>
                     /\ streams'[e][k].parsed <= Len(streams'[e][k].objects) + 1
          <6>1. /\ streams[e][k].objects # <<>>
                /\ streams[e][k].parsed <= Len(streams[e][k].objects) + 1
            BY <1>1 DEF TypeOK
          <6>2. CASE k = n
            <7>1. /\ Len(streams[e][n].objects) \in Nat /\ streams[e][n].parsed \in Nat
                  /\ streams[e][n].parsed <= Len(streams[e][n].objects) + 1
              BY <1>5, <2>1, <6>1, <6>2
            <7>2. streams'[e][n].parsed <= Len(streams'[e][n].objects) + 1
              BY <2>1, <2>2, <7>1
            <7> QED BY <2>2, <6>2, <7>2
          <6> QED BY <2>1, <6>1, <6>2
        <5> QED BY <1>4, <1>5, <2>1, <4>2, <5>1, <5>2
      <4> QED BY <1>2, <4>1, <4>2
    <3> QED BY <1>4, <1>5, <3>1 DEF TypeOK
  <2>5. Turns'
    BY <1>1, <1>2, <1>4, <1>5, <1>6, <2>1, <2>3 DEF Turns
  <2>6. BacklogBounded'
    <3>1. Egress(streams[e][n]) <= EgressLimit
      BY <1>3, <1>6 DEF TrackReady, Latest
    <3>2. streams[e][n].objects \in Seq(Nat) /\ streams[e][n].parsed \in Nat
      BY <1>5, <2>1
    <3>3. Egress(streams'[e][n]) <= EgressLimit + 2
      <4> DEFINE a == Len(streams[e][n].objects)
                 q == streams[e][n].parsed
      <4>1. a \in Nat /\ q \in Nat /\ EgressLimit \in Nat
        BY <1>5, <2>1, TrackStreamsAssumption
      <4>2. (IF q = 0 THEN 1 + 2 * a ELSE 2 * (a + 1 - q)) <= EgressLimit
        BY <3>1 DEF Egress
      <4>3. Egress(streams'[e][n]) = IF q = 0 THEN 1 + 2 * (a + 1)
                                     ELSE 2 * ((a + 1) + 1 - q)
        BY <2>1, <2>2 DEF Egress
      <4> HIDE DEF a, q
      <4> QED BY <4>1, <4>2, <4>3
    <3>4. \A k \in 1 .. n : Egress(streams'[e][k]) <= EgressLimit + 2
      BY <1>1, <2>1, <3>3 DEF BacklogBounded
    <3>5. \A k \in 1 .. Len(streams'[p]) : Egress(streams'[p][k]) <= EgressLimit + 2
      BY <1>1, <1>2, <1>5 DEF BacklogBounded
    <3> QED BY <1>2, <2>1, <3>4, <3>5 DEF BacklogBounded, Egress
  <2>7. Order'
    <3>1. ASSUME NEW x \in Ends, Heard(x) = {}
          PROVE  /\ streams'[x] = <<>> => published'[x] = 0 /\ raised[Peer(x)] = <<>>
                 /\ streams'[x] # <<>> =>
                      /\ Len(streams'[x][1].objects) = published'[x]
                      /\ \A i \in 1 .. published'[x] : streams'[x][1].objects[i] = i
                      /\ Len(raised[Peer(x)]) = IF streams'[x][1].parsed = 0 THEN 0
                                                ELSE streams'[x][1].parsed - 1
                 /\ \A i \in 1 .. Len(raised[Peer(x)]) : raised[Peer(x)][i] = i
      <4>1. CASE x = p
        BY <1>1, <1>2, <1>4, <1>5, <3>1, <4>1 DEF Order
      <4>2. CASE x = e
        <5>1. n = 1
          <6>1. Len(streams[e]) <= 1 + Cardinality({})
            BY <1>1, <1>6, <3>1, <4>2 DEF Turns
          <6>2. Cardinality({}) = 0
            BY FS_EmptySet
          <6>3. n \in Nat /\ n >= 1 /\ n <= 1
            BY <1>5, <2>1, <6>1, <6>2
          <6> HIDE DEF n
          <6> QED BY <6>3
        <5>2. streams[e] # <<>> /\ streams'[e] # <<>>
          BY <1>5, <2>1, <5>1
        <5>3. /\ Len(streams[e][1].objects) = published[e]
              /\ \A i \in 1 .. published[e] : streams[e][1].objects[i] = i
              /\ Len(raised[p]) = IF streams[e][1].parsed = 0 THEN 0
                                  ELSE streams[e][1].parsed - 1
              /\ \A i \in 1 .. Len(raised[p]) : raised[p][i] = i
          BY <1>1, <3>1, <4>2, <5>2 DEF Order
        <5>4. \A i \in 1 .. published[e] + 1 : streams'[e][1].objects[i] = i
          <6>1. ASSUME NEW i \in 1 .. published[e] + 1
                PROVE  streams'[e][1].objects[i] = i
            <7>1. CASE i = published[e] + 1
              BY <2>2, <5>1, <5>3, <7>1
            <7>2. CASE i # published[e] + 1
              <8>1. published[e] \in Nat
                BY <1>5
              <8>2. i \in 1 .. published[e]
                BY <7>2, <8>1
              <8> QED BY <2>2, <5>1, <5>3, <8>2
            <7> QED BY <7>1, <7>2
          <6> QED BY <6>1
        <5> QED BY <1>4, <1>5, <2>1, <2>2, <4>2, <5>1, <5>2, <5>3, <5>4
      <4> QED BY <1>2, <4>1, <4>2
    <3> QED BY <1>2, <1>3, <2>3, <3>1 DEF Order
  <2> QED BY <2>4, <2>5, <2>6, <2>7 DEF IInv
<1>7. CASE entry[e] # "own"
  <2>1. /\ Len(streams'[e]) = n + 1
        /\ \A k \in 1 .. n : streams'[e][k] = streams[e][k]
        /\ streams'[e][n + 1].objects = <<published[e] + 1>>
        /\ streams'[e][n + 1].parsed = 0
    BY <1>1, <1>3, <1>7, WriteFacts
  <2>2. Heard(e)' = Heard(e) /\ Heard(p)' = Heard(p)
    BY <1>2, <1>5, <2>1 DEF Heard
  <2>3. TypeOK'
    <3>1. ASSUME NEW x \in Ends
          PROVE  /\ entry'[x] = "own" => streams'[x] # <<>>
                 /\ Len(streams'[x]) <= published'[x]
                 /\ \A k \in 1 .. Len(streams'[x]) :
                       /\ streams'[x][k].objects # <<>>
                       /\ streams'[x][k].parsed <= Len(streams'[x][k].objects) + 1
      <4>1. CASE x = p
        BY <1>1, <1>2, <1>4, <1>5, <4>1 DEF TypeOK
      <4>2. CASE x = e
        <5>1. n <= published[e] /\ streams'[e] # <<>>
          BY <1>1, <1>5, <2>1 DEF TypeOK
        <5>2. ASSUME NEW k \in 1 .. n + 1
              PROVE  /\ streams'[e][k].objects # <<>>
                     /\ streams'[e][k].parsed <= Len(streams'[e][k].objects) + 1
          <6>1. CASE k = n + 1
            <7>1. Len(<<published[e] + 1>>) = 1 /\ <<published[e] + 1>> # <<>>
              OBVIOUS
            <7>2. /\ streams'[e][k].objects = <<published[e] + 1>>
                  /\ streams'[e][k].parsed = 0
              BY <2>1, <6>1
            <7>3. Len(streams'[e][k].objects) = 1
              BY <7>1, <7>2
            <7>4. streams'[e][k].parsed <= Len(streams'[e][k].objects) + 1
              BY <7>2, <7>3
            <7> QED BY <7>1, <7>2, <7>4
          <6>2. CASE k \in 1 .. n
            BY <1>1, <2>1, <6>2 DEF TypeOK
          <6>3. n \in Nat
            BY <1>5
          <6> HIDE DEF n
          <6> QED BY <6>1, <6>2, <6>3
        <5> QED BY <1>4, <1>5, <2>1, <4>2, <5>1, <5>2
      <4> QED BY <1>2, <4>1, <4>2
    <3> QED BY <1>4, <1>5, <3>1 DEF TypeOK
  <2>4. Turns'
    <3>1. n <= Cardinality(Heard(e)) /\ Cardinality(Heard(e)) \in Nat
      BY <1>1, <1>5, <1>7, HeardFinite DEF Turns
    <3>2. Len(streams'[e]) <= 1 + Cardinality(Heard(e)')
      BY <1>5, <2>1, <2>2, <3>1
    <3>3. Len(streams'[p]) <= (IF entry'[p] = "own" THEN 1 ELSE 0)
                                  + Cardinality(Heard(p)')
      BY <1>1, <1>2, <1>4, <1>5, <2>2 DEF Turns
    <3> QED BY <1>2, <1>4, <3>2, <3>3 DEF Turns
  <2>5. BacklogBounded'
    <3>1. Egress(streams'[e][n + 1]) <= EgressLimit + 2
      BY <1>5, <2>1, TrackStreamsAssumption DEF Egress
    <3>2. \A k \in 1 .. n + 1 : Egress(streams'[e][k]) <= EgressLimit + 2
      BY <1>1, <1>5, <2>1, <3>1 DEF BacklogBounded
    <3>3. \A k \in 1 .. Len(streams'[p]) : Egress(streams'[p][k]) <= EgressLimit + 2
      BY <1>1, <1>2, <1>5 DEF BacklogBounded
    <3> QED BY <1>2, <2>1, <3>2, <3>3 DEF BacklogBounded, Egress
  <2>6. Order'
    <3>1. ASSUME NEW x \in Ends, Heard(x) = {}
          PROVE  /\ streams'[x] = <<>> => published'[x] = 0 /\ raised[Peer(x)] = <<>>
                 /\ streams'[x] # <<>> =>
                      /\ Len(streams'[x][1].objects) = published'[x]
                      /\ \A i \in 1 .. published'[x] : streams'[x][1].objects[i] = i
                      /\ Len(raised[Peer(x)]) = IF streams'[x][1].parsed = 0 THEN 0
                                                ELSE streams'[x][1].parsed - 1
                 /\ \A i \in 1 .. Len(raised[Peer(x)]) : raised[Peer(x)][i] = i
      <4>1. CASE x = p
        BY <1>1, <1>2, <1>4, <1>5, <3>1, <4>1 DEF Order
      <4>2. CASE x = e
        <5>1. n = 0 /\ streams[e] = <<>>
          <6>1. Len(streams[e]) <= 0 + Cardinality({})
            BY <1>1, <1>7, <3>1, <4>2 DEF Turns
          <6> QED BY <1>5, <6>1, FS_EmptySet
        <5>2. published[e] = 0 /\ raised[p] = <<>>
          BY <1>1, <3>1, <4>2, <5>1 DEF Order
        <5>3. /\ streams'[e] # <<>> /\ published'[e] = 1
              /\ streams'[e][1].objects = <<1>> /\ streams'[e][1].parsed = 0
          <6>1. Len(streams'[e]) = 1 /\ streams'[e] # <<>>
            <7>1. Len(streams'[e]) = 1
              BY <2>1, <5>1
            <7>2. Len(<<>>) = 0 /\ 0 # 1
              OBVIOUS
            <7>3. Len(streams'[e]) # Len(<<>>)
              BY <7>1, <7>2
            <7> QED BY <7>1, <7>3, Zenon
          <6>2. published'[e] = 1 /\ published[e] + 1 = 1 /\ n + 1 = 1
            BY <1>4, <5>1, <5>2
          <6> HIDE DEF n
          <6> QED BY <2>1, <6>1, <6>2
        <5>4. Len(raised[p]) = 0
          BY <5>2
        <5> QED BY <4>2, <5>2, <5>3, <5>4
      <4> QED BY <1>2, <4>1, <4>2
    <3> QED BY <1>2, <1>3, <2>2, <3>1 DEF Order
  <2> QED BY <2>3, <2>4, <2>5, <2>6 DEF IInv
<1> QED BY <1>6, <1>7

(* The rest of a stream is parsed: displaced or not, it is heard of, and   *)
(* only the first item of it changes who is heard.                         *)
LEMMA HeardFacts ==
    ASSUME TypeOK, NEW e \in Ends, NEW k, NEW q \in Nat, q # 0, Sendable(Peer(e), k),
           ParsedTo(e, k, q)
    PROVE  /\ Heard(e)' = Heard(e) \cup {k}
           /\ Heard(Peer(e))' = Heard(Peer(e))
           /\ k \in Heard(e) <=> streams[Peer(e)][k].parsed # 0
<1> DEFINE p == Peer(e)
<1>1. p \in Ends /\ Peer(p) = e
  BY Peers
<1>2. /\ k \in 1 .. Len(streams[p]) /\ streams'[e] = streams[e]
      /\ Len(streams'[p]) = Len(streams[p])
      /\ \A j \in 1 .. Len(streams[p]) :
            streams'[p][j].parsed = IF j = k THEN q ELSE streams[p][j].parsed
  BY ParseFacts
<1> HIDE DEF p
<1>3. Heard(e) = {j \in 1 .. Len(streams[p]) : streams[p][j].parsed # 0}
  BY DEF Heard, p
<1>4. Heard(e)' = {j \in 1 .. Len(streams'[p]) : streams'[p][j].parsed # 0}
  BY DEF Heard, p
<1>5. Heard(p) = {j \in 1 .. Len(streams[e]) : streams[e][j].parsed # 0}
  BY <1>1 DEF Heard
<1>6. Heard(p)' = {j \in 1 .. Len(streams'[e]) : streams'[e][j].parsed # 0}
  BY <1>1 DEF Heard
<1>7. Heard(e)' = Heard(e) \cup {k}
  BY <1>2, <1>3, <1>4
<1>8. Heard(p)' = Heard(p)
  BY <1>2, <1>5, <1>6
<1> QED BY <1>2, <1>3, <1>7, <1>8 DEF p

(* What parsing keeps, whichever item it was.                              *)
LEMMA ParseKeeps ==
    ASSUME IInv, NEW e \in Ends, NEW k, NEW q \in Nat, q # 0, Sendable(Peer(e), k),
           q = streams[Peer(e)][k].parsed + 1,
           q <= Len(streams[Peer(e)][k].objects) + 1,
           ParsedTo(e, k, q),
           entry' \in [Ends -> {"null", "own", "incoming"}],
           \A x \in Ends : entry'[x] = "own" => entry[x] = "own",
           raised' \in [Ends -> Seq(Nat)], published' = published
    PROVE  TypeOK' /\ BacklogBounded'
<1> DEFINE p == Peer(e)
<1>1. TypeOK /\ BacklogBounded
  BY DEF IInv
<1>2. p \in Ends /\ p # e /\ \A x \in Ends : x = e \/ x = p
  BY Peers, TwoEnds
<1>3. /\ k \in 1 .. Len(streams[p]) /\ streams'[e] = streams[e]
      /\ streams' \in [Ends -> Seq(Stream)]
      /\ Len(streams'[p]) = Len(streams[p])
      /\ \A j \in 1 .. Len(streams[p]) :
            /\ streams'[p][j].objects = streams[p][j].objects
            /\ streams'[p][j].parsed = IF j = k THEN q ELSE streams[p][j].parsed
  BY <1>1, ParseFacts
<1>4. streams[p] \in Seq(Stream) /\ streams'[p] \in Seq(Stream)
  BY <1>1, <1>2, <1>3 DEF TypeOK
<1>5. \A j \in 1 .. Len(streams[p]) :
        /\ streams[p][j].objects # <<>>
        /\ streams[p][j].parsed <= Len(streams[p][j].objects) + 1
        /\ Len(streams[p][j].objects) \in Nat /\ streams[p][j].parsed \in Nat
        /\ Egress(streams[p][j]) <= EgressLimit + 2
  BY <1>1, <1>2, <1>4, StreamFields DEF TypeOK, BacklogBounded
<1>6. q <= Len(streams[p][k].objects) + 1 /\ q = streams[p][k].parsed + 1
  OBVIOUS
<1> HIDE DEF p
<1>7. TypeOK'
  <2>1. ASSUME NEW x \in Ends
        PROVE  /\ entry'[x] = "own" => streams'[x] # <<>>
               /\ Len(streams'[x]) <= published'[x]
               /\ \A j \in 1 .. Len(streams'[x]) :
                     /\ streams'[x][j].objects # <<>>
                     /\ streams'[x][j].parsed <= Len(streams'[x][j].objects) + 1
    <3>1. CASE x = e
      BY <1>1, <1>3, <3>1 DEF TypeOK
    <3>2. CASE x = p
      <4>1. streams'[p] # <<>>
        <5>1. Len(streams'[p]) \in Nat /\ Len(streams'[p]) # 0
          BY <1>3, <1>4
        <5> QED BY <5>1
      <4>2. Len(streams'[p]) <= published[p]
        BY <1>1, <1>2, <1>3 DEF TypeOK
      <4>3. \A j \in 1 .. Len(streams[p]) :
                     /\ streams'[p][j].objects # <<>>
                     /\ streams'[p][j].parsed <= Len(streams'[p][j].objects) + 1
        <5>1. ASSUME NEW j \in 1 .. Len(streams[p])
              PROVE  streams'[p][j].parsed <= Len(streams[p][j].objects) + 1
          BY <1>3, <1>5, <1>6
        <5> QED BY <1>3, <1>5, <5>1
      <4> QED BY <1>3, <3>2, <4>1, <4>2, <4>3
    <3> QED BY <1>2, <3>1, <3>2
  <2> QED BY <1>1, <1>3, <2>1 DEF TypeOK
<1>8. BacklogBounded'
  <2>1. ASSUME NEW j \in 1 .. Len(streams[p])
        PROVE  Egress(streams'[p][j]) <= EgressLimit + 2
    <3> DEFINE a == Len(streams[p][j].objects)
               b == streams[p][j].parsed
    <3>1. a \in Nat /\ b \in Nat /\ EgressLimit \in Nat
      BY <1>5, TrackStreamsAssumption
    <3>2. (IF b = 0 THEN 1 + 2 * a ELSE 2 * (a + 1 - b)) <= EgressLimit + 2
      BY <1>5 DEF Egress
    <3>3. CASE j = k
      <4>1. Egress(streams'[p][j]) = 2 * (a + 1 - (b + 1))
        BY <1>3, <1>6, <3>1, <3>3 DEF Egress
      <4> HIDE DEF a, b
      <4> QED BY <3>1, <3>2, <4>1
    <3>4. CASE j # k
      BY <1>3, <1>5, <3>4 DEF Egress
    <3> QED BY <3>3, <3>4
  <2>2. \A j \in 1 .. Len(streams'[e]) : Egress(streams'[e][j]) <= EgressLimit + 2
    BY <1>1, <1>3 DEF BacklogBounded
  <2>3. \A x \in Ends : \A j \in 1 .. Len(streams'[x]) :
            Egress(streams'[x][j]) <= EgressLimit + 2
    BY <1>2, <1>3, <2>1, <2>2
  <2> QED BY <2>3 DEF BacklogBounded, Egress
<1> QED BY <1>7, <1>8

(* An end that has heard of no stream has one stream at most, with all it  *)
(* published on it.                                                        *)
LEMMA OnlyStream ==
    ASSUME IInv, NEW p \in Ends, Heard(p) = {}, NEW k \in 1 .. Len(streams[p])
    PROVE  /\ k = 1 /\ Len(streams[p]) = 1
           /\ Len(streams[p][1].objects) = published[p]
           /\ \A i \in 1 .. published[p] : streams[p][1].objects[i] = i
           /\ Len(raised[Peer(p)]) = IF streams[p][1].parsed = 0 THEN 0
                                     ELSE streams[p][1].parsed - 1
           /\ \A i \in 1 .. Len(raised[Peer(p)]) : raised[Peer(p)][i] = i
<1> DEFINE n == Len(streams[p])
<1>1. n \in Nat
  BY DEF IInv, TypeOK
<1>2. n <= 1
  <2>1. n <= (IF entry[p] = "own" THEN 1 ELSE 0) + Cardinality({})
    BY DEF IInv, Turns
  <2> QED BY <1>1, <2>1, FS_EmptySet
<1>3. k \in 1 .. n
  OBVIOUS
<1>4. streams[p] # <<>>
  <2>1. n # 0
    BY <1>1, <1>3
  <2> QED BY <2>1
<1>5. k = 1 /\ n = 1
  <2> HIDE DEF n
  <2> QED BY <1>1, <1>2, <1>3
<1> QED BY <1>4, <1>5 DEF IInv, Order

(* The alias byte of a stream: the end may open one stream more, for it has *)
(* heard of one stream more.                                               *)
LEMMA ReceiveHeaderKeeps ==
    ASSUME IInv, NEW e \in Ends, NEW k, ReceiveHeader(e, k)
    PROVE  IInv'
<1> DEFINE p == Peer(e)
<1>1. TypeOK /\ Turns /\ Order
  BY DEF IInv
<1>2. /\ p \in Ends /\ p # e /\ Peer(p) = e /\ \A x \in Ends : x = e \/ x = p
  BY Peers, TwoEnds
<1>3. /\ Sendable(p, k) /\ streams[p][k].parsed = 0
      /\ entry' = [entry EXCEPT ![e] = "incoming"]
      /\ published' = published /\ raised' = raised
  BY Zenon DEF ReceiveHeader
<1>4. ParsedTo(e, k, 1)
  BY Zenon DEF ReceiveHeader, ParsedTo
<1>5. 1 \in Nat /\ 1 # 0 /\ 1 = streams[p][k].parsed + 1
  BY <1>3
<1>6. /\ k \in 1 .. Len(streams[p]) /\ streams'[e] = streams[e]
      /\ Len(streams'[p]) = Len(streams[p])
      /\ \A j \in 1 .. Len(streams[p]) :
            /\ streams'[p][j].objects = streams[p][j].objects
            /\ streams'[p][j].parsed = IF j = k THEN 1 ELSE streams[p][j].parsed
  BY <1>1, <1>3, <1>4, <1>5, ParseFacts
<1>7. /\ Heard(e)' = Heard(e) \cup {k} /\ Heard(p)' = Heard(p)
      /\ k \notin Heard(e)
  BY <1>1, <1>3, <1>4, <1>5, HeardFacts
<1>8. /\ streams[e] \in Seq(Stream) /\ streams[p] \in Seq(Stream)
      /\ entry \in [Ends -> {"null", "own", "incoming"}]
      /\ raised \in [Ends -> Seq(Nat)]
  BY <1>1, <1>2 DEF TypeOK
<1>9. /\ entry' \in [Ends -> {"null", "own", "incoming"}]
      /\ entry'[e] = "incoming" /\ entry'[p] = entry[p]
      /\ \A x \in Ends : entry'[x] = "own" => entry[x] = "own"
  BY <1>2, <1>3, <1>8
<1>10. TypeOK' /\ BacklogBounded'
  <2>1. Len(streams[p][k].objects) \in Nat
    BY <1>6, <1>8, StreamFields
  <2>2. 1 <= Len(streams[p][k].objects) + 1
    BY <2>1
  <2> QED BY <1>3, <1>4, <1>5, <1>8, <1>9, <2>2, ParseKeeps
<1>11. Turns'
  <2>1. Cardinality(Heard(e)') = Cardinality(Heard(e)) + 1
    BY <1>1, <1>7, HeardFinite, FS_AddElement
  <2>2. Len(streams[e]) <= (IF entry[e] = "own" THEN 1 ELSE 0) + Cardinality(Heard(e))
    BY <1>1 DEF Turns
  <2>3. Len(streams[e]) \in Nat /\ Cardinality(Heard(e)) \in Nat
    BY <1>1, <1>8, HeardFinite
  <2>4. Len(streams'[e]) <= 0 + Cardinality(Heard(e)')
    BY <1>6, <2>1, <2>2, <2>3
  <2>5. Len(streams'[p]) <= (IF entry'[p] = "own" THEN 1 ELSE 0) + Cardinality(Heard(p)')
    BY <1>1, <1>2, <1>6, <1>7, <1>9 DEF Turns
  <2> QED BY <1>2, <1>9, <2>4, <2>5 DEF Turns
<1>12. Order'
  <2>1. ASSUME Heard(p) = {}
        PROVE  /\ streams'[p] # <<>>
               /\ Len(streams'[p][1].objects) = published[p]
               /\ \A i \in 1 .. published[p] : streams'[p][1].objects[i] = i
               /\ Len(raised[e]) = IF streams'[p][1].parsed = 0 THEN 0
                                   ELSE streams'[p][1].parsed - 1
               /\ \A i \in 1 .. Len(raised[e]) : raised[e][i] = i
    <3>1. /\ k = 1 /\ Len(streams[p]) = 1
          /\ Len(streams[p][1].objects) = published[p]
          /\ \A i \in 1 .. published[p] : streams[p][1].objects[i] = i
          /\ Len(raised[e]) = 0
          /\ \A i \in 1 .. Len(raised[e]) : raised[e][i] = i
      BY <1>2, <1>3, <1>6, <2>1, OnlyStream
    <3>2. streams'[p] # <<>>
      BY <1>6, <3>1
    <3> QED BY <1>6, <3>1, <3>2
  <2>2. Heard(e)' # {}
    BY <1>7
  <2> QED BY <1>2, <1>3, <1>7, <2>1, <2>2 DEF Order
<1> QED BY <1>10, <1>11, <1>12 DEF IInv

(* An object of a stream: it is raised after all that came before it on     *)
(* that stream.                                                            *)
LEMMA ReceiveObjectKeeps ==
    ASSUME IInv, NEW e \in Ends, NEW k, ReceiveObject(e, k)
    PROVE  IInv'
<1> DEFINE p == Peer(e)
           q == streams[p][k].parsed
           o == streams[p][k].objects[q]
<1>1. TypeOK /\ Turns /\ Order
  BY DEF IInv
<1>2. /\ p \in Ends /\ p # e /\ Peer(p) = e /\ \A x \in Ends : x = e \/ x = p
  BY Peers, TwoEnds
<1>3. /\ Sendable(p, k) /\ q \in 1 .. Len(streams[p][k].objects)
      /\ raised' = [raised EXCEPT ![e] = Append(@, o)]
      /\ entry' = entry /\ published' = published
  BY Zenon DEF ReceiveObject
<1>4. ParsedTo(e, k, q + 1)
  BY Zenon DEF ReceiveObject, ParsedTo
<1>5. /\ streams[e] \in Seq(Stream) /\ streams[p] \in Seq(Stream)
      /\ entry \in [Ends -> {"null", "own", "incoming"}]
      /\ raised \in [Ends -> Seq(Nat)]
  BY <1>1, <1>2 DEF TypeOK
<1>6. /\ q \in Nat /\ q # 0 /\ q + 1 \in Nat /\ q + 1 # 0
      /\ q + 1 <= Len(streams[p][k].objects) + 1 /\ o \in Nat
  <2>1. k \in 1 .. Len(streams[p])
    BY <1>3 DEF Sendable
  <2>2. streams[p][k].objects \in Seq(Nat) /\ Len(streams[p][k].objects) \in Nat
    BY <1>5, <2>1, StreamFields
  <2>3. o \in Nat
    BY <1>3, <2>2
  <2> HIDE DEF q, o
  <2> QED BY <1>3, <2>2, <2>3
<1>7. /\ k \in 1 .. Len(streams[p]) /\ streams'[e] = streams[e]
      /\ Len(streams'[p]) = Len(streams[p])
      /\ \A j \in 1 .. Len(streams[p]) :
            /\ streams'[p][j].objects = streams[p][j].objects
            /\ streams'[p][j].parsed = IF j = k THEN q + 1 ELSE streams[p][j].parsed
  BY <1>1, <1>3, <1>4, <1>6, ParseFacts
<1>8. Heard(e)' = Heard(e) /\ Heard(p)' = Heard(p) /\ k \in Heard(e)
  <2>1. /\ Heard(e)' = Heard(e) \cup {k} /\ Heard(p)' = Heard(p)
        /\ k \in Heard(e) <=> q # 0
    BY <1>1, <1>3, <1>4, <1>6, HeardFacts
  <2> QED BY <1>6, <2>1
<1>9. /\ raised'[e] = Append(raised[e], o) /\ raised'[p] = raised[p]
      /\ raised' \in [Ends -> Seq(Nat)]
  BY <1>2, <1>3, <1>5, <1>6
<1>10. TypeOK' /\ BacklogBounded'
  <2>1. \A x \in Ends : entry'[x] = "own" => entry[x] = "own"
    BY <1>3
  <2> HIDE DEF o
  <2> QED BY <1>3, <1>4, <1>5, <1>6, <1>9, <2>1, ParseKeeps
<1>11. Turns'
  BY <1>1, <1>2, <1>3, <1>7, <1>8 DEF Turns
<1>12. Order'
  <2>1. ASSUME Heard(p) = {}
        PROVE  /\ streams'[p] # <<>>
               /\ Len(streams'[p][1].objects) = published[p]
               /\ \A i \in 1 .. published[p] : streams'[p][1].objects[i] = i
               /\ Len(raised'[e]) = IF streams'[p][1].parsed = 0 THEN 0
                                    ELSE streams'[p][1].parsed - 1
               /\ \A i \in 1 .. Len(raised'[e]) : raised'[e][i] = i
    <3>1. /\ k = 1 /\ Len(streams[p]) = 1
          /\ Len(streams[p][1].objects) = published[p]
          /\ \A i \in 1 .. published[p] : streams[p][1].objects[i] = i
          /\ Len(raised[e]) = q - 1
          /\ \A i \in 1 .. Len(raised[e]) : raised[e][i] = i
      BY <1>2, <1>6, <1>7, <2>1, OnlyStream
    <3>2. o = q
      BY <1>3, <3>1
    <3>3. streams'[p] # <<>>
      BY <1>7, <3>1
    <3>4. streams'[p][1].parsed = q + 1 /\ streams'[p][1].objects = streams[p][1].objects
      BY <1>7, <3>1
    <3> HIDE DEF o, q
    <3>5. raised[e] \in Seq(Nat) /\ raised'[e] = Append(raised[e], q) /\ q \in Nat
      BY <1>5, <1>6, <1>9, <3>2
    <3>6. /\ Len(raised'[e]) = q
          /\ \A i \in 1 .. q : raised'[e][i] = i
      <4>1. /\ Len(Append(raised[e], q)) = Len(raised[e]) + 1
            /\ Append(raised[e], q)[Len(raised[e]) + 1] = q
            /\ \A i \in 1 .. Len(raised[e]) : Append(raised[e], q)[i] = raised[e][i]
        BY <3>5, AppendProperties
      <4>2. \A i \in 1 .. q : i = q \/ i \in 1 .. q - 1
        BY <3>5
      <4> QED BY <3>1, <3>5, <4>1, <4>2
    <3> QED BY <1>6, <3>1, <3>3, <3>4, <3>6
  <2>2. Heard(e)' # {}
    BY <1>8
  <2> QED BY <1>2, <1>3, <1>8, <2>1, <2>2 DEF Order
<1> QED BY <1>10, <1>11, <1>12 DEF IInv

(* The inductive invariant holds of every reachable state.                 *)
THEOREM Invariance == Spec => []IInv
<1>1. IInv /\ [Next]_vars => IInv'
  <2> SUFFICES ASSUME IInv, [Next]_vars PROVE IInv'
    OBVIOUS
  <2>1. CASE Next
    <3>1. PICK e \in Ends : \/ Publish(e)
                            \/ \E k \in 1 .. Len(streams[Peer(e)]) : Receive(e, k)
      BY <2>1 DEF Next
    <3>2. CASE Publish(e)
      BY <3>2, PublishKeeps
    <3>3. CASE \E k \in 1 .. Len(streams[Peer(e)]) : Receive(e, k)
      BY <3>3, ReceiveHeaderKeeps, ReceiveObjectKeeps DEF Receive
    <3> QED BY <3>1, <3>2, <3>3
  <2>2. CASE UNCHANGED vars
    BY <2>2 DEF vars, IInv, TypeOK, Turns, BacklogBounded, Order, Heard, Egress
  <2> QED BY <2>1, <2>2
<1> QED BY <1>1, InitEstablishes, PTL DEF Spec

(* Type correctness of the reliable track: the entry, the streams opened    *)
(* (never more than objects published, none without an object) and what    *)
(* parse_track_stream_messages has consumed of each.                       *)
THEOREM StreamsTypeCorrect == Spec => []TypeOK
<1>1. IInv => TypeOK
  BY DEF IInv
<1> QED BY <1>1, Invariance, PTL

(* For every stream limit: an end opens no second stream before an incoming *)
(* one has displaced its own, so the streams opened are bounded by the      *)
(* changes of direction.                                                   *)
THEOREM StreamsPerTurn == Spec => []OneStreamPerTurn
<1>1. IInv => OneStreamPerTurn
  <2> SUFFICES ASSUME IInv, NEW e \in Ends
               PROVE  Len(streams[e]) <= 1 + Cardinality(Heard(e))
    BY DEF OneStreamPerTurn
  <2>1. TypeOK
    BY DEF IInv
  <2>2. Len(streams[e]) \in Nat
    BY <2>1 DEF TypeOK
  <2>3. Cardinality(Heard(e)) \in Nat
    BY <2>1, HeardFinite
  <2>4. Len(streams[e]) <= (IF entry[e] = "own" THEN 1 ELSE 0) + Cardinality(Heard(e))
    BY DEF IInv, Turns
  <2> QED BY <2>2, <2>3, <2>4
<1> QED BY <1>1, Invariance, PTL

(* Objects are raised in the order of publication until the publisher hears *)
(* of a stream of the other end.                                           *)
THEOREM OneWayInOrder == Spec => []InOrderOneWay
<1>1. IInv => InOrderOneWay
  BY DEF IInv, Order, InOrderOneWay
<1> QED BY <1>1, Invariance, PTL

(* transport_is_track_ready bounds every stream's backlog, also of streams  *)
(* the entry has forgotten.                                                *)
THEOREM BacklogStaysBounded == Spec => []BacklogBounded
<1>1. IInv => BacklogBounded
  BY DEF IInv
<1> QED BY <1>1, Invariance, PTL
=============================================================================
