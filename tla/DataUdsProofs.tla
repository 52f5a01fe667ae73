--------------------------- MODULE DataUdsProofs ---------------------------
(***************************************************************************)
(* What DataUds guarantees for every number of slots and connections, every *)
(* buffer size and every number of pieces per frame.                       *)
(***************************************************************************)
EXTENDS DataUds, DataLemmas, SequenceTheorems

(* What the helper has written and the daemon has not read, and the piece  *)
(* that comes next.                                                        *)
Stream(k) == Append(up[k], upNext[k])

(* The stream begins at the start of the packet after those that were      *)
(* handed on, and runs through whole frames: a packet's pieces follow each *)
(* other, and after its last piece the next packet begins.                 *)
Aligned(s, first) ==
    /\ s[1] = <<first, 1>>
    /\ \A i \in 1 .. Len(s) : \A m \in 0 .. Parts - 1 :
          s[i][2] = 1 /\ i + m <= Len(s) => s[i + m] = <<s[i][1], m + 1>>
    /\ \A i \in 1 .. Len(s) - 1 :
          s[i][2] = Parts => s[i + 1] = <<s[i][1] + 1, 1>>

Framing == \A k \in Socks : Aligned(Stream(k), Len(callbacks[k]) + 1)

(* The daemon knows nothing of a connection that was not made.             *)
Unconnected == \A k \in Socks : helper[k] = "none" => daemon[k] = "none"

(* The inductive invariant.                                                *)
IInv == TypeOK /\ Unconnected /\ SlotsMatchDescriptors /\ Framing /\ UpstreamInOrder
-----------------------------------------------------------------------------
(* The lowest free slot is a free slot.                                    *)
LEMMA FreeSlot ==
    ASSUME FreeSlots # {}
    PROVE  Min(FreeSlots) \in Slots /\ clients[Min(FreeSlots)] = NoSock
<1>1. Slots \subseteq Nat
  BY UdsAssumption DEF Slots
<1>2. FreeSlots \subseteq Nat
  BY <1>1 DEF FreeSlots
<1>3. Min(FreeSlots) \in FreeSlots
  BY <1>2, MinIsLeast
<1> QED BY <1>3 DEF FreeSlots

(* What is picked to send to is a client.                                  *)
LEMMA TargetSlot ==
    ASSUME NEW t, Targets(t) # {}
    PROVE  Min(Targets(t)) \in Slots /\ clients[Min(Targets(t))] # NoSock
<1>1. Slots \subseteq Nat
  BY UdsAssumption DEF Slots
<1>2. Targets(t) \subseteq {i \in Slots : clients[i] # NoSock}
  BY DEF Targets, FreeSlots
<1>3. Min(Targets(t)) \in Targets(t)
  BY <1>1, <1>2, MinIsLeast
<1> QED BY <1>2, <1>3

(* A piece follows a piece.                                                *)
LEMMA AfterPiece ==
    ASSUME NEW x \in Piece
    PROVE  /\ After(x[1], x[2]) \in Piece
           /\ x[2] = Parts => After(x[1], x[2]) = <<x[1] + 1, 1>>
           /\ x[2] # Parts => After(x[1], x[2]) = <<x[1], x[2] + 1>>
  BY UdsAssumption DEF After, Piece

(* A reader makes a packet number or garbage of a frame.                   *)
LEMMA UnframedType ==
    ASSUME NEW s \in Seq(Piece), Len(s) >= Parts
    PROVE  Unframed(s) \in Nat \cup {Garbled}
<1>1. Len(s) \in Nat /\ Parts \in Nat /\ Parts >= 3
  BY UdsAssumption
<1>2. s[1] \in Piece
  BY <1>1
<1>3. s[1][1] \in Nat
  BY <1>2 DEF Piece
<1> QED BY <1>3 DEF Unframed

-----------------------------------------------------------------------------
(* Writing one piece more keeps the stream aligned.                        *)
LEMMA WriteAligned ==
    ASSUME NEW s \in Seq(Piece), NEW x \in Piece, NEW first \in Nat,
           Aligned(Append(s, x), first)
    PROVE  Aligned(Append(Append(s, x), After(x[1], x[2])), first)
<1> DEFINE r == Append(s, x)
           y == After(x[1], x[2])
           t == Append(r, y)
           n == Len(r)
<1>1. /\ y \in Piece
      /\ x[2] = Parts => y = <<x[1] + 1, 1>>
      /\ x[2] # Parts => y = <<x[1], x[2] + 1>>
  BY AfterPiece
<1>2. r \in Seq(Piece) /\ n \in Nat /\ n >= 1 /\ r[n] = x
  <2>1. Len(s) \in Nat /\ n = Len(s) + 1 /\ r[Len(s) + 1] = x /\ r \in Seq(Piece)
    BY AppendProperties
  <2> QED BY <2>1
<1> HIDE DEF r, y
<1>3. /\ Len(t) = n + 1 /\ t[n + 1] = y
      /\ \A i \in 1 .. n : t[i] = r[i]
  BY <1>1, <1>2, AppendProperties
<1> HIDE DEF t, n
<1>4. Parts \in Nat /\ Parts >= 3
  BY UdsAssumption
<1>5. /\ r[1] = <<first, 1>>
      /\ \A i \in 1 .. n : \A m \in 0 .. Parts - 1 :
            r[i][2] = 1 /\ i + m <= n => r[i + m] = <<r[i][1], m + 1>>
      /\ \A i \in 1 .. n - 1 : r[i][2] = Parts => r[i + 1] = <<r[i][1] + 1, 1>>
  BY DEF Aligned, r, n
<1>6. t[1] = <<first, 1>>
  BY <1>2, <1>3, <1>5
<1>7. ASSUME NEW i \in 1 .. n + 1, NEW m \in 0 .. Parts - 1, t[i][2] = 1, i + m <= n + 1
      PROVE  t[i + m] = <<t[i][1], m + 1>>
  <2>1. CASE i + m <= n
    <3>1. i \in 1 .. n /\ i + m \in 1 .. n
      BY <1>2, <1>4, <2>1
    <3> QED BY <1>3, <1>5, <1>7, <2>1, <3>1
  <2>2. CASE i + m = n + 1 /\ m = 0
    <3>1. i = n + 1 /\ t[i + m] = t[i] /\ t[i] \in Piece
      BY <1>1, <1>2, <1>3, <2>2
    <3>2. t[i] = <<t[i][1], t[i][2]>>
      BY <3>1 DEF Piece
    <3> QED BY <1>7, <2>2, <3>1, <3>2
  <2>3. CASE i + m = n + 1 /\ m # 0
    <3>1. i \in 1 .. n /\ m - 1 \in 0 .. Parts - 1 /\ i + (m - 1) = n
      BY <1>2, <1>4, <2>3
    <3>2. r[i + (m - 1)] = <<r[i][1], (m - 1) + 1>>
      <4>1. r[i][2] = 1 /\ i + (m - 1) <= n
        BY <1>2, <1>3, <1>7, <3>1
      <4> QED BY <1>5, <3>1, <4>1
    <3>3. (m - 1) + 1 = m /\ m # Parts
      BY <1>4
    <3>4. x = <<t[i][1], m>>
      BY <1>2, <1>3, <3>1, <3>2, <3>3
    <3>5. y = <<t[i][1], m + 1>>
      BY <1>1, <3>3, <3>4
    <3> QED BY <1>3, <2>3, <3>5
  <2> QED BY <1>2, <1>4, <1>7, <2>1, <2>2, <2>3
<1>8. ASSUME NEW i \in 1 .. n, t[i][2] = Parts
      PROVE  t[i + 1] = <<t[i][1] + 1, 1>>
  <2>1. CASE i = n
    BY <1>1, <1>2, <1>3, <1>8, <2>1
  <2>2. CASE i # n
    <3>1. i \in 1 .. n - 1 /\ i + 1 \in 1 .. n
      BY <1>2, <2>2
    <3> QED BY <1>3, <1>5, <1>8, <3>1
  <2> QED BY <2>1, <2>2
<1>9. Len(t) - 1 = n
  BY <1>2, <1>3
<1> QED BY <1>3, <1>6, <1>7, <1>8, <1>9 DEF Aligned, t, r, y

(* The first Parts pieces are the first packet, and the rest is aligned to *)
(* the next one.                                                           *)
LEMMA ReadAligned ==
    ASSUME NEW s \in Seq(Piece), NEW x \in Piece, NEW first \in Nat,
           Aligned(Append(s, x), first), Len(s) >= Parts
    PROVE  /\ Unframed(SubSeq(s, 1, Parts)) = first
           /\ Aligned(Append(SubSeq(s, Parts + 1, Len(s)), x), first + 1)
<1> DEFINE r == Append(s, x)
           n == Len(s)
           f == SubSeq(s, 1, Parts)
           u == SubSeq(s, Parts + 1, n)
           t == Append(u, x)
<1>1. Parts \in Nat /\ Parts >= 3 /\ n \in Nat /\ n >= Parts
  BY UdsAssumption
<1>2. /\ Len(r) = n + 1 /\ r[n + 1] = x /\ r \in Seq(Piece)
      /\ \A i \in 1 .. n : r[i] = s[i]
  BY AppendProperties
<1>3. Len(f) = Parts /\ \A i \in 1 .. Parts : f[i] = r[i]
  <2>1. Len(f) = Parts /\ \A i \in 1 .. Parts : f[i] = s[i]
    BY <1>1, SubSeqProperties
  <2> QED BY <1>1, <1>2, <2>1
<1>4. u \in Seq(Piece) /\ Len(u) = n - Parts /\ \A i \in 1 .. n - Parts : u[i] = s[Parts + i]
  BY <1>1, SubSeqProperties
<1> HIDE DEF r, f, u, n
<1>5. /\ Len(t) = n - Parts + 1 /\ t[n - Parts + 1] = x
      /\ \A i \in 1 .. n - Parts : t[i] = u[i]
  <2>1. Len(t) = Len(u) + 1 /\ t[Len(u) + 1] = x /\ \A i \in 1 .. Len(u) : t[i] = u[i]
    BY <1>4, AppendProperties
  <2> QED BY <1>4, <2>1
<1> HIDE DEF t
<1>6. \A i \in 1 .. n - Parts + 1 : t[i] = r[Parts + i]
  <2> TAKE i \in 1 .. n - Parts + 1
  <2>1. CASE i = n - Parts + 1
    BY <1>1, <1>2, <1>5, <2>1
  <2>2. CASE i \in 1 .. n - Parts
    <3>1. Parts + i \in 1 .. n
      BY <1>1, <2>2
    <3> QED BY <1>2, <1>4, <1>5, <2>2, <3>1 DEF n
  <2> QED BY <1>1, <2>1, <2>2
<1>7. /\ r[1] = <<first, 1>>
      /\ \A i \in 1 .. n + 1 : \A m \in 0 .. Parts - 1 :
            r[i][2] = 1 /\ i + m <= n + 1 => r[i + m] = <<r[i][1], m + 1>>
      /\ \A i \in 1 .. n : r[i][2] = Parts => r[i + 1] = <<r[i][1] + 1, 1>>
  <2>1. Aligned(r, first) /\ Len(r) = n + 1 /\ Len(r) - 1 = n
    BY <1>1, <1>2 DEF r
  <2> QED BY <2>1 DEF Aligned
<1>8. \A i \in 1 .. Parts : r[i] = <<first, i>>
  <2> TAKE i \in 1 .. Parts
  <2>1. i - 1 \in 0 .. Parts - 1 /\ 1 \in 1 .. n + 1 /\ 1 + (i - 1) = i /\ i <= n + 1
        /\ (i - 1) + 1 = i
    BY <1>1
  <2>2. r[1][2] = 1 /\ r[1][1] = first
    BY <1>7
  <2> QED BY <1>7, <2>1, <2>2
<1>9. Unframed(f) = first
  <2>1. \A i \in 1 .. Parts : f[i] = <<first, i>>
    BY <1>3, <1>8
  <2>2. f[1][1] = first
    BY <1>1, <2>1
  <2> QED BY <2>1, <2>2 DEF Unframed
<1>10. t[1] = <<first + 1, 1>>
  <2>1. r[Parts + 1] = <<first + 1, 1>>
    BY <1>1, <1>7, <1>8
  <2> QED BY <1>1, <1>6, <2>1
<1>11. ASSUME NEW i \in 1 .. n - Parts + 1, NEW m \in 0 .. Parts - 1, t[i][2] = 1,
              i + m <= n - Parts + 1
       PROVE  t[i + m] = <<t[i][1], m + 1>>
  <2>1. /\ i + m \in 1 .. n - Parts + 1 /\ Parts + i \in 1 .. n + 1
        /\ (Parts + i) + m = Parts + (i + m) /\ (Parts + i) + m <= n + 1
    BY <1>1, <1>11
  <2> QED BY <1>6, <1>7, <1>11, <2>1
<1>12. ASSUME NEW i \in 1 .. n - Parts, t[i][2] = Parts
       PROVE  t[i + 1] = <<t[i][1] + 1, 1>>
  <2>1. /\ i + 1 \in 1 .. n - Parts + 1 /\ i \in 1 .. n - Parts + 1
        /\ Parts + i \in 1 .. n /\ Parts + (i + 1) = (Parts + i) + 1
    BY <1>1
  <2> QED BY <1>6, <1>7, <1>12, <2>1
<1>13. Len(t) - 1 = n - Parts
  BY <1>1, <1>5
<1> QED BY <1>5, <1>9, <1>10, <1>11, <1>12, <1>13 DEF Aligned, t, u, f, n
-----------------------------------------------------------------------------
(* The invariant holds at the start.                                       *)
LEMMA InitInv == Init => IInv
<1> SUFFICES ASSUME Init PROVE IInv
  OBVIOUS
<1>1. Parts \in Nat /\ Parts >= 3
  BY UdsAssumption
<1>2. <<1, 1>> \in Piece
  BY <1>1 DEF Piece
<1>3. TypeOK
  BY <1>2 DEF Init, TypeOK, Idle
<1>4. Unconnected
  BY DEF Init, Unconnected
<1>5. SlotsMatchDescriptors
  BY UdsAssumption DEF Init, SlotsMatchDescriptors
<1>6. UpstreamInOrder
  BY DEF Init, UpstreamInOrder
<1>7. ASSUME NEW k \in Socks
      PROVE  Aligned(Stream(k), Len(callbacks[k]) + 1)
  <2>1. Stream(k) = << <<1, 1>> >> /\ Len(callbacks[k]) + 1 = 1
    BY DEF Init, Stream
  <2>2. Aligned(<< <<1, 1>> >>, 1)
    BY <1>1 DEF Aligned
  <2> QED BY <2>1, <2>2
<1> QED BY <1>3, <1>4, <1>5, <1>6, <1>7 DEF IInv, Framing

(* A step that leaves the upstream bytes alone keeps the frames aligned,   *)
(* and one that leaves the descriptors alone keeps the slots matched.      *)
LEMMA FramingUnchanged ==
    ASSUME Framing, UpstreamInOrder, UNCHANGED <<up, upNext, callbacks>>
    PROVE  Framing' /\ UpstreamInOrder'
  BY DEF Framing, UpstreamInOrder, Stream, Aligned

LEMMA SlotsUnchanged ==
    ASSUME SlotsMatchDescriptors, UNCHANGED <<daemon, clients>>
    PROVE  SlotsMatchDescriptors'
  BY DEF SlotsMatchDescriptors

(* The helper's steps.                                                     *)
LEMMA HelperConnectInv ==
    ASSUME IInv, NEW k \in Socks, HelperConnect(k)
    PROVE  IInv'
<1>1. TypeOK'
  BY DEF HelperConnect, TypeOK, IInv
<1>2. Unconnected'
  BY DEF HelperConnect, TypeOK, IInv, Unconnected
<1>3. SlotsMatchDescriptors'
  BY DEF HelperConnect, TypeOK, IInv, Unconnected, SlotsMatchDescriptors
<1>4. Framing' /\ UpstreamInOrder'
  BY FramingUnchanged DEF HelperConnect, IInv
<1> QED BY <1>1, <1>2, <1>3, <1>4 DEF IInv

LEMMA HelperRegisterInv ==
    ASSUME IInv, NEW k \in Socks, HelperRegister(k)
    PROVE  IInv'
<1>1. TypeOK'
  BY DEF HelperRegister, TypeOK, IInv, daemonVars
<1>2. Unconnected'
  BY DEF HelperRegister, IInv, Unconnected, daemonVars
<1>3. SlotsMatchDescriptors'
  BY SlotsUnchanged DEF HelperRegister, IInv, daemonVars
<1>4. Framing' /\ UpstreamInOrder'
  BY FramingUnchanged DEF HelperRegister, IInv, daemonVars
<1> QED BY <1>1, <1>2, <1>3, <1>4 DEF IInv

LEMMA HelperCloseInv ==
    ASSUME IInv, NEW k \in Socks, HelperClose(k)
    PROVE  IInv'
<1>1. TypeOK'
  BY DEF HelperClose, TypeOK, IInv, daemonVars
<1>2. Unconnected'
  BY DEF HelperClose, TypeOK, IInv, Unconnected, daemonVars
<1>3. SlotsMatchDescriptors'
  BY SlotsUnchanged DEF HelperClose, IInv, daemonVars
<1>4. Framing' /\ UpstreamInOrder'
  BY FramingUnchanged DEF HelperClose, IInv, daemonVars
<1> QED BY <1>1, <1>2, <1>3, <1>4 DEF IInv

LEMMA HelperWriteInv ==
    ASSUME IInv, NEW k \in Socks, HelperWrite(k)
    PROVE  IInv'
<1>1. /\ up' = [up EXCEPT ![k] = Append(up[k], upNext[k])]
      /\ upNext' = [upNext EXCEPT ![k] = After(upNext[k][1], upNext[k][2])]
      /\ UNCHANGED <<daemonVars, helper, reg, downGot, tun, down, ready>>
  BY DEF HelperWrite
<1>2. TypeOK
  BY DEF IInv
<1>3. up[k] \in Seq(Piece) /\ upNext[k] \in Piece
  BY <1>2 DEF TypeOK
<1>4. Append(up[k], upNext[k]) \in Seq(Piece)
  BY <1>3
<1>5. After(upNext[k][1], upNext[k][2]) \in Piece
  BY <1>3, AfterPiece
<1>6. up' \in [Socks -> Seq(Piece)] /\ upNext' \in [Socks -> Piece]
  BY <1>1, <1>2, <1>4, <1>5 DEF TypeOK
<1>7. TypeOK'
  BY <1>1, <1>2, <1>6 DEF TypeOK, daemonVars
<1>8. Unconnected'
  BY <1>1 DEF IInv, Unconnected, daemonVars
<1>9. SlotsMatchDescriptors'
  BY <1>1, SlotsUnchanged DEF IInv, daemonVars
<1>10. UpstreamInOrder'
  BY <1>1 DEF IInv, UpstreamInOrder, daemonVars
<1>11. ASSUME NEW j \in Socks
       PROVE  Aligned(Append(up'[j], upNext'[j]), Len(callbacks[j]) + 1)
  <2>1. Aligned(Append(up[j], upNext[j]), Len(callbacks[j]) + 1)
    BY DEF IInv, Framing, Stream
  <2>2. CASE j = k
    <3>1. Len(callbacks[k]) + 1 \in Nat
      BY <1>2 DEF TypeOK
    <3>2. Aligned(Append(Append(up[k], upNext[k]), After(upNext[k][1], upNext[k][2])),
                  Len(callbacks[k]) + 1)
      BY <1>3, <2>1, <2>2, <3>1, WriteAligned
    <3>3. up'[k] = Append(up[k], upNext[k]) /\ upNext'[k] = After(upNext[k][1], upNext[k][2])
      BY <1>1, <1>2 DEF TypeOK
    <3> QED BY <2>2, <3>2, <3>3
  <2>3. CASE j # k
    <3>1. up'[j] = up[j] /\ upNext'[j] = upNext[j]
      BY <1>1, <1>2, <2>3 DEF TypeOK
    <3> QED BY <2>1, <3>1
  <2> QED BY <2>2, <2>3
<1>12. Framing'
  BY <1>1, <1>11 DEF Framing, Stream, Aligned, daemonVars
<1> QED BY <1>7, <1>8, <1>9, <1>10, <1>12 DEF IInv

LEMMA HelperReadInv ==
    ASSUME IInv, NEW k \in Socks, HelperRead(k)
    PROVE  IInv'
<1> DEFINE got == Append(downGot[k], Head(down[k]))
<1>1. TypeOK
  BY DEF IInv
<1>2. /\ down[k] # <<>>
      /\ down' = [down EXCEPT ![k] = Tail(down[k])]
      /\ \/ downGot' = [downGot EXCEPT ![k] = got] /\ UNCHANGED tun
         \/ /\ ~(Len(got) < Parts)
            /\ downGot' = [downGot EXCEPT ![k] = <<>>]
            /\ tun' = [tun EXCEPT ![k] = Append(tun[k], Unframed(got))]
      /\ UNCHANGED <<daemonVars, helper, reg, upNext, up, ready>>
  BY DEF HelperRead
<1>3. down[k] \in Seq(Piece) /\ downGot[k] \in Seq(Piece)
  BY <1>1 DEF TypeOK
<1>4. Tail(down[k]) \in Seq(Piece) /\ Head(down[k]) \in Piece
  BY <1>2, <1>3
<1>5. got \in Seq(Piece)
  BY <1>3, <1>4
<1> HIDE DEF got
<1>6. down' \in [Socks -> Seq(Piece)]
  BY <1>1, <1>2, <1>4 DEF TypeOK
<1>7. downGot' \in [Socks -> Seq(Piece)] /\ tun' \in [Socks -> Seq(Nat \cup {Garbled})]
  <2>1. CASE downGot' = [downGot EXCEPT ![k] = got] /\ UNCHANGED tun
    BY <1>1, <1>5, <2>1 DEF TypeOK
  <2>2. CASE /\ ~(Len(got) < Parts)
             /\ downGot' = [downGot EXCEPT ![k] = <<>>]
             /\ tun' = [tun EXCEPT ![k] = Append(tun[k], Unframed(got))]
    <3>1. Len(got) >= Parts
      BY <1>5, <2>2, UdsAssumption
    <3>2. Unframed(got) \in Nat \cup {Garbled}
      BY <1>5, <3>1, UnframedType
    <3>3. Append(tun[k], Unframed(got)) \in Seq(Nat \cup {Garbled})
      BY <1>1, <3>2 DEF TypeOK
    <3>4. downGot \in [Socks -> Seq(Piece)] /\ <<>> \in Seq(Piece)
      BY <1>1 DEF TypeOK
    <3>5. tun \in [Socks -> Seq(Nat \cup {Garbled})]
      BY <1>1 DEF TypeOK
    <3> QED BY <2>2, <3>3, <3>4, <3>5
  <2> QED BY <1>2, <2>1, <2>2
<1>8. TypeOK'
  BY <1>1, <1>2, <1>6, <1>7 DEF TypeOK, daemonVars
<1>9. Unconnected'
  BY <1>2 DEF IInv, Unconnected, daemonVars
<1>10. SlotsMatchDescriptors'
  BY <1>2, SlotsUnchanged DEF IInv, daemonVars
<1>11. Framing' /\ UpstreamInOrder'
  BY <1>2, FramingUnchanged DEF IInv, daemonVars
<1> QED BY <1>8, <1>9, <1>10, <1>11 DEF IInv

(* The daemon's steps.                                                     *)
LEMMA AcceptInv ==
    ASSUME IInv, NEW k \in Socks, Accept(k)
    PROVE  IInv'
<1> DEFINE free == Min(FreeSlots)
<1>1. TypeOK
  BY DEF IInv
<1>2. daemon[k] = "backlog" /\ UNCHANGED <<helperVars, up, down, callbacks, writing,
                                            downSent, ready, running>>
  BY DEF Accept
<1>3. NoSock \notin Socks
  BY UdsAssumption
<1>4. \/ /\ free \in Slots /\ clients[free] = NoSock
         /\ daemon' = [daemon EXCEPT ![k] = "open"]
         /\ clients' = [clients EXCEPT ![free] = k]
      \/ /\ daemon' = [daemon EXCEPT ![k] = "closed"]
         /\ UNCHANGED clients
  BY FreeSlot DEF Accept
<1> HIDE DEF free
<1>5. /\ daemon' \in [Socks -> {"none", "backlog", "open", "closed"}]
      /\ clients' \in [Slots -> Socks \cup {NoSock}]
  BY <1>1, <1>4 DEF TypeOK
<1>6. TypeOK'
  BY <1>1, <1>2, <1>5 DEF TypeOK, helperVars
<1>7. Unconnected'
  BY <1>1, <1>2, <1>4 DEF IInv, TypeOK, Unconnected, helperVars
<1>8. SlotsMatchDescriptors'
  <2>1. /\ \A j \in Socks : daemon[j] = "open" <=> \E i \in Slots : clients[i] = j
        /\ \A i, j \in Slots : clients[i] = clients[j] /\ clients[i] # NoSock => i = j
    BY DEF IInv, SlotsMatchDescriptors
  <2>2. \A i \in Slots : clients[i] # k
    BY <1>2, <2>1
  <2>3. CASE /\ free \in Slots /\ clients[free] = NoSock
             /\ daemon' = [daemon EXCEPT ![k] = "open"]
             /\ clients' = [clients EXCEPT ![free] = k]
    BY <1>1, <1>3, <2>1, <2>2, <2>3 DEF TypeOK, SlotsMatchDescriptors
  <2>4. CASE /\ daemon' = [daemon EXCEPT ![k] = "closed"]
             /\ UNCHANGED clients
    BY <1>1, <1>3, <2>1, <2>2, <2>4 DEF TypeOK, SlotsMatchDescriptors
  <2> QED BY <1>4, <2>3, <2>4
<1>9. Framing' /\ UpstreamInOrder'
  BY <1>2, FramingUnchanged DEF IInv, helperVars
<1> QED BY <1>6, <1>7, <1>8, <1>9 DEF IInv

LEMMA ReadClientInv ==
    ASSUME IInv, NEW i \in Slots, ReadClient(i)
    PROVE  IInv'
<1> DEFINE k == clients[i]
           frame == SubSeq(up[k], 1, Parts)
           rest == SubSeq(up[k], Parts + 1, Len(up[k]))
<1>1. TypeOK
  BY DEF IInv
<1>2. /\ k # NoSock
      /\ ReadFrame(i)
      /\ UNCHANGED <<helperVars, down, writing, downSent, ready, running>>
  BY DEF ReadClient
<1>3. k \in Socks
  BY <1>1, <1>2 DEF TypeOK
<1>4. up[k] \in Seq(Piece) /\ upNext[k] \in Piece /\ callbacks[k] \in Seq(Nat \cup {Garbled})
  BY <1>1, <1>3 DEF TypeOK
<1>5. daemon[k] = "open" /\ \A j \in Slots : clients[j] = k => j = i
  BY <1>2, <1>3 DEF IInv, SlotsMatchDescriptors
<1>6. CASE Len(up[k]) >= Parts
  <2>1. /\ callbacks' = [callbacks EXCEPT ![k] = Append(callbacks[k], Unframed(frame))]
        /\ up' = [up EXCEPT ![k] = rest]
        /\ UNCHANGED <<clients, daemon>>
    BY <1>2, <1>6 DEF ReadFrame
  <2> DEFINE first == Len(callbacks[k]) + 1
  <2>2. first \in Nat /\ Len(callbacks[k]) \in Nat
    BY <1>4
  <2>3. Aligned(Append(up[k], upNext[k]), first)
    BY <1>3 DEF IInv, Framing, Stream
  <2>4. Unframed(frame) = first /\ Aligned(Append(rest, upNext[k]), first + 1)
    BY <1>4, <1>6, <2>2, <2>3, ReadAligned
  <2>5. rest \in Seq(Piece)
    <3>1. Parts \in Nat /\ Parts >= 3 /\ Len(up[k]) \in Nat
      BY <1>4, UdsAssumption
    <3> QED BY <1>4, <1>6, <3>1, SubSeqProperties
  <2> HIDE DEF rest, frame, k
  <2>6. /\ Append(callbacks[k], first) \in Seq(Nat \cup {Garbled})
        /\ Len(Append(callbacks[k], first)) = first
        /\ Append(callbacks[k], first)[first] = first
        /\ \A n \in 1 .. Len(callbacks[k]) : Append(callbacks[k], first)[n] = callbacks[k][n]
    <3>1. first \in Nat \cup {Garbled}
      BY <2>2
    <3> QED BY <1>4, <3>1, AppendProperties
  <2>7. callbacks' = [callbacks EXCEPT ![k] = Append(callbacks[k], first)]
    BY <2>1, <2>4
  <2>8. /\ callbacks' \in [Socks -> Seq(Nat \cup {Garbled})]
        /\ up' \in [Socks -> Seq(Piece)]
    BY <1>1, <1>3, <2>1, <2>5, <2>6, <2>7 DEF TypeOK
  <2>9. TypeOK'
    BY <1>1, <1>2, <2>1, <2>8 DEF TypeOK, helperVars
  <2>10. Unconnected'
    BY <1>2, <2>1 DEF IInv, Unconnected, helperVars
  <2>11. SlotsMatchDescriptors'
    BY <2>1, SlotsUnchanged DEF IInv
  <2>12. ASSUME NEW j \in Socks
         PROVE  Aligned(Append(up'[j], upNext[j]), Len(callbacks'[j]) + 1)
    <3>1. CASE j = k
      <4>1. up'[k] = rest /\ callbacks'[k] = Append(callbacks[k], first)
        BY <1>1, <1>3, <2>1, <2>7 DEF TypeOK
      <4>2. Len(callbacks'[k]) + 1 = first + 1
        BY <2>6, <4>1
      <4> QED BY <2>4, <3>1, <4>1, <4>2
    <3>2. CASE j # k
      <4>1. up'[j] = up[j] /\ callbacks'[j] = callbacks[j]
        BY <1>1, <2>1, <2>7, <3>2 DEF TypeOK
      <4> QED BY <4>1 DEF IInv, Framing, Stream
    <3> QED BY <3>1, <3>2
  <2>13. Framing'
    BY <1>2, <2>12 DEF Framing, Stream, Aligned, helperVars
  <2>14. ASSUME NEW j \in Socks, NEW n \in DOMAIN callbacks'[j]
         PROVE  callbacks'[j][n] = n
    <3>1. \A m \in DOMAIN callbacks[j] : callbacks[j][m] = m
      BY DEF IInv, UpstreamInOrder
    <3>2. CASE j = k
      <4>1. callbacks'[j] = Append(callbacks[k], first)
        BY <1>1, <1>3, <2>7, <3>2 DEF TypeOK
      <4>2. n \in 1 .. first
        BY <2>6, <2>14, <4>1
      <4>3. CASE n = first
        BY <2>6, <4>1, <4>3
      <4>4. CASE n \in 1 .. Len(callbacks[k])
        <5>1. n \in DOMAIN callbacks[k]
          BY <1>4, <4>4
        <5> QED BY <2>6, <3>1, <3>2, <4>1, <4>4, <5>1
      <4> QED BY <2>2, <4>2, <4>3, <4>4
    <3>3. CASE j # k
      BY <1>1, <2>7, <2>14, <3>1, <3>3 DEF TypeOK
    <3> QED BY <3>2, <3>3
  <2>15. UpstreamInOrder'
    BY <2>14 DEF UpstreamInOrder
  <2> QED BY <2>9, <2>10, <2>11, <2>13, <2>15 DEF IInv
<1>7. CASE ~(Len(up[k]) >= Parts)
  <2>1. /\ clients' = [clients EXCEPT ![i] = NoSock]
        /\ daemon' = [daemon EXCEPT ![k] = "closed"]
        /\ UNCHANGED <<callbacks, up>>
    BY <1>2, <1>7 DEF ReadFrame
  <2>2. TypeOK'
    BY <1>1, <1>2, <2>1 DEF TypeOK, helperVars
  <2>3. Unconnected'
    BY <1>1, <1>2, <1>5, <2>1 DEF IInv, TypeOK, Unconnected, helperVars
  <2>4. SlotsMatchDescriptors'
    <3>1. /\ \A j \in Socks : daemon[j] = "open" <=> \E s \in Slots : clients[s] = j
          /\ \A s, j \in Slots : clients[s] = clients[j] /\ clients[s] # NoSock => s = j
      BY DEF IInv, SlotsMatchDescriptors
    <3>2. NoSock \notin Socks
      BY UdsAssumption
    <3> QED BY <1>1, <1>3, <1>5, <2>1, <3>1, <3>2 DEF TypeOK, SlotsMatchDescriptors
  <2>5. Framing' /\ UpstreamInOrder'
    BY <1>2, <2>1, FramingUnchanged DEF IInv, helperVars
  <2> QED BY <2>2, <2>3, <2>4, <2>5 DEF IInv
<1> QED BY <1>6, <1>7

LEMMA SendInv ==
    ASSUME IInv, \/ SendPiece \/ SendTimeout \/ \E t \in Tracks : SendStart(t)
    PROVE  IInv'
<1>1. TypeOK
  BY DEF IInv
<1>2. UNCHANGED <<helperVars, daemon, clients, callbacks, up, ready>>
  BY DEF SendPiece, SendTimeout, SendStart
<1>3. Parts \in Nat /\ Parts >= 3
  BY UdsAssumption
<1>4. /\ writing' \in (Socks \X (1 .. Parts)) \cup {Idle}
      /\ down' \in [Socks -> Seq(Piece)] /\ downSent' \in Nat /\ running' \in BOOLEAN
  <2>1. CASE SendPiece
    <3> DEFINE k == writing[1]
               n == writing[2]
    <3>1. k \in Socks /\ n \in 1 .. Parts
      BY <1>1, <2>1 DEF TypeOK, SendPiece
    <3>2. /\ downSent' = downSent
          /\ \/ running' = FALSE /\ UNCHANGED <<writing, down>>
             \/ /\ down' = [down EXCEPT ![k] = Append(down[k], <<downSent, n>>)]
                /\ writing' = IF n = Parts THEN Idle ELSE <<k, n + 1>>
                /\ UNCHANGED running
      BY <2>1 DEF SendPiece
    <3> HIDE DEF k, n
    <3>3. Append(down[k], <<downSent, n>>) \in Seq(Piece)
      <4>1. <<downSent, n>> \in Piece
        BY <1>1, <3>1 DEF TypeOK, Piece
      <4>2. down[k] \in Seq(Piece)
        BY <1>1, <3>1 DEF TypeOK
      <4> QED BY <4>1, <4>2
    <3>4. (IF n = Parts THEN Idle ELSE <<k, n + 1>>) \in (Socks \X (1 .. Parts)) \cup {Idle}
      BY <1>3, <3>1
    <3> QED BY <1>1, <3>1, <3>2, <3>3, <3>4 DEF TypeOK
  <2>2. CASE SendTimeout
    BY <1>1, <2>2 DEF SendTimeout, TypeOK
  <2>3. CASE \E t \in Tracks : SendStart(t)
    <3>1. PICK t \in Tracks : SendStart(t)
      BY <2>3
    <3>2. Targets(t) # {} /\ downSent' = downSent + 1 /\ writing' = <<clients[Min(Targets(t))], 1>>
          /\ UNCHANGED <<down, running>>
      BY <3>1 DEF SendStart
    <3>3. Min(Targets(t)) \in Slots /\ clients[Min(Targets(t))] # NoSock
      BY <3>2, TargetSlot
    <3>4. clients[Min(Targets(t))] \in Socks
      BY <1>1, <3>3 DEF TypeOK
    <3> QED BY <1>1, <1>3, <3>2, <3>4 DEF TypeOK
  <2> QED BY <2>1, <2>2, <2>3
<1>5. TypeOK'
  BY <1>1, <1>2, <1>4 DEF TypeOK, helperVars
<1>6. Unconnected'
  BY <1>2 DEF IInv, Unconnected, helperVars
<1>7. SlotsMatchDescriptors'
  BY <1>2, SlotsUnchanged DEF IInv
<1>8. Framing' /\ UpstreamInOrder'
  BY <1>2, FramingUnchanged DEF IInv, helperVars
<1> QED BY <1>5, <1>6, <1>7, <1>8 DEF IInv

LEMMA TrackInv ==
    ASSUME IInv, NEW t \in Tracks, TrackBlocked(t) \/ TrackReady(t)
    PROVE  IInv'
<1>1. ready' \subseteq Tracks /\ UNCHANGED <<helperVars, daemonVars, up, down>>
  BY DEF TrackBlocked, TrackReady, IInv, TypeOK
<1>2. TypeOK'
  BY <1>1 DEF IInv, TypeOK, helperVars, daemonVars
<1>3. Unconnected'
  BY <1>1 DEF IInv, Unconnected, helperVars, daemonVars
<1>4. SlotsMatchDescriptors'
  BY <1>1, SlotsUnchanged DEF IInv, daemonVars
<1>5. Framing' /\ UpstreamInOrder'
  BY <1>1, FramingUnchanged DEF IInv, helperVars, daemonVars
<1> QED BY <1>2, <1>3, <1>4, <1>5 DEF IInv
-----------------------------------------------------------------------------
(* Every step of the daemon and of the helpers keeps the invariant.        *)
THEOREM Invariance == Spec => []IInv
<1>1. Init => IInv
  BY InitInv
<1>2. IInv /\ [Next]_vars => IInv'
  <2> SUFFICES ASSUME IInv, [Next]_vars PROVE IInv'
    OBVIOUS
  <2>1. CASE UNCHANGED vars
    <3>1. TypeOK'
      BY <2>1 DEF IInv, TypeOK, vars
    <3>2. Unconnected'
      BY <2>1 DEF IInv, Unconnected, vars
    <3>3. SlotsMatchDescriptors'
      BY <2>1, SlotsUnchanged DEF IInv, vars
    <3>4. Framing' /\ UpstreamInOrder'
      BY <2>1, FramingUnchanged DEF IInv, vars
    <3> QED BY <3>1, <3>2, <3>3, <3>4 DEF IInv
  <2>2. CASE Next
    BY <2>2, HelperConnectInv, HelperRegisterInv, HelperWriteInv, HelperReadInv,
       HelperCloseInv, AcceptInv, ReadClientInv, SendInv, TrackInv DEF Next
  <2> QED BY <2>1, <2>2
<1> QED BY <1>1, <1>2, PTL DEF Spec

(* Both ends and the bytes between them keep their types (data_uds.c,      *)
(* tund.c).                                                                *)
THEOREM UdsTypeCorrect == Spec => []TypeOK
<1>1. IInv => TypeOK
  BY DEF IInv
<1> QED BY <1>1, Invariance, PTL

(* The client table and the open descriptors agree, whatever number of     *)
(* slots data_uds.c is built with and whatever the helpers do.             *)
THEOREM DescriptorsHaveSlots == Spec => []SlotsMatchDescriptors
<1>1. IInv => SlotsMatchDescriptors
  BY DEF IInv
<1> QED BY <1>1, Invariance, PTL

(* data_uds_tick gives the transport the packets of a helper whole, in     *)
(* order and without a gap, for every buffer size and every split of a     *)
(* frame into writes.                                                      *)
THEOREM PacketsInOrder == Spec => []UpstreamInOrder
<1>1. IInv => UpstreamInOrder
  BY DEF IInv
<1> QED BY <1>1, Invariance, PTL
=============================================================================
