--------------------------- MODULE Subscriptions ---------------------------
(***************************************************************************)
(* The subscription table of one end of a connection (track_subscription_t *)
(* subscriptions[32]): which alias stands for which track on the wire.     *)
(* Entries are only ever added, so the table is the sequence of its active *)
(* slots.                                                                  *)
(***************************************************************************)
EXTENDS Naturals, Sequences, FiniteSets, FiniteSetsExt, SequencesExt

CONSTANTS Tracks,       \* the tracks of the peers, of one type
          Unnamed,      \* the track with the empty name
          UnnamedAlias, \* its built-in alias: the track type, below 8
          NoTrack,
          TableSize     \* 32 in the code

ASSUME SubscriptionsAssumption ==
    /\ UnnamedAlias \in 0 .. 7
    /\ NoTrack \notin Tracks
    /\ TableSize \in Nat

FirstAlias == 8

Aliases == 0 .. 255

Entry == [track : Tracks, alias : Aliases]

HasTrack(table, t) == \E k \in 1 .. Len(table) : table[k].track = t

SlotOf(table, t) == CHOOSE k \in 1 .. Len(table) : table[k].track = t

(* Mutant: the unnamed track is looked up like any other.                  *)
IsSubscribedByEntry(table, t) == HasTrack(table, t)

(* is_subscribed: the unnamed track needs no entry.                        *)
IsSubscribed(table, t) == t = Unnamed \/ HasTrack(table, t)

(* find_alias_by_track, for a track that is subscribed.                    *)
FindAlias(table, t) ==
    IF t = Unnamed THEN UnnamedAlias ELSE table[SlotOf(table, t)].alias

(* Mutant: the built-in aliases go one too far.                            *)
FindTrackReserved(table, a) ==
    LET ks == {k \in 1 .. Len(table) : table[k].alias = a}
    IN  IF a <= FirstAlias THEN Unnamed
        ELSE IF ks = {} THEN NoTrack
        ELSE table[Min(ks)].track

(* find_subscription_by_alias: the first active slot with the alias.       *)
FindTrack(table, a) ==
    LET ks == {k \in 1 .. Len(table) : table[k].alias = a}
    IN  IF a < FirstAlias THEN Unnamed
        ELSE IF ks = {} THEN NoTrack
        ELSE table[Min(ks)].track

(* Mutant: an existing entry is not looked for.                            *)
AddSubscriptionAppend(table, t, a) == Append(table, [track |-> t, alias |-> a])

(* add_subscription: a full table drops the track without a word.          *)
AddSubscription(table, t, a) ==
    IF HasTrack(table, t) THEN [table EXCEPT ![SlotOf(table, t)].alias = a]
    ELSE IF Len(table) < TableSize THEN Append(table, [track |-> t, alias |-> a])
    ELSE table

(* One above the largest alias in use, truncated to a byte.                *)
NextAlias(table) ==
    LET used == {table[k].alias : k \in 1 .. Len(table)}
    IN  Max({FirstAlias} \cup {a + 1 : a \in used}) % 256

(* The table after transport_subscribe on this connection ...              *)
Subscribe(table, t) ==
    IF IsSubscribed(table, t) THEN table
    ELSE AddSubscription(table, t, NextAlias(table))

(* ... and after subscribe_to_tracks, with the messages that go out.       *)
SubscribeAll(table, tracks) ==
    LET after[k \in 0 .. Len(tracks)] ==
            IF k = 0 THEN table ELSE Subscribe(after[k - 1], tracks[k])
    IN  after[Len(tracks)]

SubscribeMessages(table, tracks) ==
    [k \in 1 .. Len(tracks) |->
        [type |-> "subscribe", track |-> tracks[k],
         alias |-> FindAlias(table, tracks[k])]]
=============================================================================
