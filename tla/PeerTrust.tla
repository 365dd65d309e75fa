------------------------------ MODULE PeerTrust ------------------------------
(***************************************************************************)
(* What one node thinks of its peers: the presence cache and the welcome   *)
(* messages of src/runtime/network/nodeNetworkIntegrationV0_1.mjs.  Every  *)
(* presence message of a peer is judged by its signature; peers that fail  *)
(* repeatedly are quarantined.  The cache is saved in the background, so a *)
(* restart may find an earlier one.                                        *)
(***************************************************************************)
EXTENDS Naturals

CONSTANTS Peers,
          Cooldown,     \* ten minutes between welcomes, in ticks of the clock
          MaxBad        \* bound: failing sightings that are told apart

VARIABLES
    cache,      \* presenceCache.peers: what is known of each peer, or Unseen
    saved,      \* presence-cache.json
    welcomed    \* welcomeSentTo: how long ago each peer was welcomed, or Never

trustVars == <<cache, saved, welcomed>>

Levels == {"VERIFIED", "UNVERIFIED", "INVALID"}
(* The outcomes of the signature check: it verifies, it fails, there is     *)
(* none, or the key or the signature cannot be parsed (crypto throws).      *)
Checks == {"good", "bad", "none", "throws"}

(* bad is history: the sightings judged INVALID since the last good one. *)
Entry(level, state, count, streak, bad) ==
    [level |-> level, state |-> state, count |-> count, streak |-> streak, bad |-> bad]
Unseen == Entry("null", "null", 0, 0, 0)
Never == Cooldown + 1

Init ==
    /\ cache = [p \in Peers |-> Unseen]
    /\ saved = cache
    /\ welcomed = [p \in Peers |-> Never]

-----------------------------------------------------------------------------
(* A check that throws keeps the level of the previous sighting. *)
Level(prev, check) ==
    CASE check = "good" -> "VERIFIED"
      [] check = "bad"  -> "INVALID"
      [] check = "none" -> "UNVERIFIED"
      [] OTHER          -> IF prev = Unseen THEN "UNVERIFIED" ELSE prev.level

Counted(n) == IF n < MaxBad THEN n + 1 ELSE MaxBad
Quarantined(streak, count) == streak >= 3 \/ count >= 5

Verified_KeepsCount(prev) ==                                         \* mutant
    Entry("VERIFIED", "VERIFIED", prev.count, 0, 0)
Verified(prev) == Entry("VERIFIED", "VERIFIED", 0, 0, 0)

Invalid(prev) ==
    LET count == Counted(prev.count)
        streak == Counted(prev.streak)
    IN Entry("INVALID", IF Quarantined(streak, count) THEN "QUARANTINED" ELSE "INVALID",
             count, streak, Counted(prev.bad))

(* An unsigned sighting ends a streak and even a quarantine; the count stays. *)
Unverified(prev) == Entry("UNVERIFIED", "UNVERIFIED", prev.count, 0, prev.bad)

Judged(prev, check) ==
    LET level == Level(prev, check)
    IN CASE level = "VERIFIED" -> Verified(prev)
         [] level = "INVALID"  -> Invalid(prev)
         [] OTHER              -> Unverified(prev)

(* mergePresenceIntoCache for a peer.presence message. *)
Presence(p) ==
    /\ \E check \in Checks : cache' = [cache EXCEPT ![p] = Judged(@, check)]
    /\ UNCHANGED <<saved, welcomed>>

(* shouldSendWelcome: never within the cooldown.  The first time is certain *)
(* and later ones are random, but the time is kept only if the message      *)
(* could be sent, so even the first may come to nothing.                    *)
MayWelcome(p) == welcomed[p] >= Cooldown

(* node.join.announce is recorded as presence and carries no signature. *)
JoinAnnounce(p) ==
    /\ cache' = [cache EXCEPT ![p] = Judged(@, "none")]
    /\ \/ MayWelcome(p) /\ welcomed' = [welcomed EXCEPT ![p] = 0]
       \/ UNCHANGED welcomed    \* declined at random, or the link is down
    /\ UNCHANGED saved

(* A background save of some peers' changes has ended; the last one wins.   *)
Save ==
    /\ saved # cache
    /\ saved' = cache
    /\ UNCHANGED <<cache, welcomed>>

(* The node restarts: the map of welcomes is lost. *)
RestartNode ==
    /\ cache' = saved
    /\ welcomed' = [p \in Peers |-> Never]
    /\ UNCHANGED saved

TrustTick ==
    /\ welcomed' = [p \in Peers |-> IF welcomed[p] < Cooldown THEN welcomed[p] + 1
                                                              ELSE welcomed[p]]
    /\ UNCHANGED <<cache, saved>>

Next ==
    \/ \E p \in Peers : Presence(p) \/ JoinAnnounce(p)
    \/ Save
    \/ RestartNode
    \/ TrustTick

-----------------------------------------------------------------------------
(* Every variable has its type. *)
TypeOK ==
    LET Entries == [level : Levels \cup {"null"},
                    state : Levels \cup {"null", "QUARANTINED"},
                    count : 0..MaxBad, streak : 0..MaxBad, bad : 0..MaxBad]
    IN /\ cache \in [Peers -> Entries] /\ saved \in [Peers -> Entries]
       /\ welcomed \in [Peers -> 0..Never]

(* Quarantine is earned: however good, failing and unsigned sightings and   *)
(* restarts alternate, a peer in quarantine has failed at least three times *)
(* since its last verified sighting, and one that is trusted owes nothing.  *)
QuarantineEarned ==
    \A p \in Peers, c \in {cache, saved} :
        /\ c[p].state = "QUARANTINED" => c[p].bad >= 3
        /\ c[p].state = "VERIFIED" => c[p].bad = 0
        /\ c[p].count <= c[p].bad
=============================================================================
