---------------------------- MODULE NetworkProofs ----------------------------
(***************************************************************************)
(* Proofs about the parts of Network, for any nodes, sockets and bounds.   *)
(* Each part has an inductive invariant of its own: what its property says *)
(* of the state that is looked at, said of everything that may become that *)
(* state (the copies of a file on their way, the records a restart brings  *)
(* back, the sockets that may connect yet).                                *)
(***************************************************************************)
EXTENDS Network, Sequences, FiniteSetTheorems, WellFoundedInduction, TLAPS

(* No record of the directory, in the file or in the copy of a request, is  *)
(* fresher than the last request of its node.                               *)
Honest(file) == \A n \in DOMAIN file : file[n].age >= heard[n]
DirectoryInv ==
    /\ registry \in D!Files /\ heard \in [DirectoryNodes -> D!Ages]
    /\ requests \subseteq [node : DirectoryNodes, brings : BOOLEAN, age : D!Ages, file : D!Files]
    /\ Honest(registry)
    /\ \A r \in requests : r.age >= heard[r.node] /\ Honest(r.file)

(* What a restart brings back was earned as well, and no counter is ahead   *)
(* of the failures.                                                         *)
TrustInv ==
    /\ P!TypeOK
    /\ QuarantineEarned
    /\ \A p \in TrustPeers, c \in {cache, saved} : c[p].streak <= c[p].bad

(* A socket that lives is the one of the process, and while it connects the *)
(* loop waits for it; close() leaves at most the one there was.             *)
SingletonInv ==
    /\ S!TypeOK
    /\ ~stopping => \A w \in S!Live :
         global = w /\ (ready[w] = "connecting" => loop = "wait" /\ awaited = w)
    /\ \A v, w \in S!Live : v = w

(* How far the start of a node has come, and what that says of it.          *)
JoinInv ==
    /\ J!TypeOK
    /\ ServesJoined
    /\ \A n \in J!Joiners :
         /\ stage[n] = "serving" /\ autoJoin[n] => knownPeers[n].source \in J!Servers
         /\ stage[n] \in {"join", "peers", "persist"} => ~refused[n]
         /\ stage[n] \in {"peers", "persist"} => n \in members[using[n]]
         /\ stage[n] = "persist" => fetched[n] \subseteq members[using[n]]

(* The state machine B holds is that of a session it saw opened.            *)
EncounterInv ==
    /\ E!TypeOK
    /\ FriendsWereProbed
    /\ harness # "friendship" =>
         (held.state \in {"LOCAL_ENTERED", "PROBING"} => held.session \in opened)
    /\ harness = "friendship" => held = E!FreshSession

(* A table on its way to the file says what the table may say.              *)
AsSeen(t) ==
    /\ t \in T!Tables
    /\ \A p \in T!PeerIds :
         /\ past[p] = "steady" /\ p <= Cap => t[p] = "on"
         /\ t[p] = "on" => past[p] # "unmet"
PeersInv ==
    /\ T!TypeOK
    /\ \A p \in T!PeerIds : (past[p] = "steady" => p \in onRelay) /\ (p \in onRelay => past[p] # "unmet")
    /\ AsSeen(table)
    /\ \A a \in T!Activities : copy[a] # None => AsSeen(copy[a])

-----------------------------------------------------------------------------
(* The components count with the same FiniteSets as this module.            *)
LEMMA SameCardinality ==
    ASSUME NEW A
    PROVE  /\ S!Cardinality(A) = Cardinality(A) /\ D!Cardinality(A) = Cardinality(A)
           /\ J!Cardinality(A) = Cardinality(A) /\ T!Cardinality(A) = Cardinality(A)
<1>1. S!Cardinality(A) = Cardinality(A)
  BY DEF Cardinality, S!Cardinality
<1>2. D!Cardinality(A) = Cardinality(A)
  BY DEF Cardinality, D!Cardinality
<1>3. J!Cardinality(A) = Cardinality(A)
  BY DEF Cardinality, J!Cardinality
<1>4. T!Cardinality(A) = Cardinality(A)
  BY DEF Cardinality, T!Cardinality
<1> QED BY <1>1, <1>2, <1>3, <1>4

(* Fewer than p numbers come before p. *)
LEMMA BelowCap ==
    ASSUME NEW p \in Nat \ {0}, NEW A \in SUBSET (1..(p - 1))
    PROVE  IsFiniteSet(A) /\ Cardinality(A) \in Nat /\ Cardinality(A) <= p - 1
<1>1. p - 1 \in Int /\ 1 \in Int
  OBVIOUS
<1>2. IsFiniteSet(1..(p - 1)) /\ Cardinality(1..(p - 1)) = p - 1
  BY <1>1, FS_Interval
<1> QED BY <1>2, FS_Subset, FS_CardinalityType

(* The largest element of a set of numbers up to n. *)
LEMMA Largest ==
    ASSUME NEW n \in Nat, NEW A \in SUBSET (1..n), A # {}
    PROVE  \E m \in A : \A a \in A : a <= m
<1> DEFINE B == {n - a : a \in A}
<1>1. \A a \in A : a \in Nat /\ n - a \in Nat
  OBVIOUS
<1>2. B \subseteq Nat /\ B # {}
  BY <1>1
<1>3. PICK b \in B : \A c \in B : ~(<<c, b>> \in OpToRel(<, Nat))
  BY <1>2, WFMin, NatLessThanWellFounded
<1>4. \A c \in B : ~(c < b)
  BY <1>2, <1>3 DEF OpToRel
<1>5. PICK m \in A : b = n - m
  BY <1>3
<1>6. \A a \in A : ~(n - a < n - m)
  BY <1>4, <1>5
<1> QED BY <1>1, <1>6

(* The first k of a set of numbers are at most k. *)
LEMMA FirstFew ==
    ASSUME NEW n \in Nat, NEW A \in SUBSET (1..n), NEW k \in Nat
    PROVE  Cardinality({p \in A : Cardinality({q \in A : q < p}) < k}) <= k
<1> DEFINE Before(p) == {q \in A : q < p}
           F == {p \in A : Cardinality(Before(p)) < k}
<1>1. F \subseteq A /\ \A p \in F : Cardinality(Before(p)) < k
  OBVIOUS
<1> SUFFICES Cardinality(F) <= k
  OBVIOUS
<1> HIDE DEF F
<1>2. CASE F = {}
  BY <1>2, FS_EmptySet
<1>3. CASE F # {}
  <2>1. PICK m \in F : \A a \in F : a <= m
    <3>1. F \subseteq 1..n
      BY <1>1
    <3> QED BY <1>3, <3>1, Largest
  <2>2. m \in Nat \ {0} /\ Before(m) \subseteq 1..(m - 1)
    <3>1. m \in 1..n
      BY <1>1
    <3>2. ASSUME NEW q \in A, q < m PROVE q \in 1..(m - 1)
      BY <3>1, <3>2
    <3>3. Before(m) \subseteq 1..(m - 1)
      BY <3>2
    <3>4. m \in Nat \ {0}
      BY <3>1
    <3> QED BY <3>3, <3>4
  <2>3. IsFiniteSet(Before(m)) /\ Cardinality(Before(m)) \in Nat /\ Cardinality(Before(m)) < k
    BY <1>1, <2>2, BelowCap
  <2>4. F \subseteq Before(m) \cup {m}
    BY <1>1, <2>1
  <2> HIDE DEF Before
  <2>5. /\ IsFiniteSet(Before(m) \cup {m})
        /\ \/ Cardinality(Before(m) \cup {m}) = Cardinality(Before(m))
           \/ Cardinality(Before(m) \cup {m}) = Cardinality(Before(m)) + 1
    BY <2>3, FS_AddElement
  <2>6. Cardinality(F) <= Cardinality(Before(m) \cup {m}) /\ IsFiniteSet(F)
    BY <2>4, <2>5, FS_Subset
  <2>7. Cardinality(F) \in Nat /\ Cardinality(Before(m) \cup {m}) \in Nat
    BY <2>5, <2>6, FS_CardinalityType
  <2> QED BY <2>3, <2>5, <2>6, <2>7
<1> QED BY <1>2, <1>3

-----------------------------------------------------------------------------
(* The cut at Cap takes no peer whose name is within it. *)
LEMMA CutSees == ASSUME NEW t, AsSeen(t) PROVE AsSeen(T!Cut(t))
<1>1. ASSUME NEW p \in T!PeerIds, p <= Cap
      PROVE  T!Cut(t)[p] = t[p]
  <2>1. Cardinality({q \in 1..(p - 1) : t[q] # "no"}) < Cap
    BY <1>1, BelowCap, BoundsAreNumbers DEF T!PeerIds
  <2> QED BY <2>1, SameCardinality DEF T!Cut
<1>2. \A p \in T!PeerIds : T!Cut(t)[p] \in {t[p], "no"}
  BY DEF T!Cut
<1> QED BY <1>1, <1>2 DEF AsSeen, T!Cut, T!Tables

-----------------------------------------------------------------------------
(* Trust.                                                                   *)
LEMMA JudgedEarned ==
    ASSUME TrustInv, NEW p \in TrustPeers, NEW check \in P!Checks,
           NEW e, e = P!Judged(cache[p], check)
    PROVE  /\ e \in [level : P!Levels \cup {"null"}, state : P!Levels \cup {"null", "QUARANTINED"},
                     count : 0..MaxBad, streak : 0..MaxBad, bad : 0..MaxBad]
           /\ e.state = "QUARANTINED" => e.bad >= 3
           /\ e.state = "VERIFIED" => e.bad = 0
           /\ e.count <= e.bad /\ e.streak <= e.bad
<1> DEFINE c == cache[p]
<1>1. /\ c.count \in 0..MaxBad /\ c.streak \in 0..MaxBad /\ c.bad \in 0..MaxBad
      /\ c.count <= c.bad /\ c.streak <= c.bad
  BY DEF TrustInv, P!TypeOK, QuarantineEarned, P!QuarantineEarned
<1>2. MaxBad \in Nat
  BY BoundsAreNumbers
<1> HIDE DEF c
<1>3. CASE e = P!Verified(c)
  BY <1>1, <1>2, <1>3 DEF P!Verified, P!Entry, P!Levels
<1>4. CASE e = P!Unverified(c)
  BY <1>1, <1>2, <1>4 DEF P!Unverified, P!Entry, P!Levels
<1>5. CASE e = P!Invalid(c)
  BY <1>1, <1>2, <1>5 DEF P!Invalid, P!Entry, P!Levels, P!Counted, P!Quarantined
<1> QED BY <1>3, <1>4, <1>5 DEF P!Judged, c

LEMMA TrustInit == ASSUME P!Init PROVE TrustInv
  BY BoundsAreNumbers DEF P!Init, TrustInv, P!TypeOK, QuarantineEarned, P!QuarantineEarned,
     P!Unseen, P!Entry, P!Never

LEMMA TrustStep == ASSUME TrustInv, [P!Next]_trust PROVE TrustInv'
<1> USE BoundsAreNumbers DEF TrustInv
<1>1. ASSUME NEW p \in TrustPeers, NEW check \in P!Checks,
             cache' = [cache EXCEPT ![p] = P!Judged(@, check)], saved' = saved,
             welcomed' \in [TrustPeers -> 0..P!Never]
      PROVE  TrustInv'
  BY <1>1, JudgedEarned DEF P!TypeOK, QuarantineEarned, P!QuarantineEarned
<1>2. ASSUME NEW p \in TrustPeers, P!Presence(p) PROVE TrustInv'
  BY <1>1, <1>2 DEF P!Presence, P!TypeOK
<1>3. ASSUME NEW p \in TrustPeers, P!JoinAnnounce(p) PROVE TrustInv'
  <2>1. welcomed' \in [TrustPeers -> 0..P!Never]
    BY <1>3 DEF P!JoinAnnounce, P!TypeOK, P!Never
  <2> QED BY <1>1, <1>3, <2>1 DEF P!JoinAnnounce, P!Checks
<1>4. CASE P!Save
  BY <1>4 DEF P!Save, P!TypeOK, QuarantineEarned, P!QuarantineEarned
<1>5. CASE P!RestartNode
  BY <1>5 DEF P!RestartNode, P!TypeOK, QuarantineEarned, P!QuarantineEarned, P!Never
<1>6. CASE P!TrustTick
  BY <1>6 DEF P!TrustTick, P!TypeOK, QuarantineEarned, P!QuarantineEarned, P!Never
<1>7. CASE UNCHANGED trust
  BY <1>7 DEF trust, P!TypeOK, QuarantineEarned, P!QuarantineEarned
<1> QED BY <1>2, <1>3, <1>4, <1>5, <1>6, <1>7 DEF P!Next

-----------------------------------------------------------------------------
(* The connection of the process.                                           *)
LEMMA SingletonInit == ASSUME S!Init PROVE SingletonInv
<1>1. S!Live = {}
  BY DEF S!Init, S!Live
<1>2. Tries \in Nat
  BY BoundsAreNumbers
<1>3. S!TypeOK
  <2>1. timer \in BOOLEAN /\ stopping \in BOOLEAN /\ relayUp \in BOOLEAN
    BY DEF S!Init
  <2> QED BY <1>2, <2>1 DEF S!Init, S!TypeOK
<1> QED BY <1>1, <1>3 DEF SingletonInv

LEMMA SingletonStep == ASSUME SingletonInv, [S!Next]_singleton PROVE SingletonInv'
<1> USE BoundsAreNumbers, NoneIsNothing DEF SingletonInv
<1>1. CASE S!Send \/ S!ReconnectTimer \/ S!Stopped \/ S!AlreadyConnected \/ S!DuplicateBlocked
           \/ S!Wake \/ S!RelayEnvironment \/ UNCHANGED singleton
  <2>1. UNCHANGED <<ready, registered, global, active>>
    BY <1>1 DEF S!Send, S!ReconnectTimer, S!Stopped, S!AlreadyConnected, S!DuplicateBlocked, S!Wake,
       S!RelayEnvironment, singleton, S!socketVars
  <2>2. Tries \in Nat
    OBVIOUS
  <2>3. S!TypeOK'
    <3>1. timer' \in BOOLEAN /\ stopping' \in BOOLEAN /\ relayUp' \in BOOLEAN
      BY <1>1 DEF S!Send, S!ReconnectTimer, S!Stopped, S!AlreadyConnected, S!DuplicateBlocked,
         S!Wake, S!RelayEnvironment, singleton, S!TypeOK
    <3>2. conn' \in {"DISCONNECTED", "CONNECTING", "CONNECTED"}
          /\ awaited' \in Wires \cup {None}
          /\ loop' \in {"off", "try", "wait", "sleep"} /\ tries' \in 0..Tries
      <4>1. CASE S!Send \/ S!ReconnectTimer
        <5>1. conn' = conn /\ awaited' = awaited /\ S!Ensured
          BY <4>1 DEF S!Send, S!ReconnectTimer
        <5>2. loop' \in {"try", loop} /\ tries' \in {Tries, tries}
          BY <5>1 DEF S!Ensured
        <5> QED BY <2>2, <5>1, <5>2 DEF S!TypeOK
      <4>2. CASE S!Stopped \/ S!AlreadyConnected
        BY <2>2, <4>2 DEF S!Stopped, S!AlreadyConnected, S!RoundEnded, S!TypeOK
      <4>3. CASE S!DuplicateBlocked \/ S!RelayEnvironment \/ UNCHANGED singleton
        BY <4>3 DEF S!DuplicateBlocked, S!RelayEnvironment, singleton, S!loopVars, S!TypeOK
      <4>4. CASE S!Wake
        <5>1. tries \in 0..Tries /\ awaited \in Wires \cup {None}
          BY DEF S!TypeOK
        <5>2. CASE tries > 1
          <6>1. loop' = "try" /\ tries' = tries - 1 /\ awaited' = awaited /\ conn' = conn
            BY <4>4, <5>2 DEF S!Wake
          <6>2. tries' \in 0..Tries
            BY <2>2, <5>1, <5>2, <6>1
          <6> QED BY <5>1, <6>1, <6>2 DEF S!TypeOK
        <5>3. CASE ~(tries > 1)
          <6>1. loop' = "off" /\ tries' = 0 /\ awaited' = None /\ conn' \in {conn, "DISCONNECTED"}
            BY <4>4, <5>3 DEF S!Wake, S!RoundEnded
          <6>2. 0 \in 0..Tries
            BY <2>2
          <6> QED BY <6>1, <6>2 DEF S!TypeOK
        <5> QED BY <5>2, <5>3
      <4> QED BY <1>1, <4>1, <4>2, <4>3, <4>4
    <3> QED BY <2>1, <3>1, <3>2 DEF S!TypeOK
  <2>4. S!Live' = S!Live /\ stopping' = stopping
    BY <1>1, <2>1 DEF S!Live, S!Send, S!ReconnectTimer, S!Stopped, S!AlreadyConnected,
       S!DuplicateBlocked, S!Wake, S!RelayEnvironment, singleton
  <2>5. loop = "wait" => UNCHANGED <<loop, awaited>>
    BY <1>1 DEF S!Send, S!ReconnectTimer, S!Stopped, S!AlreadyConnected, S!DuplicateBlocked,
       S!Wake, S!RelayEnvironment, singleton, S!Ensured, S!StartsRound, S!loopVars
  <2> QED BY <2>1, <2>3, <2>4, <2>5
<1>2. ASSUME NEW w \in Wires, S!Create(w) PROVE SingletonInv'
  <2>1. S!Live = {}
    BY <1>2 DEF S!Create, S!Blocked, S!Live, S!TypeOK
  <2> QED BY <1>2, <2>1 DEF S!Create, S!Live, S!TypeOK
<1>3. CASE S!Close
  BY <1>3 DEF S!Close, S!Live, S!TypeOK, S!loopVars
<1>4. ASSUME NEW w \in Wires, S!Opens(w) PROVE SingletonInv'
  BY <1>4 DEF S!Opens, S!Live, S!TypeOK, S!loopVars
<1>5. ASSUME NEW w \in Wires, S!RegisterAck(w) PROVE SingletonInv'
  <2> timer' \in BOOLEAN /\ stopping' \in BOOLEAN /\ relayUp' \in BOOLEAN
    BY <1>5 DEF S!RegisterAck, S!TypeOK
  <2>1. S!TypeOK' /\ S!Live' = S!Live /\ UNCHANGED <<ready, global, stopping>> /\ ready[w] = "open"
    <3>1. UNCHANGED <<ready, global, stopping>> /\ ready[w] = "open"
      BY <1>5 DEF S!RegisterAck
    <3>2. S!Live' = S!Live
      BY <3>1 DEF S!Live
    <3>3. /\ loop' \in {"off", "try", "wait", "sleep"} /\ tries' \in 0..Tries
          /\ awaited' \in Wires \cup {None}
      BY <1>5 DEF S!RegisterAck, S!TypeOK, S!loopVars, S!RoundEnded
    <3>4. S!TypeOK'
      BY <1>5, <3>1, <3>3 DEF S!RegisterAck, S!TypeOK
    <3> QED BY <3>1, <3>2, <3>4
  <2>2. ASSUME NEW v \in S!Live, ready[v] = "connecting", awaited = v
        PROVE  UNCHANGED <<loop, awaited>>
    BY <1>5, <2>1, <2>2 DEF S!RegisterAck, S!loopVars
  <2> QED BY <2>1, <2>2
<1>6. ASSUME NEW w \in Wires, w \in S!Live, S!GiveUp(w) PROVE SingletonInv'
  <2>1. S!Live' = {}
    <3>1. ready' = [ready EXCEPT ![w] = "closing"] /\ \A v \in S!Live : v = w
      BY <1>6 DEF S!GiveUp
    <3> QED BY <3>1 DEF S!Live, S!TypeOK
  <2>2. S!TypeOK'
    <3>1. timer' \in BOOLEAN /\ stopping' \in BOOLEAN /\ relayUp' \in BOOLEAN
      BY <1>6 DEF S!GiveUp, S!TypeOK
    <3>2. /\ loop' \in {"off", "try", "wait", "sleep"} /\ tries' \in 0..Tries
          /\ awaited' \in Wires \cup {None}
      BY <1>6 DEF S!GiveUp, S!Failed, S!TypeOK, S!loopVars
    <3> QED BY <1>6, <3>1, <3>2 DEF S!GiveUp, S!Cleared, S!TypeOK
  <2> QED BY <2>1, <2>2
<1>7. ASSUME NEW w \in Wires, S!LostBeforeRegister(w) PROVE SingletonInv'
  BY <1>7 DEF S!LostBeforeRegister, S!Gone, S!Failed, S!Cleared, S!Live, S!TypeOK, S!loopVars
<1>8. ASSUME NEW w \in Wires, S!LostRegistered(w) PROVE SingletonInv'
  <2>1. /\ ready' = [ready EXCEPT ![w] = "none"] /\ registered' = registered \ {w}
        /\ UNCHANGED <<loop, awaited, tries, stopping, relayUp>>
    BY <1>8 DEF S!LostRegistered, S!Gone, S!loopVars
  <2>2. global' \in {global, S!Cleared(w)}
    BY <1>8 DEF S!LostRegistered
  <2>3. S!TypeOK'
    <3>1. timer' \in BOOLEAN /\ stopping' \in BOOLEAN /\ relayUp' \in BOOLEAN
      BY <1>8, <2>1 DEF S!LostRegistered, S!TypeOK
    <3>2. conn' \in {"DISCONNECTED", "CONNECTING", "CONNECTED"} /\ active' \in Wires \cup {None}
      BY <1>8 DEF S!LostRegistered, S!AfterLoss, S!TypeOK
    <3> QED BY <2>1, <2>2, <3>1, <3>2 DEF S!Cleared, S!TypeOK
  <2>4. S!Live' = S!Live \ {w} /\ \A v \in S!Live' : ready'[v] = ready[v]
    BY <2>1 DEF S!Live, S!TypeOK
  <2>5. ASSUME ~stopping', NEW v \in S!Live'
        PROVE  global' = v /\ (ready'[v] = "connecting" => loop' = "wait" /\ awaited' = v)
    <3>1. v \in S!Live /\ v # w /\ ~stopping /\ ready'[v] = ready[v]
      BY <2>1, <2>4, <2>5
    <3>2. global = v /\ (ready[v] = "connecting" => loop = "wait" /\ awaited = v)
      BY <3>1
    <3>3. global' = v
      BY <2>2, <3>1, <3>2 DEF S!Cleared
    <3> QED BY <2>1, <3>1, <3>2, <3>3
  <2> QED BY <2>3, <2>4, <2>5
<1> QED BY <1>1, <1>2, <1>3, <1>4, <1>5, <1>6, <1>7, <1>8
        DEF S!Next, S!Loop, S!SocketEvent, S!RegisterTimeout, S!SocketError

LEMMA SingletonSafe == ASSUME SingletonInv PROVE OnlyOneSocket
<1>1. S!Live = {} \/ \E w \in S!Live : S!Live = {w}
  BY DEF SingletonInv
<1>2. Cardinality(S!Live) \in {0, 1}
  BY <1>1, FS_EmptySet, FS_Singleton
<1> QED BY <1>2, SameCardinality DEF OnlyOneSocket, S!OnlyOneSocket

-----------------------------------------------------------------------------
(* The start of a node.                                                     *)
LEMMA SelectsFew ==
    ASSUME J!TypeOK, NEW n \in J!Joiners
    PROVE  /\ J!SelectPeers(n) \subseteq fetched[n] \ {n}
           /\ J!Cardinality(J!SelectPeers(n)) <= MaxPeers
<1> DEFINE others == fetched[n] \ {n}
<1>1. others \subseteq 1..JoinNodes /\ JoinNodes \in Nat /\ MaxPeers \in Nat
  BY BoundsAreNumbers DEF J!TypeOK, J!Joiners
<1>2. J!SelectPeers(n) = {p \in others : Cardinality({q \in others : q < p}) < MaxPeers}
  BY SameCardinality DEF J!SelectPeers
<1> HIDE DEF others
<1>3. Cardinality(J!SelectPeers(n)) <= MaxPeers
  BY <1>1, <1>2, FirstFew
<1>4. J!SelectPeers(n) \subseteq others
  BY <1>2
<1> QED BY <1>3, <1>4, SameCardinality DEF others

LEMMA JoinInit == ASSUME J!Init PROVE JoinInv
  BY DEF J!Init, JoinInv, J!TypeOK, J!NoFile, ServesJoined, J!ServesJoined, J!Servers

(* A step of one node, while directories take in members, leaves the others *)
(* where they are.                                                          *)
LEMMA OthersJoined ==
    ASSUME JoinInv, NEW n \in J!Joiners, J!TypeOK',
           UNCHANGED autoJoin, \A d \in J!Servers : members[d] \subseteq members'[d],
           \A m \in J!Joiners \ {n} : /\ stage'[m] = stage[m] /\ using'[m] = using[m]
                                      /\ fetched'[m] = fetched[m] /\ refused'[m] = refused[m]
                                     /\ knownPeers'[m] = knownPeers[m],
           stage'[n] # "serving",
           stage'[n] \in {"join", "peers", "persist"} => ~refused'[n],
           stage'[n] \in {"peers", "persist"} => n \in members'[using'[n]],
           stage'[n] = "persist" => fetched'[n] \subseteq members'[using'[n]]
    PROVE  JoinInv'
<1>1. ASSUME NEW m \in J!Joiners, m # n, stage[m] = "serving", autoJoin[m]
      PROVE  /\ ~refused[m] /\ m \in members[knownPeers[m].source]
             /\ knownPeers[m].peers \subseteq members[knownPeers[m].source] \ {m}
             /\ J!Cardinality(knownPeers[m].peers) <= MaxPeers
             /\ knownPeers[m].source \in J!Servers
  <2>1. /\ ~refused[m] /\ m \in members[knownPeers[m].source]
        /\ knownPeers[m].peers \subseteq members[knownPeers[m].source] \ {m}
        /\ J!Cardinality(knownPeers[m].peers) <= MaxPeers
    BY <1>1 DEF JoinInv, ServesJoined, J!ServesJoined
  <2>2. knownPeers[m].source \in J!Servers
    BY <1>1 DEF JoinInv
  <2> QED BY <2>1, <2>2
<1>2. ServesJoined'
  BY <1>1 DEF ServesJoined, J!ServesJoined
<1>3. ASSUME NEW m \in J!Joiners
      PROVE  /\ stage'[m] \in {"join", "peers", "persist"} => ~refused'[m]
             /\ stage'[m] \in {"peers", "persist"} => m \in members'[using'[m]]
             /\ stage'[m] = "persist" => fetched'[m] \subseteq members'[using'[m]]
             /\ stage'[m] = "serving" /\ autoJoin'[m] => knownPeers'[m].source \in J!Servers
  <2>1. CASE m = n
    BY <2>1
  <2>2. CASE m # n
    <3>1. using[m] \in J!Servers
      BY DEF JoinInv, J!TypeOK
    <3> QED BY <2>2, <3>1 DEF JoinInv
  <2> QED BY <2>1, <2>2
<1> QED BY <1>2, <1>3 DEF JoinInv

(* What may come of a request of n to its directory, if s is what follows.  *)
LEMMA Outcome ==
    ASSUME J!TypeOK, NEW n \in J!Joiners, NEW s \in {"peers", "persist"},
           J!GoesOn(n, s) \/ J!NoAnswer(n) \/ J!Reject(n)
    PROVE  /\ stage' \in [J!Joiners -> {"off", "join", "peers", "persist", "failed", "serving"}]
           /\ using' \in [J!Joiners -> J!Servers] /\ refused' \in [J!Joiners -> BOOLEAN]
           /\ \A m \in J!Joiners \ {n} : /\ stage'[m] = stage[m] /\ using'[m] = using[m]
                                         /\ refused'[m] = refused[m]
           /\ J!GoesOn(n, s) => stage'[n] = s /\ using' = using /\ refused' = refused
           /\ J!NoAnswer(n) => stage'[n] \in {"join", "failed"} /\ refused' = refused
           /\ J!Reject(n) => stage'[n] = "failed"
<1> USE DEF J!TypeOK, J!Goto, J!Servers
<1>1. PICK t \in {s, "join", "failed"} : stage' = [stage EXCEPT ![n] = t]
  BY DEF J!GoesOn, J!NoAnswer, J!Reject
<1>2. PICK d \in J!Servers : using' = using \/ using' = [using EXCEPT ![n] = d]
  BY DEF J!GoesOn, J!NoAnswer, J!Reject
<1>3. refused' = refused \/ refused' = [refused EXCEPT ![n] = TRUE]
  BY DEF J!GoesOn, J!NoAnswer, J!Reject
<1>4. /\ stage' \in [J!Joiners -> {"off", "join", "peers", "persist", "failed", "serving"}]
      /\ using' \in [J!Joiners -> J!Servers] /\ refused' \in [J!Joiners -> BOOLEAN]
  <2>1. stage' \in [J!Joiners -> {"off", "join", "peers", "persist", "failed", "serving"}]
    BY <1>1
  <2>2. using' \in [J!Joiners -> J!Servers]
    BY <1>2
  <2>3. refused' \in [J!Joiners -> BOOLEAN]
    BY <1>3
  <2> QED BY <2>1, <2>2, <2>3
<1>5. \A m \in J!Joiners \ {n} :
        stage'[m] = stage[m] /\ using'[m] = using[m] /\ refused'[m] = refused[m]
  BY <1>1, <1>2, <1>3
<1>6. /\ J!GoesOn(n, s) => stage'[n] = s /\ using' = using /\ refused' = refused
      /\ J!NoAnswer(n) => stage'[n] \in {"join", "failed"} /\ refused' = refused
      /\ J!Reject(n) => stage'[n] = "failed"
  BY DEF J!GoesOn, J!NoAnswer, J!Reject
<1> QED BY <1>4, <1>5, <1>6

LEMMA JoinStep == ASSUME JoinInv, [J!Next]_join PROVE JoinInv'
<1> USE DEF JoinInv, J!TypeOK, J!Servers, ServesJoined, J!ServesJoined
<1>1. ASSUME NEW n \in J!Joiners, J!Start(n) PROVE JoinInv'
  BY <1>1 DEF J!Start, J!Goto
<1>2. ASSUME NEW n \in J!Joiners, J!Join(n) PROVE JoinInv'
  <2>1. UNCHANGED <<protocol, autoJoin, fetched, knownPeers>> /\ stage[n] = "join"
    BY <1>2 DEF J!Join
  <2>2. /\ members' \in [J!Servers -> SUBSET J!Joiners]
        /\ \A d \in J!Servers : members[d] \subseteq members'[d]
    <3>1. members' = members \/ members' = [members EXCEPT ![using[n]] = @ \cup {n}]
      BY <1>2 DEF J!Join
    <3>2. using[n] \in J!Servers /\ members \in [J!Servers -> SUBSET J!Joiners]
      OBVIOUS
    <3> HIDE DEF JoinInv, J!TypeOK
    <3> QED BY <3>1, <3>2
  <2>3. \/ J!GoesOn(n, "peers") /\ n \in members'[using[n]]
        \/ J!NoAnswer(n)
        \/ J!Reject(n)
    <3>1. CASE /\ members' = [members EXCEPT ![using[n]] = @ \cup {n}]
               /\ J!GoesOn(n, "peers") \/ J!NoAnswer(n)
      BY <3>1
    <3>2. CASE J!NoAnswer(n) \/ J!Reject(n)
      BY <3>2
    <3> QED BY <1>2, <3>1, <3>2 DEF J!Join
  <2> HIDE DEF JoinInv, J!TypeOK, ServesJoined, J!ServesJoined
  <2>4. ~refused[n] /\ J!TypeOK
    BY <2>1 DEF JoinInv
  <2>5. J!TypeOK'
    BY <2>1, <2>2, <2>3, <2>4, Outcome DEF J!TypeOK
  <2> QED BY <2>1, <2>2, <2>3, <2>4, <2>5, Outcome, OthersJoined
<1>3. ASSUME NEW n \in J!Joiners, J!GetPeers(n) PROVE JoinInv'
  <2>1. UNCHANGED <<protocol, autoJoin, members, knownPeers>> /\ stage[n] = "peers"
    BY <1>3 DEF J!GetPeers
  <2>2. /\ fetched' \in [J!Joiners -> SUBSET J!Joiners]
        /\ \A m \in J!Joiners \ {n} : fetched'[m] = fetched[m]
    <3>1. fetched' = fetched \/ fetched' = [fetched EXCEPT ![n] = members[using[n]]]
      BY <1>3 DEF J!GetPeers
    <3>2. members[using[n]] \in SUBSET J!Joiners /\ fetched \in [J!Joiners -> SUBSET J!Joiners]
      OBVIOUS
    <3> HIDE DEF JoinInv, J!TypeOK
    <3> QED BY <3>1, <3>2
  <2>3. \/ J!GoesOn(n, "persist") /\ fetched'[n] = members[using[n]]
        \/ J!NoAnswer(n)
        \/ J!Reject(n)
    <3>1. CASE J!GoesOn(n, "persist") /\ fetched' = [fetched EXCEPT ![n] = members[using[n]]]
      BY <3>1
    <3> QED BY <1>3, <3>1 DEF J!GetPeers
  <2> HIDE DEF JoinInv, J!TypeOK, ServesJoined, J!ServesJoined
  <2>4. ~refused[n] /\ n \in members[using[n]] /\ J!TypeOK
    BY <2>1 DEF JoinInv
  <2>5. J!TypeOK'
    BY <2>1, <2>2, <2>3, <2>4, Outcome DEF J!TypeOK
  <2> QED BY <2>1, <2>2, <2>3, <2>4, <2>5, Outcome, OthersJoined
<1>4. ASSUME NEW n \in J!Joiners, J!Persist(n) PROVE JoinInv'
  <2>1. CASE UNCHANGED knownPeers /\ J!Goto(n, "failed")
    BY <1>4, <2>1 DEF J!Persist, J!Goto
  <2>2. CASE /\ knownPeers' = [knownPeers EXCEPT ![n] =
                                [source |-> using[n], peers |-> J!SelectPeers(n)]]
             /\ J!Goto(n, "serving")
    <3>1. J!SelectPeers(n) \subseteq fetched[n] \ {n} /\ J!Cardinality(J!SelectPeers(n)) <= MaxPeers
      BY SelectsFew
    <3>2. UNCHANGED <<protocol, members, autoJoin, using, fetched, refused>> /\ stage[n] = "persist"
      BY <1>4 DEF J!Persist
    <3>3. J!TypeOK'
      BY <2>2, <3>1, <3>2 DEF J!Goto
    <3>4. stage' = [stage EXCEPT ![n] = "serving"]
      BY <2>2 DEF J!Goto
    <3>5. \A m \in J!Joiners \ {n} : stage'[m] = stage[m] /\ knownPeers'[m] = knownPeers[m]
      BY <2>2, <3>4
    <3>6. /\ stage'[n] = "serving" /\ knownPeers'[n].source = using[n]
          /\ knownPeers'[n].peers = J!SelectPeers(n)
      BY <2>2, <3>4
    <3>7. ~refused[n] /\ n \in members[using[n]] /\ fetched[n] \subseteq members[using[n]]
      BY <3>2
    <3> HIDE DEF J!TypeOK, JoinInv, ServesJoined, J!ServesJoined
    <3>8. ASSUME NEW m \in J!Joiners, stage'[m] = "serving", autoJoin'[m]
          PROVE  /\ ~refused'[m] /\ m \in members'[knownPeers'[m].source]
                 /\ knownPeers'[m].peers \subseteq members'[knownPeers'[m].source] \ {m}
                 /\ J!Cardinality(knownPeers'[m].peers) <= MaxPeers
                 /\ knownPeers'[m].source \in J!Servers
      <4>1. CASE m = n
        <5>1. using[n] \in J!Servers
          BY DEF JoinInv, J!TypeOK
        <5> QED BY <3>1, <3>2, <3>6, <3>7, <4>1, <5>1
      <4>2. CASE m # n
        BY <3>2, <3>5, <3>8, <4>2 DEF JoinInv, ServesJoined, J!ServesJoined
      <4> QED BY <4>1, <4>2
    <3>9. ServesJoined'
      BY <3>8 DEF ServesJoined, J!ServesJoined
    <3> QED BY <3>2, <3>3, <3>5, <3>6, <3>8, <3>9 DEF JoinInv
  <2> QED BY <1>4, <2>1, <2>2 DEF J!Persist
<1>5. ASSUME NEW n \in J!Joiners, J!Stop(n) PROVE JoinInv'
  <2>1. /\ stage' = [stage EXCEPT ![n] = "off"]
        /\ UNCHANGED <<protocol, members, autoJoin, using, fetched, refused, knownPeers>>
    BY <1>5 DEF J!Stop, J!Goto
  <2>2. J!TypeOK'
    BY <2>1
  <2>3. \A m \in J!Joiners : stage'[m] \in {stage[m], "off"}
    BY <2>1
  <2> HIDE DEF J!TypeOK
  <2> QED BY <2>1, <2>2, <2>3
<1>6. CASE UNCHANGED join
  BY <1>6 DEF join
<1> QED BY <1>1, <1>2, <1>3, <1>4, <1>5, <1>6 DEF J!Next

-----------------------------------------------------------------------------
(* The peer table.                                                          *)
LEMMA PeersInit == ASSUME T!Init PROVE PeersInv
  BY NoneIsNothing, NamesAreNodes
     DEF T!Init, PeersInv, AsSeen, T!TypeOK, T!Tables, T!PeerIds, T!Discovered, T!Activities

LEMMA MergedSees ==
    ASSUME PeersInv, NEW told \in SUBSET T!PeerIds PROVE AsSeen(T!Merged(table, told))
<1> DEFINE t == [p \in T!PeerIds |-> IF table[p] = "no" /\ p \in told THEN "off" ELSE table[p]]
<1>1. AsSeen(t)
  BY DEF PeersInv, AsSeen, T!Tables
<1> QED BY <1>1, CutSees DEF T!Merged

LEMMA PeersStep == ASSUME PeersInv, [T!Next]_peers PROVE PeersInv'
<1> USE NoneIsNothing, NamesAreNodes DEF PeersInv, T!TypeOK
<1>1. CASE T!DirectoryRestarts \/ (\E p \in CardPublishers : T!PublishAgentCard(p)) \/ UNCHANGED peers
  BY <1>1 DEF T!DirectoryRestarts, T!PublishAgentCard, peers, AsSeen, T!PeerIds
<1>2. ASSUME NEW p \in T!PeerIds, T!JoinRelay(p) \/ T!LeaveRelay(p) PROVE PeersInv'
  BY <1>2 DEF T!JoinRelay, T!LeaveRelay, T!Shaken, AsSeen
<1>3. ASSUME NEW a \in T!Activities, NEW t, T!Builds(a, t), AsSeen(t)',
             UNCHANGED <<agents, onRelay, table>>,
             past' = past \/ past' = [p \in T!PeerIds |-> T!Shaken(p)]
      PROVE  PeersInv'
  BY <1>3 DEF T!Builds, T!Shaken, AsSeen, T!Tables
<1>4. CASE T!Refresh
  <2>1. PICK listed \in {agents, {}}, answers \in BOOLEAN :
          /\ T!Builds("loop", T!Discovered(listed, IF answers THEN onRelay ELSE {}))
          /\ past' = IF answers THEN past ELSE [p \in T!PeerIds |-> T!Shaken(p)]
    BY <1>4 DEF T!Refresh
  <2>2. AsSeen(T!Discovered(listed, IF answers THEN onRelay ELSE {}))'
    BY <1>4, <2>1 DEF T!Refresh, AsSeen, T!Discovered, T!Tables, T!Shaken
  <2> QED BY <1>3, <1>4, <2>1, <2>2 DEF T!Refresh, T!Activities
<1>5. CASE T!ReceivePeerGossip
  <2>1. PICK t : T!Builds("listener", t) /\ AsSeen(t)
    BY <1>5, MergedSees DEF T!ReceivePeerGossip
  <2>2. UNCHANGED <<agents, onRelay, table, past>>
    BY <1>5 DEF T!ReceivePeerGossip
  <2>3. AsSeen(t)'
    BY <2>1, <2>2 DEF AsSeen
  <2> QED BY <1>3, <2>1, <2>2, <2>3 DEF T!Activities
<1>6. CASE T!RecordTaskExecuted
  <2> DEFINE cut == T!Cut(table)
  <2>1. UNCHANGED <<agents, onRelay, table, past>>
    BY <1>6 DEF T!RecordTaskExecuted
  <2>2. PICK t : /\ T!Builds("loop", t)
                 /\ t = cut \/ (t = [cut EXCEPT ![Self] = "off"] /\ table[Self] = "no")
    <3> DEFINE full == T!Cardinality({p \in T!PeerIds : cut[p] # "no"}) >= Cap
               t == IF table[Self] = "no" /\ ~full THEN [cut EXCEPT ![Self] = "off"] ELSE cut
    <3>1. T!Builds("loop", t)
      BY <1>6 DEF T!RecordTaskExecuted
    <3> QED BY <3>1
  <2>3. AsSeen(cut)
    BY CutSees
  <2>4. AsSeen(t)
    BY <2>2, <2>3 DEF AsSeen, T!Tables
  <2>5. AsSeen(t)'
    BY <2>1, <2>4 DEF AsSeen
  <2> QED BY <1>3, <2>1, <2>2, <2>5 DEF T!Activities
<1>7. ASSUME NEW a \in T!Activities, T!SavePeers(a) \/ T!NotSaved(a) PROVE PeersInv'
  BY <1>7 DEF T!SavePeers, T!NotSaved, AsSeen
<1> QED BY <1>1, <1>2, <1>4, <1>5, <1>6, <1>7 DEF T!Next

LEMMA PeersSafe == ASSUME PeersInv PROVE T!PeersAsSeen
  BY BoundsAreNumbers DEF PeersInv, AsSeen, T!PeersAsSeen, T!Orphan, T!Targetable, T!PeerIds

-----------------------------------------------------------------------------
(* The directory.                                                           *)
LEMMA FileType ==
    ASSUME NEW file
    PROVE  file \in D!Files <=> /\ DOMAIN file \subseteq DirectoryNodes
                                /\ file \in [DOMAIN file -> D!Records]
  BY DEF D!Files

LEMMA DirectoryInit == ASSUME D!Init PROVE DirectoryInv
<1>1. registry \in D!Files /\ Honest(registry)
  BY FileType DEF D!Init, D!EmptyFile, Honest
<1>2. heard \in [DirectoryNodes -> D!Ages]
  BY BoundsAreNumbers DEF D!Init, D!Old, D!Ages
<1> QED BY <1>1, <1>2 DEF D!Init, DirectoryInv

(* A request writes what it read, with the record of one node.              *)
LEMMA RewrittenHonest ==
    ASSUME DirectoryInv, NEW r \in requests
    PROVE  D!Rewritten(r) \in D!Files /\ Honest(D!Rewritten(r))
<1>1. /\ r.node \in DirectoryNodes /\ r.brings \in BOOLEAN /\ r.age \in D!Ages
      /\ r.file \in D!Files /\ r.age >= heard[r.node] /\ Honest(r.file)
  BY DEF DirectoryInv
<1>2. DOMAIN r.file \subseteq DirectoryNodes /\ r.file \in [DOMAIN r.file -> D!Records]
  BY <1>1, FileType
<1>3. D!Record(r) \in D!Records /\ D!Record(r).age = r.age
  BY <1>1 DEF D!Record, D!Records
<1> QED BY <1>1, <1>2, <1>3, FileType DEF Honest, D!Rewritten

LEMMA LaterIsLater ==
    ASSUME NEW a \in D!Ages
    PROVE  /\ D!Later(a) \in D!Ages
           /\ \A b \in D!Ages : a >= b => D!Later(a) >= D!Later(b)
  BY BoundsAreNumbers DEF D!Ages, D!Old, D!Later

LEMMA AgedHonest ==
    ASSUME NEW file \in D!Files, Honest(file), heard \in [DirectoryNodes -> D!Ages],
           heard' = [n \in DirectoryNodes |-> D!Later(heard[n])]
    PROVE  D!Aged(file) \in D!Files /\ Honest(D!Aged(file))'
<1>1. DOMAIN file \subseteq DirectoryNodes /\ file \in [DOMAIN file -> D!Records]
  BY FileType
<1>2. ASSUME NEW n \in DOMAIN file
      PROVE  /\ D!Aged(file)[n] \in D!Records
             /\ D!Aged(file)[n].age >= heard'[n]
  <2>1. n \in DirectoryNodes /\ file[n] \in D!Records /\ file[n].age >= heard[n]
    BY <1>1 DEF Honest
  <2>2. D!Aged(file)[n] = [file[n] EXCEPT !.age = D!Later(@)]
    BY DEF D!Aged
  <2> QED BY <2>1, <2>2, LaterIsLater DEF D!Records
<1>3. D!Aged(file) \in D!Files
  BY <1>1, <1>2, FileType DEF D!Aged
<1> QED BY <1>2, <1>3 DEF Honest, D!Aged

LEMMA DirectoryStep == ASSUME DirectoryInv, [D!Next]_directory PROVE DirectoryInv'
<1> USE DEF DirectoryInv
<1>1. ASSUME NEW n \in DirectoryNodes, NEW brings \in BOOLEAN, D!Stamp(n, brings)
      PROVE  DirectoryInv'
  <2>1. 0 \in D!Ages /\ \A a \in D!Ages : a \in Nat
    BY BoundsAreNumbers DEF D!Ages, D!Old
  <2>2. heard' = [heard EXCEPT ![n] = 0] /\ UNCHANGED registry
    BY <1>1 DEF D!Stamp
  <2>3. heard' \in [DirectoryNodes -> D!Ages]
        /\ \A m \in DirectoryNodes : heard[m] \in Nat /\ heard'[m] \in {heard[m], 0}
    BY <2>1, <2>2
  <2>4. ASSUME NEW file \in D!Files, Honest(file) PROVE Honest(file)'
    <3>1. DOMAIN file \subseteq DirectoryNodes /\ file \in [DOMAIN file -> D!Records]
      BY FileType
    <3> QED BY <2>1, <2>3, <2>4, <3>1 DEF Honest, D!Records
  <2>5. requests' = requests \cup {[node |-> n, brings |-> brings, age |-> 0, file |-> registry]}
    BY <1>1 DEF D!Stamp
  <2>6. ASSUME NEW r \in requests'
        PROVE  /\ r \in [node : DirectoryNodes, brings : BOOLEAN, age : D!Ages, file : D!Files]
               /\ r.age >= heard'[r.node] /\ Honest(r.file)'
    <3>1. CASE r \in requests
      BY <2>1, <2>3, <2>4, <3>1
    <3>2. CASE r = [node |-> n, brings |-> brings, age |-> 0, file |-> registry]
      BY <2>1, <2>2, <2>4, <3>2
    <3> QED BY <2>5, <3>1, <3>2
  <2> QED BY <2>2, <2>3, <2>4, <2>6
<1>2. ASSUME NEW r \in requests, D!WriteRegistry(r) PROVE DirectoryInv'
  BY <1>2, RewrittenHonest DEF D!WriteRegistry, Honest
<1>3. CASE D!RestartServer \/ (\E r \in requests : D!FailRequest(r)) \/ UNCHANGED directory
  BY <1>3 DEF D!RestartServer, D!FailRequest, directory, Honest
<1>4. CASE D!DirectoryTick
  <2>1. heard' = [n \in DirectoryNodes |-> D!Later(heard[n])] /\ heard' \in [DirectoryNodes -> D!Ages]
    BY <1>4, LaterIsLater DEF D!DirectoryTick
  <2>2. registry' \in D!Files /\ Honest(registry)'
    BY <1>4, <2>1, AgedHonest DEF D!DirectoryTick, Honest
  <2>3. ASSUME NEW q \in requests'
        PROVE  /\ q \in [node : DirectoryNodes, brings : BOOLEAN, age : D!Ages, file : D!Files]
               /\ q.age >= heard'[q.node] /\ Honest(q.file)'
    <3>1. PICK r \in requests : q = [r EXCEPT !.age = D!Later(@), !.file = D!Aged(@)]
      BY <1>4 DEF D!DirectoryTick
    <3>2. /\ q.node = r.node /\ q.age = D!Later(r.age) /\ q.file = D!Aged(r.file)
          /\ q = [node |-> r.node, brings |-> r.brings, age |-> q.age, file |-> q.file]
          /\ r.node \in DirectoryNodes /\ r.brings \in BOOLEAN /\ r.age \in D!Ages /\ r.file \in D!Files
          /\ r.age >= heard[r.node]
      BY <3>1
    <3>3. q.file \in D!Files /\ Honest(q.file)'
      BY <2>1, <3>2, AgedHonest
    <3>4. q.age \in D!Ages /\ q.age >= heard'[q.node]
      BY <2>1, <3>2, LaterIsLater
    <3> QED BY <3>2, <3>3, <3>4
  <2> QED BY <2>1, <2>2, <2>3
<1> QED BY <1>1, <1>2, <1>3, <1>4 DEF D!Next, D!Publish, D!Heartbeat, D!Brings

LEMMA DirectorySafe == ASSUME DirectoryInv PROVE D!NobodyKeptAlive /\ D!TypeOK
<1>1. DOMAIN registry \subseteq DirectoryNodes /\ registry \in [DOMAIN registry -> D!Records]
  BY FileType DEF DirectoryInv
<1>2. \A a \in D!Ages : a \in Nat
  BY BoundsAreNumbers DEF D!Ages, D!Old
<1>3. \A n \in D!Peers : heard[n] <= Timeout
  BY <1>1, <1>2, BoundsAreNumbers DEF D!Peers, DirectoryInv, Honest, D!Records
<1> QED BY <1>3 DEF D!NobodyKeptAlive, D!TypeOK, DirectoryInv

-----------------------------------------------------------------------------
(* Gossip: a node is never a peer of itself.                                *)
LEMMA GossipInit == ASSUME G!Init PROVE G!TypeOK
  BY DEF G!Init, G!TypeOK

LEMMA GossipStep == ASSUME G!TypeOK, [G!Next]_gossip PROVE G!TypeOK'
<1> USE NamesAreNodes DEF G!TypeOK
<1>1. ASSUME NEW n \in GossipNodes, G!StartNode(n) PROVE G!TypeOK'
  BY <1>1 DEF G!StartNode
<1>2. ASSUME NEW n \in GossipNodes, G!StopNode(n) \/ G!SavePeers(n) PROVE G!TypeOK'
  BY <1>2 DEF G!StopNode, G!SavePeers
<1>3. ASSUME NEW n \in GossipNodes, NEW to \in GossipNodes, G!Gossip(n, to) PROVE G!TypeOK'
  BY <1>3 DEF G!Gossip, G!Merged, G!GossipPeers
<1>4. CASE UNCHANGED gossip
  BY <1>4 DEF gossip
<1> QED BY <1>1, <1>2, <1>3, <1>4 DEF G!Next

-----------------------------------------------------------------------------
(* The encounter.                                                           *)
LEMMA EncounterInit == ASSUME E!Init PROVE EncounterInv
  BY BoundsAreNumbers
     DEF E!Init, EncounterInv, E!TypeOK, E!FreshSession, E!States, FriendsWereProbed,
         E!FriendsWereProbed

(* Machine A sends payloads. *)
LEMMA PlansArePayloads ==
    ASSUME harness \in E!Harnesses, NEW p \in E!Plans PROVE p \in Seq(E!Payloads)
<1>1. \A k \in E!Kinds, s \in E!ProbeSessions :
        E!Probe(k, s) \in E!Payloads /\ \A c \in E!Confirms : E!Confirming(s, c) \in E!Payloads
  BY DEF E!Probe, E!Confirming, E!Payloads, E!Kinds, E!Confirms
<1>2. E!Phase3Plan \in Seq(E!Payloads)
  BY <1>1 DEF E!Phase3Plan, E!Kinds, E!ProbeSessions
<1>3. E!FriendshipPlan \in Seq(E!Payloads)
  <2>1. "s1" \in E!ProbeSessions /\ {"local", "remote"} \in E!Confirms /\ {"remote"} \in E!Confirms
    BY DEF E!ProbeSessions, E!Confirms
  <2>2. "ACK" \in E!Kinds
    BY DEF E!Kinds
  <2>3. /\ E!Confirming("s1", {"local", "remote"}) \in E!Payloads
        /\ E!Confirming("s1", {"remote"}) \in E!Payloads
    BY <1>1, <2>1, <2>2
  <2> QED BY <2>3 DEF E!FriendshipPlan
<1>4. ASSUME NEW a PROVE E!DiscoveryPlan(a) \in Seq(E!Payloads) /\ E!ConversationPlan(a) \in Seq(E!Payloads)
  BY <1>1 DEF E!DiscoveryPlan, E!ConversationPlan, E!DiscoveryProbe, E!ConversationProbe, E!Kinds,
     E!ProbeSessions
<1> QED BY <1>2, <1>3, <1>4 DEF E!Plans, E!Harnesses

LEMMA EncounterStep == ASSUME EncounterInv, [E!Next]_encounter PROVE EncounterInv'
<1> USE DEF EncounterInv
<1>1. ASSUME plan' \in Seq(E!Payloads), probes' \in Seq(E!Payloads), runsOfA' \in 0..MaxRuns,
             UNCHANGED <<harness, held, candidates, friendships, opened>>
      PROVE  EncounterInv'
  BY <1>1 DEF E!TypeOK, FriendsWereProbed, E!FriendsWereProbed
<1>2. CASE E!RunA
  <2>1. plan' \in Seq(E!Payloads)
    BY <1>2, PlansArePayloads DEF E!RunA, E!TypeOK
  <2>2. UNCHANGED <<harness, probes, held, candidates, friendships, opened>>
    BY <1>2 DEF E!RunA
  <2>3. probes' \in Seq(E!Payloads)
    BY <2>2 DEF E!TypeOK
  <2>4. runsOfA' \in 0..MaxRuns
    BY <1>2, BoundsAreNumbers DEF E!RunA, E!TypeOK
  <2> QED BY <1>1, <2>1, <2>2, <2>3, <2>4
<1>3. CASE E!Send
  <2>1. plan \in Seq(E!Payloads) /\ probes \in Seq(E!Payloads) /\ plan # <<>>
    BY <1>3 DEF E!Send, E!TypeOK
  <2>2. Head(plan) \in E!Payloads /\ Tail(plan) \in Seq(E!Payloads)
    BY <2>1
  <2>3. Append(probes, Head(plan)) \in Seq(E!Payloads)
    BY <2>1, <2>2
  <2> QED BY <1>1, <1>3, <2>1, <2>2, <2>3 DEF E!Send, E!TypeOK
<1>4. CASE E!Receive
  <2> DEFINE m == E!NextProbe
             next == E!Applied(E!Base(m), m)
             probing == next.state = "PROBING"
             ok == next # E!Illegal /\ ~(probing /\ E!Refused(m))
  <2>1. /\ probes # <<>> /\ probes' = Tail(probes) /\ UNCHANGED <<harness, plan, runsOfA>>
        /\ held' = IF ok /\ harness # "friendship" THEN next ELSE held
        /\ opened' = IF next.state = "LOCAL_ENTERED" THEN opened \cup {m.session} ELSE opened
        /\ candidates' = IF probing /\ ok THEN candidates \cup {E!Candidate(m)} ELSE candidates
        /\ friendships' = IF probing /\ ok /\ E!Befriends(m) THEN friendships \cup {m.session}
                                                             ELSE friendships
    BY <1>4 DEF E!Receive
  <2>2. probes \in Seq(E!Payloads) /\ harness \in E!Harnesses
    BY DEF E!TypeOK
  <2>3. m \in E!Payloads /\ probes' \in Seq(E!Payloads)
    BY <2>1, <2>2 DEF E!NextProbe
  <2>4. m.session \in E!ProbeSessions /\ m.confirm \in E!Confirms
    BY <2>3 DEF E!Payloads
  <2>5. \/ next = E!Illegal
        \/ next = [session |-> m.session, state |-> "LOCAL_ENTERED"]
        \/ /\ next = [session |-> m.session, state |-> "PROBING"]
           /\ harness # "friendship" => m.session \in opened
    <3>1. E!NoSession \notin E!ProbeSessions
      BY DEF E!NoSession, E!ProbeSessions
    <3>2. CASE harness = "friendship"
      BY <3>2 DEF E!Applied
    <3>3. CASE harness # "friendship"
      <4>1. E!Base(m) \in {held, E!FreshSession}
        BY <2>2, <3>3 DEF E!Base, E!Phase3Base, E!HandoffBase, E!Harnesses
      <4>2. CASE E!Base(m) = E!FreshSession
        BY <4>2 DEF E!Applied, E!FreshSession
      <4>3. CASE E!Base(m) = held
        <5>1. held.state = "LOCAL_ENTERED" => held.session \in opened /\ opened \subseteq E!ProbeSessions
          BY <3>3 DEF E!TypeOK
        <5> QED BY <3>1, <4>3, <5>1 DEF E!Applied
      <4> QED BY <4>1, <4>2, <4>3
    <3> QED BY <3>2, <3>3
  <2> HIDE DEF m, next
  <2>6. E!TypeOK'
    <3>1. E!Candidate(m) \in [session : E!ProbeSessions, confirmed : E!Confirms]
      BY <2>4 DEF E!Candidate
    <3>2. held' \in [session : E!ProbeSessions \cup {E!NoSession}, state : E!States]
      BY <2>1, <2>4, <2>5 DEF E!TypeOK, E!States, E!Illegal
    <3>3. candidates' \subseteq [session : E!ProbeSessions, confirmed : E!Confirms]
      BY <2>1, <3>1 DEF E!TypeOK
    <3>4. friendships' \subseteq E!ProbeSessions /\ opened' \subseteq E!ProbeSessions
      BY <2>1, <2>4 DEF E!TypeOK
    <3> QED BY <2>1, <2>3, <3>2, <3>3, <3>4 DEF E!TypeOK
  <2>7. opened \subseteq opened' /\ candidates \subseteq candidates'
    BY <2>1
  <2>8. FriendsWereProbed'
    <3>1. ASSUME harness' # "friendship", NEW c \in candidates' PROVE c.session \in opened'
      <4>1. CASE c \in candidates
        BY <2>1, <2>7, <3>1, <4>1 DEF FriendsWereProbed, E!FriendsWereProbed
      <4>2. CASE c = E!Candidate(m) /\ probing /\ ok
        BY <2>1, <2>5, <2>7, <3>1, <4>2 DEF E!Candidate
      <4> QED BY <2>1, <3>1, <4>1, <4>2
    <3>2. ASSUME NEW s \in friendships'
          PROVE  \E c \in candidates' : c.session = s /\ c.confirmed = {"local", "remote"}
      <4>1. CASE s \in friendships
        BY <2>7, <4>1 DEF FriendsWereProbed, E!FriendsWereProbed
      <4>2. CASE s = m.session /\ probing /\ ok /\ E!Befriends(m)
        <5>1. E!Candidate(m) \in candidates'
          BY <2>1, <4>2
        <5>2. m.confirm = {"local", "remote"}
          BY <2>4, <4>2 DEF E!Confirms, E!Refused, E!LocallyConfirmed, E!Befriends
        <5> QED BY <4>2, <5>1, <5>2 DEF E!Candidate
      <4> QED BY <2>1, <3>2, <4>1, <4>2
    <3> QED BY <3>1, <3>2 DEF FriendsWereProbed, E!FriendsWereProbed
  <2>9. harness' # "friendship" =>
          (held'.state \in {"LOCAL_ENTERED", "PROBING"} => held'.session \in opened')
    BY <2>1, <2>5, <2>7 DEF E!Illegal
  <2> QED BY <2>1, <2>6, <2>8, <2>9
<1>5. CASE E!RestartB
  BY <1>5 DEF E!RestartB, E!TypeOK, E!FreshSession, E!States, FriendsWereProbed,
     E!FriendsWereProbed
<1>6. CASE UNCHANGED encounter
  BY <1>6 DEF encounter, E!TypeOK, FriendsWereProbed, E!FriendsWereProbed
<1> QED BY <1>2, <1>3, <1>4, <1>5, <1>6 DEF E!Next

-----------------------------------------------------------------------------
(* The relays.                                                              *)
RP == INSTANCE RelayServerV2Proofs
RP1 == INSTANCE RelayServerV2Proofs WITH
         RelayNodes <- V1Nodes, Sessions <- {V1Session}, MaxClock <- 0

LEMMA RelayConstants == RP!Constants
  BY NoneIsNothing, BoundsAreNumbers DEF RP!Constants, RP!Keys, RP!Entries

LEMMA SameRelay ==
    /\ R!Init => RP!Init
    /\ [R!Next]_relay => [RP!Next]_(RP!relayVars)
    /\ RP!TypeOK => R!TypeOK
    /\ RP!RouteIsLive => R!RouteIsLive
<1>1. R!Init => RP!Init
  BY DEF R!Init, RP!Init, R!Keys, RP!Keys
<1>2. [R!Next]_relay => [RP!Next]_(RP!relayVars)
  BY DEF R!Next, RP!Next, relay, RP!relayVars, R!Upgrade, RP!Upgrade, R!CloseFrame, RP!CloseFrame,
     R!Breaks, RP!Breaks, R!CloseEvent, RP!CloseEvent, R!CloseEventCareless, RP!CloseEventCareless,
     R!Register, RP!Register, R!RelayClock, RP!RelayClock, R!Receives, RP!Receives,
     R!CleanedUp, RP!CleanedUp, R!Cleanup, RP!Cleanup, R!Recomputed, RP!Recomputed,
     R!Best, RP!Best, R!SessionsOf, RP!SessionsOf, R!Has, RP!Has, R!Replaced, RP!Replaced
<1>3. RP!TypeOK => R!TypeOK
  BY DEF R!TypeOK, RP!TypeOK, R!Keys, RP!Keys
<1>4. RP!RouteIsLive => R!RouteIsLive
  BY DEF R!RouteIsLive, RP!RouteIsLive, R!SessionsOf, RP!SessionsOf, R!Best, RP!Best, R!Has, RP!Has,
     R!Dropped, RP!Dropped, R!Routed, RP!Routed
<1> QED BY <1>1, <1>2, <1>3, <1>4

LEMMA RelayV1Constants ==
    /\ RP1!Constants
    /\ None \notin V1Nodes \cup Sockets
  BY NoneIsNothing DEF RP1!Constants, RP1!Keys, RP1!Entries

LEMMA SameRelayV1 ==
    /\ R1!Init => RP1!Init
    /\ [R1!Next]_relay => [RP1!Next]_(RP1!relayVars)
    /\ RP1!TypeOK => R1!TypeOK
    /\ RP1!RouteIsLive => R1!RouteIsLive
<1>1. R1!Init => RP1!Init
  BY DEF R1!Init, RP1!Init, R1!Keys, RP1!Keys
<1>2. [R1!Next]_relay => [RP1!Next]_(RP1!relayVars)
  BY DEF R1!Next, RP1!Next, relay, RP1!relayVars, R1!Upgrade, RP1!Upgrade, R1!CloseFrame, RP1!CloseFrame,
     R1!Breaks, RP1!Breaks, R1!CloseEvent, RP1!CloseEvent, R1!CloseEventCareless, RP1!CloseEventCareless,
     R1!Register, RP1!Register, R1!RelayClock, RP1!RelayClock, R1!Receives, RP1!Receives,
     R1!CleanedUp, RP1!CleanedUp, R1!Cleanup, RP1!Cleanup, R1!Recomputed, RP1!Recomputed,
     R1!Best, RP1!Best, R1!SessionsOf, RP1!SessionsOf, R1!Has, RP1!Has, R1!Replaced, RP1!Replaced
<1>3. RP1!TypeOK => R1!TypeOK
  BY DEF R1!TypeOK, RP1!TypeOK, R1!Keys, RP1!Keys
<1>4. RP1!RouteIsLive => R1!RouteIsLive
  BY DEF R1!RouteIsLive, RP1!RouteIsLive, R1!SessionsOf, RP1!SessionsOf, R1!Best, RP1!Best,
     R1!Has, RP1!Has, R1!Dropped, RP1!Dropped, R1!Routed, RP1!Routed
<1> QED BY <1>1, <1>2, <1>3, <1>4

LEMMA SameV1 ==
    ASSUME [RP1!V1!Next]_(RP1!V1!v1Vars) PROVE [V1!Next]_(V1!v1Vars)
  BY DEF RP1!V1!Next, V1!Next, RP1!V1!v1Vars, V1!v1Vars, RP1!SocketOf, RP1!NodeIdOf, RP1!StateOf,
     RP1!V1!Upgrade, V1!Upgrade, RP1!V1!CloseFrame, V1!CloseFrame, RP1!V1!Breaks, V1!Breaks,
     RP1!V1!CloseEvent, V1!CloseEvent, RP1!V1!Register, V1!Register, RP1!V1!CleanedUp, V1!CleanedUp

(* One step of either relay. *)
LEMMA RelayStep == ASSUME RP!Inv, [R!Next]_relay PROVE RP!Inv'
  BY RelayConstants, SameRelay, RP!StepInv
LEMMA RelayV1Step ==
    ASSUME RP1!Inv, [R1!Next]_relay PROVE RP1!Inv' /\ [V1!Next]_(V1!v1Vars)
<1>1. RP1!Inv'
  BY RelayV1Constants, SameRelayV1, RP1!StepInv
<1>2. [RP1!V1!Next]_(RP1!V1!v1Vars)
  BY <1>1, RelayV1Constants, SameRelayV1, RP1!MapsStep
<1> QED BY <1>1, <1>2, SameV1

-----------------------------------------------------------------------------
(* The network: whichever part runs takes a step of its own, and the others *)
(* take none.                                                               *)
Inv ==
    /\ DirectoryInv /\ TrustInv /\ G!TypeOK /\ SingletonInv /\ JoinInv /\ EncounterInv /\ PeersInv
    /\ IF part = "relay v1" THEN RP1!Inv ELSE RP!Inv

LEMMA StepOfParts ==
    ASSUME [Next]_vars
    PROVE  /\ [D!Next]_directory /\ [P!Next]_trust /\ [G!Next]_gossip /\ [S!Next]_singleton
           /\ [J!Next]_join /\ [E!Next]_encounter /\ [T!Next]_peers
           /\ part' = part
           /\ IF part = "relay v1" THEN [R1!Next]_relay ELSE [R!Next]_relay
<1>1. CASE UNCHANGED vars
  BY <1>1 DEF vars, network, node
<1>2. CASE DirectoryRuns /\ D!Next
  BY <1>2 DEF DirectoryRuns, NetworkRuns, node
<1>3. CASE TrustRuns /\ P!Next
  BY <1>3 DEF TrustRuns, NetworkRuns, node
<1>4. CASE GossipRuns /\ G!Next
  BY <1>4 DEF GossipRuns, NetworkRuns, node
<1>5. CASE (RelayRuns("relay") /\ R!Next) \/ (RelayRuns("relay v1") /\ R1!Next)
  BY <1>5 DEF RelayRuns, NetworkRuns, node
<1>6. CASE SingletonRuns /\ S!Next
  BY <1>6 DEF SingletonRuns, NetworkRuns, node
<1>7. CASE JoinRuns /\ J!Next
  BY <1>7 DEF JoinRuns, NodeRuns, network
<1>8. CASE EncounterRuns /\ E!Next
  BY <1>8 DEF EncounterRuns, NodeRuns, network
<1>9. CASE PeersRun /\ T!Next
  BY <1>9 DEF PeersRun, NodeRuns, network
<1> QED BY <1>1, <1>2, <1>3, <1>4, <1>5, <1>6, <1>7, <1>8, <1>9 DEF Next

LEMMA InitInv == ASSUME Init PROVE Inv
<1>1. DirectoryInv /\ TrustInv /\ G!TypeOK /\ SingletonInv
  BY DirectoryInit, TrustInit, GossipInit, SingletonInit DEF Init
<1>2. JoinInv /\ EncounterInv /\ PeersInv
  BY JoinInit, EncounterInit, PeersInit DEF Init
<1>3. IF part = "relay v1" THEN RP1!Inv ELSE RP!Inv
  <2>1. CASE part = "relay v1"
    BY <2>1, RelayV1Constants, SameRelayV1, RP1!InitInv DEF Init
  <2>2. CASE part # "relay v1"
    BY <2>2, RelayConstants, SameRelay, RP!InitInv DEF Init
  <2> QED BY <2>1, <2>2
<1> QED BY <1>1, <1>2, <1>3 DEF Inv

LEMMA StepInv == ASSUME Inv, [Next]_vars PROVE Inv'
<1>1. DirectoryInv' /\ TrustInv' /\ G!TypeOK' /\ SingletonInv'
  BY StepOfParts, DirectoryStep, TrustStep, GossipStep, SingletonStep DEF Inv
<1>2. JoinInv' /\ EncounterInv' /\ PeersInv'
  BY StepOfParts, JoinStep, EncounterStep, PeersStep DEF Inv
<1>3. part' = part /\ IF part = "relay v1" THEN RP1!Inv' ELSE RP!Inv'
  BY StepOfParts, RelayStep, RelayV1Step DEF Inv
<1> QED BY <1>1, <1>2, <1>3 DEF Inv

(* The inductive invariant holds of every behaviour of the network. *)
THEOREM Invariance == Spec => []Inv
<1>1. Init => Inv
  BY InitInv
<1>2. Inv /\ [Next]_vars => Inv'
  BY StepInv
<1> QED BY <1>1, <1>2, PTL DEF Spec

(* Type correctness of every part, for any nodes, sockets and bounds. *)
THEOREM TypeCorrect == Spec => []TypesOK
<1>1. Inv => TypesOK
  BY DirectorySafe, SameRelay, SameRelayV1
     DEF Inv, TypesOK, TrustInv, SingletonInv, JoinInv, EncounterInv, PeersInv, RP!Inv, RP1!Inv
<1> QED BY <1>1, Invariance, PTL

(* The directory: requests overlap, fail, and write back old copies of the  *)
(* whole file, and still nobody is listed whom it has not heard in time.    *)
(* The peer table: two processes write it back over one another, and still  *)
(* who stays on the relay is there and hearsay makes nobody a target.       *)
THEOREM ListsAreSeen == Spec => []ListedAsSeen
<1>1. Inv => ListedAsSeen
  BY DirectorySafe, PeersSafe DEF Inv, ListedAsSeen
<1> QED BY <1>1, Invariance, PTL

(* Quarantine: however sightings of all kinds, background saves and         *)
(* restarts over an old cache file alternate.                               *)
THEOREM QuarantineIsEarned == Spec => []QuarantineEarned
<1>1. Inv => QuarantineEarned
  BY DEF Inv, TrustInv
<1> QED BY <1>1, Invariance, PTL

(* The second relay, for any sockets, nodes and sessions. *)
THEOREM RoutesAreLive == Spec => []RouteIsLive
<1>1. Inv => RouteIsLive
  BY RelayConstants, RelayV1Constants, SameRelay, SameRelayV1, RP!InvRoute, RP1!InvRoute
     DEF Inv, RouteIsLive
<1> QED BY <1>1, Invariance, PTL

(* The second relay with one session per node does what the first one did. *)
THEOREM RelayImplementsV1 == Spec => ImplementsV1
<1>1. Inv /\ [Next]_vars => [(part = "relay v1") => [V1!Next]_(V1!v1Vars)]_vars
  BY StepOfParts, RelayV1Step DEF Inv
<1> QED BY <1>1, Invariance, PTL DEF Spec, ImplementsV1

(* One connection per process, although late events of sockets that were    *)
(* given up reset the shared state while a newer socket is connected.       *)
THEOREM OneSocket == Spec => []OnlyOneSocket
<1>1. Inv => OnlyOneSocket
  BY SingletonSafe DEF Inv
<1> QED BY <1>1, Invariance, PTL

(* Automatic join, for any number of nodes and any directories, lost        *)
(* answers and failed starts included.                                      *)
THEOREM ServersJoined == Spec => []ServesJoined
<1>1. Inv => ServesJoined
  BY DEF Inv, JoinInv
<1> QED BY <1>1, Invariance, PTL

(* Candidates and friendships, however many runs of A, losses and restarts  *)
(* of B.                                                                    *)
THEOREM FriendsAreProbed == Spec => []FriendsWereProbed
<1>1. Inv => FriendsWereProbed
  BY DEF Inv, EncounterInv
<1> QED BY <1>1, Invariance, PTL
=============================================================================
