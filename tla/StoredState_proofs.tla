------------------------- MODULE StoredState_proofs -------------------------
(***************************************************************************)
(* What a config entry keeps, for any number of setups, jobs, dialogs and  *)
(* gateways, and what its node cache keeps, for any nodes, labels, threads *)
(* and observations.                                                       *)
(*                                                                         *)
(* The dialogs of OptionsFlow are typed, a mark of ownership is earned,    *)
(* and an owned record leaves the list only where its dialog knew of it.   *)
(* That holds with an entry and a store around them; one thread works on a *)
(* connection at a time, an open connection has an owner, and a loaded     *)
(* coordinator runs with the options that are saved.  What the user is     *)
(* shown of the nodes is what the records say, and the rows, the devices   *)
(* and the entities tell the same story once nothing is left to do.        *)
(*                                                                         *)
(* The argument for the nodes: the rows follow the cache but for the keys  *)
(* the holder of the lock has in hand and those a failed write cut; the    *)
(* devices, the entities and the view follow it but for what is owed; and  *)
(* a view that is kept was projected from records with the same signature, *)
(* which fixes the groups, the representative of each and its labels.      *)
(*                                                                         *)
(* The argument for the dialogs: whatever list a dialog has in hand was    *)
(* the saved list once, so its marks were earned and its identifiers are   *)
(* told apart; and a submit that waits for a test or a pairing works on a  *)
(* record without any mark.                                                *)
(*                                                                         *)
(* The argument for the entry: the holder of the lock is the only one with *)
(* work in the executor, and only while the connection is published; a     *)
(* connection that is open without being published belongs to a task that  *)
(* will close it; and what a coordinator was made with is what is saved    *)
(* until a save is either owed a reload or remembered as missed.           *)
(***************************************************************************)
EXTENDS EntryStore, NodeCache, TLAPS, FiniteSetTheorems, SequenceTheorems

-----------------------------------------------------------------------------
(* Representatives *)

\* A set of numbers that is not empty has a least member: the segments 0..n of
\* its members are finite sets, and strict inclusion of finite sets is well founded.
LEMMA LeastNat == ASSUME NEW T \in SUBSET Nat, T # {} PROVE \E m \in T : \A n \in T : m <= n
<1> DEFINE U == {0..n : n \in T}
<1>1. U # {} /\ U \subseteq FiniteSubsetsOf(Nat)
  <2>1. \A n \in T : 0..n \in SUBSET Nat /\ IsFiniteSet(0..n)
    BY FS_Interval
  <2> QED BY <2>1 DEF FiniteSubsetsOf
<1>2. PICK u \in U : \A v \in U : ~(<<v, u>> \in StrictSubsetOrdering(Nat))
  BY <1>1, WFMin, FS_StrictSubsetOrderingWellFounded
<1>3. PICK m \in T : u = 0..m
  BY <1>2
<1>4. ASSUME NEW n \in T, n < m PROVE FALSE
  <2>1. 0..n \in U /\ 0..n \subseteq 0..m /\ 0..n # 0..m
    <3>1. m \in 0..m /\ m \notin 0..n /\ 0..n \subseteq 0..m
      BY <1>4
    <3> QED BY <3>1
  <2>2. <<0..n, 0..m>> \in StrictSubsetOrdering(Nat)
    <3>1. 0..n \in SUBSET Nat /\ 0..m \in SUBSET Nat
      OBVIOUS
    <3> QED BY <2>1, <3>1 DEF StrictSubsetOrdering
  <2> QED BY <2>1, <2>2, <1>2, <1>3
<1> QED BY <1>4

\* A group that is not empty has a representative: one record ranks before every
\* other one, the order of the keys breaking ties (_representative_key).
LEMMA RepresentativeIs ==
    ASSUME NEW nodes, NEW S \in SUBSET Keys, S # {}
    PROVE  /\ Representative(nodes, S) \in S
           /\ \A j \in S \ {Representative(nodes, S)} :
                \/ Rank(nodes, S, Representative(nodes, S)) < Rank(nodes, S, j)
                \/ /\ Rank(nodes, S, Representative(nodes, S)) = Rank(nodes, S, j)
                   /\ Before(Representative(nodes, S), j)
<1> DEFINE rank(k) == Rank(nodes, S, k)
<1>1. \A k \in S : rank(k) \in Nat
  BY DEF Rank
<1>2. PICK r \in S : \A k \in S : rank(r) <= rank(k)
  <2>1. {rank(k) : k \in S} \in SUBSET Nat /\ {rank(k) : k \in S} # {}
    BY <1>1
  <2>2. PICK m \in {rank(k) : k \in S} : \A n \in {rank(k) : k \in S} : m <= n
    BY <2>1, LeastNat
  <2> HIDE DEF rank
  <2> QED BY <2>2
<1> DEFINE T == {k \in S : rank(k) = rank(r)}
<1>3. PICK b \in T : \A k \in T : Order[b] <= Order[k]
  <2>1. {Order[k] : k \in T} \in SUBSET Nat /\ {Order[k] : k \in T} # {}
    BY OrderAssumption
  <2>2. PICK m \in {Order[k] : k \in T} : \A n \in {Order[k] : k \in T} : m <= n
    BY <2>1, LeastNat
  <2> HIDE DEF T
  <2> QED BY <2>2
<1>4. \A j \in S \ {b} : \/ Rank(nodes, S, b) < Rank(nodes, S, j)
                         \/ Rank(nodes, S, b) = Rank(nodes, S, j) /\ Before(b, j)
  <2> TAKE j \in S \ {b}
  <2> HIDE DEF rank
  <2>1. CASE rank(j) = rank(r)
    <3>1. Order[b] < Order[j]
      BY <2>1, <1>3, OrderAssumption
    <3> QED BY <2>1, <3>1, <1>3 DEF rank, Before
  <2>2. CASE rank(j) # rank(r)
    <3>1. rank(b) < rank(j)
      BY <1>1, <1>2, <1>3, <2>2
    <3> QED BY <3>1 DEF rank
  <2> QED BY <2>1, <2>2
<1> QED BY <1>3, <1>4 DEF Representative

\* A group that is not empty has one member heard last.
LEMMA FreshestIs ==
    ASSUME NEW nodes, NEW S \in SUBSET Keys, S # {},
           \A k \in S : nodes[k].heard \in 0..MaxTime
    PROVE  /\ Freshest(nodes, S) \in S
           /\ \A j \in S \ {Freshest(nodes, S)} :
                \/ nodes[Freshest(nodes, S)].heard > nodes[j].heard
                \/ /\ nodes[Freshest(nodes, S)].heard = nodes[j].heard
                   /\ Before(Freshest(nodes, S), j)
<1> DEFINE age(k) == MaxTime - nodes[k].heard
<1>1. \A k \in S : age(k) \in Nat
  BY NodeBoundsAssumption
<1>2. PICK r \in S : \A k \in S : age(r) <= age(k)
  <2>1. {age(k) : k \in S} \in SUBSET Nat /\ {age(k) : k \in S} # {}
    BY <1>1
  <2>2. PICK m \in {age(k) : k \in S} : \A n \in {age(k) : k \in S} : m <= n
    BY <2>1, LeastNat
  <2> HIDE DEF age
  <2> QED BY <2>2
<1> DEFINE T == {k \in S : age(k) = age(r)}
<1>3. PICK b \in T : \A k \in T : Order[b] <= Order[k]
  <2>1. {Order[k] : k \in T} \in SUBSET Nat /\ {Order[k] : k \in T} # {}
    BY OrderAssumption
  <2>2. PICK m \in {Order[k] : k \in T} : \A n \in {Order[k] : k \in T} : m <= n
    BY <2>1, LeastNat
  <2> HIDE DEF T
  <2> QED BY <2>2
<1>4. \A j \in S \ {b} : \/ nodes[b].heard > nodes[j].heard
                         \/ nodes[b].heard = nodes[j].heard /\ Before(b, j)
  <2> TAKE j \in S \ {b}
  <2>1. CASE age(j) = age(r)
    <3>1. Order[b] < Order[j]
      BY <2>1, <1>3, OrderAssumption
    <3>2. nodes[b].heard = nodes[j].heard
      BY <2>1, <1>3, NodeBoundsAssumption
    <3> QED BY <3>1, <3>2 DEF Before
  <2>2. CASE age(j) # age(r)
    <3>1. age(b) < age(j)
      BY <1>1, <1>2, <1>3, <2>2
    <3> QED BY <3>1, NodeBoundsAssumption
  <2> QED BY <2>1, <2>2
<1> QED BY <1>3, <1>4 DEF Freshest
\* Ranks are numbers.
LEMMA RankIsNat == ASSUME NEW nodes, NEW S, NEW k PROVE Rank(nodes, S, k) \in 0..5
BY DEF Rank

\* b holds the records of S that a holds, as far as identity goes.
Twins(a, b, S) ==
    /\ S \subseteq DOMAIN a \cap DOMAIN b
    /\ \A k \in S : Signature(a[k]) = Signature(b[k])

\* What the projection asks of a record is the same for two records of one
\* signature.
LEMMA TwinRecord ==
    ASSUME NEW k, NEW m, NEW n, Signature(m) = Signature(n)
    PROVE  /\ Valid(k, m) <=> Valid(k, n)
           /\ NodeId(k, m) = NodeId(k, n) /\ Mac(k, m) = Mac(k, n) /\ Pub(k, m) = Pub(k, n)
           /\ m.proto = n.proto /\ m.id = n.id
<1>1. m.proto = n.proto /\ m.id = n.id /\ m.mac = n.mac /\ m.pub = n.pub
  BY DEF Signature
<1>2. NodeId(k, m) = NodeId(k, n) /\ Mac(k, m) = Mac(k, n) /\ Pub(k, m) = Pub(k, n)
  BY <1>1 DEF NodeId, Mac, Pub
<1> QED BY <1>1, <1>2 DEF Valid

\* Two caches that agree on the signatures of S agree on the proofs of S, on
\* whether they conflict and on the ranks.
LEMMA TwinProofs ==
    ASSUME NEW a, NEW b, NEW S, Twins(a, b, S)
    PROVE  /\ Macs(a, S) = Macs(b, S) /\ Pubs(a, S) = Pubs(b, S)
           /\ Unmergeable(a, S) <=> Unmergeable(b, S)
           /\ \A k \in S : Rank(a, S, k) = Rank(b, S, k)
<1>1. \A k \in S : Mac(k, a[k]) = Mac(k, b[k]) /\ Pub(k, a[k]) = Pub(k, b[k])
  BY TwinRecord DEF Twins
<1>2. Macs(a, S) = Macs(b, S)
  BY <1>1 DEF Macs
<1>3. Pubs(a, S) = Pubs(b, S)
  BY <1>1 DEF Pubs
<1>4. Unmergeable(a, S) <=> Unmergeable(b, S)
  BY <1>1, <1>2, <1>3 DEF Unmergeable
<1>5. \A k \in S : HasAllProofs(a, S, k) <=> HasAllProofs(b, S, k)
  BY <1>1, <1>2, <1>3 DEF HasAllProofs
<1>6. \A k \in S : Rank(a, S, k) = Rank(b, S, k)
  BY <1>5 DEF Rank
<1> QED BY <1>2, <1>3, <1>4, <1>6

\* They choose the same representative of S.
LEMMA TwinRepresentative ==
    ASSUME NEW a, NEW b, NEW S \in SUBSET Keys, S # {}, Twins(a, b, S)
    PROVE  Representative(a, S) = Representative(b, S)
<1> DEFINE x == Representative(a, S)
           y == Representative(b, S)
<1>1. x \in S /\ \A j \in S \ {x}  :
            \/ Rank(a, S, x) < Rank(a, S, j)
            \/ (Rank(a, S, x) = Rank(a, S, j) /\ Before(x, j))
  BY RepresentativeIs
<1>2. y \in S /\ \A j \in S \ {y}  :
            \/ Rank(b, S, y) < Rank(b, S, j)
            \/ (Rank(b, S, y) = Rank(b, S, j) /\ Before(y, j))
  BY RepresentativeIs
<1> HIDE DEF x, y
<1>3. Rank(a, S, x) = Rank(b, S, x) /\ Rank(a, S, y) = Rank(b, S, y)
  BY <1>1, <1>2, TwinProofs
<1>4. Rank(a, S, x) \in 0..5 /\ Rank(a, S, y) \in 0..5 /\ Order[x] \in Nat /\ Order[y] \in Nat
  BY <1>1, <1>2, RankIsNat, OrderAssumption
<1>5. x = y
  BY <1>1, <1>2, <1>3, <1>4 DEF Before
<1> QED BY <1>5 DEF x, y

\* A function from some keys to records.
Cache(nodes) == DOMAIN nodes \subseteq Keys /\ nodes \in [DOMAIN nodes -> Records]

\* The members of a group are valid cached records of its routing id.
LEMMA GroupIs ==
    ASSUME NEW nodes, Cache(nodes), NEW id
    PROVE  /\ Group(nodes, id) \in SUBSET Keys
           /\ \A k \in Group(nodes, id) :
                /\ k \in DOMAIN nodes /\ nodes[k] \in Records
                /\ Valid(k, nodes[k]) /\ NodeId(k, nodes[k]) = id
                /\ nodes[k].proto = "meshtastic"
           /\ \A k \in ValidKeys(nodes) : k \in Group(nodes, NodeId(k, nodes[k]))
BY DEF Cache, Group, ValidKeys, Valid

\* A cached record's time is within the clock's bound.
LEMMA HeardIsBounded ==
    ASSUME NEW nodes, Cache(nodes), NEW k \in DOMAIN nodes
    PROVE  nodes[k] \in Records /\ nodes[k].heard \in 0..MaxTime
BY DEF Cache, Records

\* Only returns a member or no value.
LEMMA OnlyIs == ASSUME NEW S PROVE Only(S) \in S \cup {Absent}
BY DEF Only

\* A merged record is a record, and its signature is made of the representative's
\* id and of the group's proofs.
LEMMA MergedIs ==
    ASSUME NEW nodes, Cache(nodes), NEW S \in SUBSET DOMAIN nodes, S # {},
           \A k \in S : nodes[k].proto = "meshtastic"
    PROVE  /\ Merged(nodes, S) \in Records
           /\ Signature(Merged(nodes, S)) =
                <<"meshtastic", NodeId(Representative(nodes, S), nodes[Representative(nodes, S)]),
                  Only(Macs(nodes, S)), Only(Pubs(nodes, S))>>
<1>0. S \in SUBSET Keys
  BY DEF Cache
<1>1. Representative(nodes, S) \in S
  BY <1>0, RepresentativeIs
<1>2. Freshest(nodes, S) \in S
  BY <1>0, FreshestIs, HeardIsBounded
<1> DEFINE r == Representative(nodes, S)
           f == Freshest(nodes, S)
<1>3. r \in Keys /\ nodes[r] \in Records /\ nodes[f] \in Records /\ nodes[f].proto = "meshtastic"
  BY <1>0, <1>1, <1>2, HeardIsBounded
<1>4. Merged(nodes, S) = [nodes[f] EXCEPT !.id = NodeId(r, nodes[r]), !.mac = Only(Macs(nodes, S)),
                                          !.pub = Only(Pubs(nodes, S))]
  BY DEF Merged
<1> HIDE DEF r, f
<1>5. NodeId(r, nodes[r]) \in {k.id : k \in Keys} \cup {Absent, Bad}
  BY <1>3 DEF NodeId, KeyId, Either, Records
<1>6. Macs(nodes, S) \subseteq {k.mac : k \in Keys} \cup {Absent, Bad}
  <2>1. \A k \in S : k \in Keys /\ nodes[k] \in Records
    BY <1>0, HeardIsBounded
  <2>2. \A k \in S : Mac(k, nodes[k]) \in {j.mac : j \in Keys} \cup {Absent, Bad}
    BY <2>1 DEF Mac, KeyMac, Either, Records
  <2> QED BY <2>2 DEF Macs
<1>7. Pubs(nodes, S) \subseteq {k.pub : k \in Keys} \cup {Absent, Bad}
  <2>1. \A k \in S : k \in Keys /\ nodes[k] \in Records
    BY <1>0, HeardIsBounded
  <2>2. \A k \in S : Pub(k, nodes[k]) \in {j.pub : j \in Keys} \cup {Absent, Bad}
    BY <2>1 DEF Pub, KeyPub, Either, Records
  <2> QED BY <2>2 DEF Pubs
<1>8. Only(Macs(nodes, S)) \in {k.mac : k \in Keys} \cup {Absent, Bad}
  BY <1>6, OnlyIs
<1>9. Only(Pubs(nodes, S)) \in {k.pub : k \in Keys} \cup {Absent, Bad}
  BY <1>7, OnlyIs
<1>10. Merged(nodes, S) \in Records
  BY <1>3, <1>4, <1>5, <1>8, <1>9 DEF Records
<1>11. Signature(Merged(nodes, S)) =
            <<"meshtastic", NodeId(r, nodes[r]), Only(Macs(nodes, S)), Only(Pubs(nodes, S))>>
  BY <1>3, <1>4 DEF Signature, Records
<1> QED BY <1>10, <1>11 DEF r

\* Caches that agree on the signatures of a group merge it to one signature.
LEMMA TwinMerged ==
    ASSUME NEW a, NEW b, Cache(a), Cache(b), NEW S, S # {}, Twins(a, b, S),
           \A k \in S : a[k].proto = "meshtastic"
    PROVE  Signature(Merged(a, S)) = Signature(Merged(b, S))
<1>1. S \in SUBSET DOMAIN a /\ S \in SUBSET DOMAIN b /\ S \in SUBSET Keys
  BY DEF Twins, Cache
<1>2. \A k \in S : b[k].proto = "meshtastic"
  BY DEF Twins, Signature
<1>3. Representative(a, S) = Representative(b, S) /\ Representative(a, S) \in S
  BY <1>1, TwinRepresentative, RepresentativeIs
<1>4. NodeId(Representative(a, S), a[Representative(a, S)])
        = NodeId(Representative(b, S), b[Representative(b, S)])
  BY <1>3, TwinRecord DEF Twins
<1>5. Macs(a, S) = Macs(b, S) /\ Pubs(a, S) = Pubs(b, S)
  BY TwinProofs
<1> QED BY <1>1, <1>2, <1>4, <1>5, MergedIs

\* Caches that agree on the records of a group merge it to one record.
LEMMA SameMerged ==
    ASSUME NEW a, NEW b, Cache(a), Cache(b), NEW S, S # {},
           S \subseteq DOMAIN a \cap DOMAIN b, \A k \in S : a[k] = b[k]
    PROVE  Merged(a, S) = Merged(b, S)
<1>1. Twins(a, b, S) /\ S \in SUBSET Keys
  BY DEF Twins, Cache
<1>2. Representative(a, S) = Representative(b, S) /\ Representative(a, S) \in S
  BY <1>1, TwinRepresentative, RepresentativeIs
<1>3. \A k \in S : a[k].heard \in 0..MaxTime /\ b[k].heard \in 0..MaxTime
  BY HeardIsBounded
<1> DEFINE x == Freshest(a, S)
           y == Freshest(b, S)
<1>4. x \in S /\ \A j \in S \ {x} :
            \/ a[x].heard > a[j].heard
            \/ (a[x].heard = a[j].heard /\ Before(x, j))
  BY <1>1, <1>3, FreshestIs
<1>5. y \in S /\ \A j \in S \ {y} :
            \/ b[y].heard > b[j].heard
            \/ (b[y].heard = b[j].heard /\ Before(y, j))
  BY <1>1, <1>3, FreshestIs
<1>6. x = y
  <2> HIDE DEF x, y
  <2>1. Order[x] \in Nat /\ Order[y] \in Nat
    BY <1>1, <1>4, <1>5, OrderAssumption
  <2> QED BY <1>3, <1>4, <1>5, <2>1, NodeBoundsAssumption DEF Before
<1>7. Macs(a, S) = Macs(b, S) /\ Pubs(a, S) = Pubs(b, S)
  BY <1>1, TwinProofs
<1>8. a[x] = b[y] /\ a[Representative(a, S)] = b[Representative(b, S)]
  BY <1>2, <1>4, <1>6
<1> QED BY <1>2, <1>7, <1>8 DEF Merged

\* Caches of one domain and the same signatures have the same groups and the same
\* unsafe keys.
LEMMA TwinGroups ==
    ASSUME NEW a, NEW b, Cache(a), Cache(b), DOMAIN a = DOMAIN b, Twins(a, b, DOMAIN a)
    PROVE  /\ ValidKeys(a) = ValidKeys(b) /\ UnsafeKeys(a) = UnsafeKeys(b)
           /\ \A id : Group(a, id) = Group(b, id)
<1>1. \A k \in DOMAIN a :
        /\ Valid(k, a[k]) <=> Valid(k, b[k])
        /\ NodeId(k, a[k]) = NodeId(k, b[k]) /\ Mac(k, a[k]) = Mac(k, b[k])
        /\ Pub(k, a[k]) = Pub(k, b[k]) /\ a[k].proto = b[k].proto
  BY TwinRecord DEF Twins
<1>2. ValidKeys(a) = ValidKeys(b)
  BY <1>1 DEF ValidKeys
<1>3. ValidKeys(a) \subseteq DOMAIN a
  BY DEF ValidKeys
<1>4. \A id : Group(a, id) = Group(b, id)
  BY <1>1, <1>2, <1>3 DEF Group
<1>5. \A k \in DOMAIN a : ProofIsShared(a, k) <=> ProofIsShared(b, k)
  BY <1>1, <1>2, <1>3 DEF ProofIsShared
<1>6. \A id : Unmergeable(a, Group(a, id)) <=> Unmergeable(b, Group(b, id))
  <2> TAKE id
  <2>1. Twins(a, b, Group(a, id))
    BY GroupIs DEF Twins
  <2> QED BY <2>1, <1>4, TwinProofs
<1>7. UnsafeKeys(a) = UnsafeKeys(b)
  BY <1>1, <1>5, <1>6 DEF UnsafeKeys
<1> QED BY <1>2, <1>4, <1>7

\* They fold the same groups and send every record to the same node: identity
\* depends on signatures alone (_node_identity_signature).
LEMMA TwinFolds ==
    ASSUME NEW a, NEW b, Cache(a), Cache(b), DOMAIN a = DOMAIN b, Twins(a, b, DOMAIN a)
    PROVE  /\ \A k \in DOMAIN a : Folds(a, k) <=> Folds(b, k)
           /\ Redirects(a) = Redirects(b)
<1>1. /\ ValidKeys(a) = ValidKeys(b) /\ UnsafeKeys(a) = UnsafeKeys(b)
      /\ \A id : Group(a, id) = Group(b, id)
  BY TwinGroups
<1>2. \A k \in DOMAIN a : NodeId(k, a[k]) = NodeId(k, b[k])
  BY TwinRecord DEF Twins
<1>3. \A k \in ValidKeys(a) :
        LET S == Group(a, NodeId(k, a[k])) IN
        /\ S # {} /\ Twins(a, b, S) /\ S \in SUBSET Keys
        /\ \A j \in S : a[j].proto = "meshtastic"
  BY GroupIs DEF Twins
<1>4. \A k \in ValidKeys(a) :
        LET S == Group(a, NodeId(k, a[k])) IN
        /\ Representative(a, S) = Representative(b, S)
        /\ Signature(Merged(a, S)) = Signature(Merged(b, S))
  BY <1>3, TwinRepresentative, TwinMerged
<1>5. \A k \in ValidKeys(a) :
        LET S == Group(a, NodeId(k, a[k])) IN
        Valid(Representative(a, S), Merged(a, S)) <=> Valid(Representative(b, S), Merged(b, S))
  <2> TAKE k \in ValidKeys(a)
  <2> DEFINE S == Group(a, NodeId(k, a[k]))
  <2>1. Representative(a, S) = Representative(b, S) /\ Signature(Merged(a, S)) = Signature(Merged(b, S))
    BY <1>4
  <2> HIDE DEF S
  <2>2. Valid(Representative(a, S), Merged(a, S)) <=> Valid(Representative(a, S), Merged(b, S))
    BY <2>1, TwinRecord
  <2>3. Valid(Representative(a, S), Merged(a, S)) <=> Valid(Representative(b, S), Merged(b, S))
    BY <2>1, <2>2
  <2> QED BY <2>3 DEF S
<1>6. \A k \in DOMAIN a : Folds(a, k) <=> Folds(b, k)
  BY <1>1, <1>2, <1>5 DEF Folds
<1>7. \A k \in DOMAIN a : Folds(a, k) => k \in ValidKeys(a)
  BY DEF Folds
<1>8. Redirects(a) = Redirects(b)
  BY <1>1, <1>2, <1>4, <1>6, <1>7 DEF Redirects
<1> QED BY <1>6, <1>8

\* The members of a group that is folded are folded together, into its
\* representative.
LEMMA FoldsIs ==
    ASSUME NEW nodes, Cache(nodes), NEW k \in DOMAIN nodes, Folds(nodes, k)
    PROVE  LET S == Group(nodes, NodeId(k, nodes[k])) IN
           /\ k \in S /\ Representative(nodes, S) \in S
           /\ \A j \in S :
                /\ Group(nodes, NodeId(j, nodes[j])) = S
                /\ Folds(nodes, j) /\ Redirects(nodes)[j] = Representative(nodes, S)
<1> DEFINE S == Group(nodes, NodeId(k, nodes[k]))
<1>1. k \in ValidKeys(nodes) /\ k \in S /\ S \in SUBSET Keys
  BY GroupIs DEF Folds
<1>2. Representative(nodes, S) \in S
  BY <1>1, RepresentativeIs
<1>3. \A j \in S : j \in DOMAIN nodes /\ j \in ValidKeys(nodes) /\ NodeId(j, nodes[j]) = NodeId(k, nodes[k])
  BY DEF Group, ValidKeys
<1>4. \A j \in S : Folds(nodes, j)
  BY <1>3 DEF Folds
<1>5. \A j \in S : Redirects(nodes)[j] = Representative(nodes, S)
  BY <1>3, <1>4 DEF Redirects
<1> QED BY <1>1, <1>2, <1>3, <1>4, <1>5

\* The projection: every record goes to a node, every node stands for itself, and
\* the records that go to a node are its group when it folds and itself otherwise.
LEMMA ProjectionIs ==
    ASSUME NEW nodes, Cache(nodes)
    PROVE  /\ DOMAIN Redirects(nodes) = DOMAIN nodes
           /\ Redirects(nodes) \in [DOMAIN nodes -> DOMAIN Effective(nodes)]
           /\ DOMAIN Effective(nodes) \subseteq DOMAIN nodes
           /\ \A e \in DOMAIN Effective(nodes) :
                /\ Redirects(nodes)[e] = e
                /\ Effective(nodes)[e] =
                    IF Folds(nodes, e) THEN Merged(nodes, Group(nodes, NodeId(e, nodes[e])))
                    ELSE nodes[e]
                /\ \A k \in DOMAIN nodes :
                    Redirects(nodes)[k] = e <=>
                        IF Folds(nodes, e) THEN k \in Group(nodes, NodeId(e, nodes[e]))
                        ELSE k = e
           /\ Effective(nodes) \in [DOMAIN Effective(nodes) -> Records]
<1> DEFINE T == Redirects(nodes)
           G(k) == Group(nodes, NodeId(k, nodes[k]))
<1>1. DOMAIN T = DOMAIN nodes /\ T = [k \in DOMAIN nodes |-> T[k]]
  BY DEF Redirects
<1>2. DOMAIN Effective(nodes) = {T[k] : k \in DOMAIN nodes}
  BY DEF Effective
<1>3. \A k \in DOMAIN nodes : Folds(nodes, k) =>
        /\ k \in G(k) /\ T[k] \in G(k) /\ T[T[k]] = T[k]
        /\ \A j \in G(k) : G(j) = G(k) /\ Folds(nodes, j) /\ T[j] = T[k]
  BY FoldsIs
<1>4. \A k \in DOMAIN nodes : ~Folds(nodes, k) => T[k] = k
  BY DEF Redirects
<1>5. \A k \in DOMAIN nodes : G(k) \subseteq DOMAIN nodes
  BY GroupIs
<1>6. \A k \in DOMAIN nodes : T[k] \in DOMAIN nodes /\ T[T[k]] = T[k]
  <2> HIDE DEF T, G
  <2> QED BY <1>3, <1>4, <1>5
<1>7. DOMAIN Effective(nodes) \subseteq DOMAIN nodes
  BY <1>2, <1>6
<1>8. T \in [DOMAIN nodes -> DOMAIN Effective(nodes)]
  BY <1>1, <1>2
<1>9. ASSUME NEW e \in DOMAIN Effective(nodes)
      PROVE  T[e] = e
  BY <1>2, <1>6
<1>10. ASSUME NEW e \in DOMAIN Effective(nodes)
       PROVE  Effective(nodes)[e] =
                    IF Folds(nodes, e) THEN Merged(nodes, G(e)) ELSE nodes[e]
  BY DEF Effective
<1>11. ASSUME NEW e \in DOMAIN Effective(nodes), NEW k \in DOMAIN nodes
       PROVE  T[k] = e <=> IF Folds(nodes, e) THEN k \in G(e) ELSE k = e
  <2>1. e \in DOMAIN nodes /\ T[e] = e
    BY <1>7, <1>9
  <2>2. CASE Folds(nodes, e)
    <3>1. ASSUME k \in G(e) PROVE T[k] = e
      BY <3>1, <2>1, <2>2, <1>3
    <3>2. ASSUME T[k] = e PROVE k \in G(e)
      <4>1. CASE Folds(nodes, k)
        <5>1. k \in G(k) /\ e \in G(k) /\ G(e) = G(k)
          BY <4>1, <3>2, <1>3
        <5> QED BY <5>1
      <4>2. CASE ~Folds(nodes, k)
        <5>1. k = e
          BY <4>2, <3>2, <1>4
        <5> QED BY <5>1, <4>2, <2>2
      <4> QED BY <4>1, <4>2
    <3> HIDE DEF T, G
    <3> QED BY <2>2, <3>1, <3>2
  <2>3. CASE ~Folds(nodes, e)
    <3>1. ASSUME T[k] = e PROVE k = e
      <4>1. ~Folds(nodes, k)
        BY <3>1, <2>3, <1>3
      <4> QED BY <4>1, <3>1, <1>4
    <3> HIDE DEF T, G
    <3> QED BY <2>1, <2>3, <3>1
  <2> QED BY <2>2, <2>3
<1>12. Effective(nodes) \in [DOMAIN Effective(nodes) -> Records]
  <2>1. \A e \in DOMAIN Effective(nodes) : Effective(nodes)[e] \in Records
    <3> TAKE e \in DOMAIN Effective(nodes)
    <3>0. e \in DOMAIN nodes
      BY <1>7
    <3>1. CASE Folds(nodes, e)
      <4>1. e \in G(e)
        BY <3>0, <3>1, <1>3
      <4>2. G(e) \in SUBSET DOMAIN nodes /\ \A k \in G(e) : nodes[k].proto = "meshtastic"
        BY GroupIs
      <4>3. Merged(nodes, G(e)) \in Records
        BY <4>1, <4>2, MergedIs
      <4> QED BY <3>1, <4>3, <1>10
    <3>2. CASE ~Folds(nodes, e)
      BY <3>0, <3>2, <1>10 DEF Cache
    <3> QED BY <3>1, <3>2
  <2>2. Effective(nodes) = [e \in DOMAIN Effective(nodes) |-> Effective(nodes)[e]]
    BY DEF Effective
  <2> QED BY <2>1, <2>2
<1> HIDE DEF T, G
<1> QED BY <1>1, <1>7, <1>8, <1>9, <1>10, <1>11, <1>12 DEF T, G

\* A node projected from the records that went to it alone is the node projected
\* from all the records.
LEMMA PartIs ==
    ASSUME NEW nodes, Cache(nodes), NEW e \in DOMAIN Effective(nodes), NEW A,
           A = {k \in DOMAIN nodes : Redirects(nodes)[k] = e}, NEW part,
           part = [j \in A |-> nodes[j]],
           e \in DOMAIN Effective(part)
    PROVE  Effective(part)[e] = Effective(nodes)[e]
<1> DEFINE S == Group(nodes, NodeId(e, nodes[e]))
<1>1. e \in DOMAIN nodes /\ Redirects(nodes)[e] = e
  BY ProjectionIs
<1>2. A \subseteq DOMAIN nodes /\ e \in A
  BY <1>1
<1>3. Cache(part) /\ DOMAIN part = A /\ \A k \in A : part[k] = nodes[k]
  BY <1>2 DEF Cache
<1>4. Effective(part)[e] = IF Folds(part, e) THEN Merged(part, Group(part, NodeId(e, part[e])))
                           ELSE part[e]
  BY <1>3, ProjectionIs
<1>5. CASE Folds(nodes, e)
  <2>1. A = S
    <3>1. \A k \in DOMAIN nodes : Redirects(nodes)[k] = e <=> k \in S
      BY <1>5, ProjectionIs
    <3>2. S \subseteq DOMAIN nodes
      BY GroupIs
    <3> QED BY <3>1, <3>2
  <2>2. \A k \in S : /\ Valid(k, nodes[k]) /\ NodeId(k, nodes[k]) = NodeId(e, nodes[e])
                     /\ nodes[k].proto = "meshtastic"
    BY GroupIs
  <2>3. ValidKeys(part) = S
    BY <1>3, <2>1, <2>2 DEF ValidKeys
  <2>4. Group(part, NodeId(e, part[e])) = S
    BY <1>2, <1>3, <2>1, <2>2, <2>3 DEF Group
  <2>5. Twins(nodes, part, S) /\ S # {} /\ S \in SUBSET Keys
    BY <1>2, <1>3, <2>1 DEF Twins, Cache
  <2>6. Representative(nodes, S) = Representative(part, S)
    BY <2>5, TwinRepresentative
  <2>7. Merged(nodes, S) = Merged(part, S)
    <3>1. S \subseteq DOMAIN nodes \cap DOMAIN part /\ \A k \in S : nodes[k] = part[k]
      BY <1>2, <1>3, <2>1
    <3> QED BY <1>3, <2>5, <3>1, SameMerged
  <2>8. S \cap UnsafeKeys(part) = {}
    <3>1. ~Unmergeable(nodes, S) /\ S \cap UnsafeKeys(nodes) = {}
      <4>1. S \cap UnsafeKeys(nodes) = {}
        BY <1>5 DEF Folds
      <4>2. e \in S /\ nodes[e].proto = "meshtastic"
        BY <1>2, <2>1, <2>2
      <4> QED BY <1>1, <4>1, <4>2 DEF UnsafeKeys
    <3>2. ~Unmergeable(part, S)
      BY <3>1, <2>5, TwinProofs
    <3>3. \A k \in S : ~ProofIsShared(part, k)
      BY <1>3, <2>1, <2>2, <2>3 DEF ProofIsShared
    <3>4. \A k \in S : Group(part, NodeId(k, part[k])) = S /\ Valid(k, part[k])
      BY <1>2, <1>3, <2>1, <2>2, <2>4
    <3> HIDE DEF S
    <3> QED BY <3>2, <3>3, <3>4 DEF UnsafeKeys
  <2>9. Folds(part, e)
    <3>1. Cardinality(S) > 1 /\ Valid(Representative(nodes, S), Merged(nodes, S))
      BY <1>5 DEF Folds
    <3>2. e \in ValidKeys(part)
      BY <1>2, <2>1, <2>3
    <3> HIDE DEF S
    <3> QED BY <2>4, <2>6, <2>7, <2>8, <3>1, <3>2 DEF Folds
  <2>10. Effective(nodes)[e] = Merged(nodes, S)
    BY <1>5, ProjectionIs
  <2> QED BY <1>4, <2>4, <2>7, <2>9, <2>10
<1>6. CASE ~Folds(nodes, e)
  <2>1. A = {e}
    BY <1>1, <1>6, ProjectionIs
  <2>2. ~Folds(part, e)
    <3>1. Group(part, NodeId(e, part[e])) \subseteq {e}
      BY <1>3, <2>1, GroupIs
    <3>2. Cardinality({e}) = 1 /\ IsFiniteSet({e})
      BY FS_Singleton
    <3>3. Cardinality(Group(part, NodeId(e, part[e]))) <= 1
      BY <3>1, <3>2, FS_Subset
    <3>4. Cardinality(Group(part, NodeId(e, part[e]))) \in Nat
      BY <3>1, <3>2, FS_Subset, FS_CardinalityType
    <3> QED BY <3>3, <3>4 DEF Folds
  <2>3. Effective(nodes)[e] = nodes[e]
    BY <1>6, ProjectionIs
  <2> QED BY <1>2, <1>3, <1>4, <2>2, <2>3
<1> QED BY <1>5, <1>6

\* Rebuilding one node is enough: when a record k changes but keeps its signature,
\* the view made from the old records with k's node projected again from its
\* aliases (_refresh_effective_node_projection) is the view of the new records.
THEOREM OneNode ==
    ASSUME NEW a, NEW b, Cache(a), Cache(b), DOMAIN a = DOMAIN b, NEW k \in DOMAIN a,
           Signature(a[k]) = Signature(b[k]), \A j \in DOMAIN a \ {k} : a[j] = b[j],
           NEW part,
           part = [j \in {j \in DOMAIN a : Redirects(a)[j] = Redirects(a)[k]} |-> b[j]],
           DOMAIN Effective(part) = {Redirects(a)[k]}
    PROVE  /\ Redirects(a) = Redirects(b)
           /\ With(Effective(a), Redirects(a)[k], Effective(part)[Redirects(a)[k]]) = Effective(b)
<1> DEFINE e == Redirects(a)[k]
<1>1. Twins(a, b, DOMAIN a)
  BY DEF Twins
<1>2. Redirects(a) = Redirects(b) /\ \A j \in DOMAIN a : Folds(a, j) <=> Folds(b, j)
  BY <1>1, TwinFolds
<1>3. \A id : Group(a, id) = Group(b, id)
  BY <1>1, TwinGroups
<1>4. \A j \in DOMAIN a : NodeId(j, a[j]) = NodeId(j, b[j])
  BY <1>1, TwinRecord DEF Twins
<1>5. DOMAIN Effective(a) = DOMAIN Effective(b)
  BY <1>2 DEF Effective
<1>6. e \in DOMAIN Effective(a)
  BY ProjectionIs
<1>7. Effective(part)[e] = Effective(b)[e]
  BY <1>2, <1>5, <1>6, PartIs
<1>8. ASSUME NEW x \in DOMAIN Effective(a), x # e
      PROVE  Effective(a)[x] = Effective(b)[x]
  <2> DEFINE S == Group(a, NodeId(x, a[x]))
  <2>0. x \in DOMAIN a /\ S = Group(b, NodeId(x, b[x]))
    BY <1>3, <1>4, ProjectionIs
  <2>1. Effective(a)[x] = IF Folds(a, x) THEN Merged(a, S) ELSE a[x]
    BY ProjectionIs
  <2>2. Effective(b)[x] = IF Folds(a, x) THEN Merged(b, S) ELSE b[x]
    BY <1>2, <1>5, <2>0, ProjectionIs
  <2>3. ~(IF Folds(a, x) THEN k \in S ELSE k = x)
    BY <1>8, ProjectionIs
  <2>4. CASE Folds(a, x)
    <3>1. x \in S /\ S \subseteq DOMAIN a
      BY <2>0, <2>4, FoldsIs, GroupIs
    <3>2. \A j \in S : a[j] = b[j]
      BY <2>3, <2>4, <3>1
    <3>3. S # {} /\ S \subseteq DOMAIN a \cap DOMAIN b
      BY <3>1
    <3>4. Merged(a, S) = Merged(b, S)
      <4> HIDE DEF S
      <4> QED BY <3>2, <3>3, SameMerged
    <3> QED BY <2>1, <2>2, <2>4, <3>4
  <2>5. CASE ~Folds(a, x)
    BY <2>0, <2>1, <2>2, <2>3, <2>5
  <2> QED BY <2>4, <2>5
<1>9. Effective(b) = [x \in DOMAIN Effective(b) |-> Effective(b)[x]]
  BY DEF Effective
<1>10. With(Effective(a), e, Effective(part)[e])
        = [x \in DOMAIN Effective(b) |-> IF x = e THEN Effective(part)[e] ELSE Effective(a)[x]]
  BY <1>5, <1>6 DEF With
<1>11. \A x \in DOMAIN Effective(b) :
        Effective(b)[x] = IF x = e THEN Effective(part)[e] ELSE Effective(a)[x]
  BY <1>5, <1>7, <1>8
<1>12. With(Effective(a), e, Effective(part)[e]) = Effective(b)
  <2> HIDE DEF e
  <2> QED BY <1>9, <1>10, <1>11
<1> QED BY <1>2, <1>12

-----------------------------------------------------------------------------
(* The invariant *)

CallbackSteps == {"idle", "locating", "waiting", "saving", "deleting"}
UpdateSteps == {"load", "budget", "project", "idle", "wait", "deleting", "prune", "counting"}

Callbacks == [pc : CallbackSteps, key : Keys \cup {Absent}, node : Records \cup {Absent},
              gen : Nat, known : BOOLEAN, kept : BOOLEAN, gone : SUBSET Keys]
Updates == [pc : UpdateSteps, gone : SUBSET Keys]
Tasks == [keys : SUBSET Keys, todo : SUBSET Keys]

\* Start-up is not over.
Starting == update.pc \in {"load", "budget", "project"}

\* Shapes of the caches and of what follows them.
TypedData ==
    /\ Cache(raw) /\ Cache(rows) /\ Cache(view)
    /\ DOMAIN to \subseteq Keys /\ to \in [DOMAIN to -> DOMAIN view]
    /\ devices \subseteq Keys /\ labels \subseteq devices /\ seen \subseteq Keys

\* Shapes of the processes.
TypedControl ==
    /\ gen \in Nat /\ clock \in 1..MaxTime
    /\ up \in BOOLEAN /\ suspended \in BOOLEAN /\ whole \in BOOLEAN
    /\ hear \in [Handlers -> Callbacks]
    /\ \A i \in Handlers : hear[i].pc # "idle" => hear[i].key \in Keys /\ hear[i].node \in Records
    /\ update \in Updates
    /\ cleanups \in Seq(Tasks)
    /\ \A n \in DOMAIN cleanups : cleanups[n].todo \subseteq cleanups[n].keys

\* Who holds the lock.
Locked ==
    /\ \A i \in Handlers : hear[i].pc \in {"saving", "deleting"} <=> owner = i
    /\ owner = Periodic <=> update.pc = "deleting"

\* What has not happened before the first view.
Started ==
    /\ ~up => ~suspended /\ \A i \in Handlers : hear[i].pc = "idle"
    /\ Starting => ~up /\ gen = 0 /\ view = Empty /\ to = Empty
    /\ gen = 0 => Starting
    /\ update.pc = "load" =>
        raw = Empty /\ cleanups = <<>> /\ seen = {} /\ devices \subseteq DOMAIN rows

\* What the holder of the lock knows.
Holding ==
    /\ \A i \in Handlers :
        /\ hear[i].pc = "saving" =>
            /\ hear[i].key \in DOMAIN raw
            /\ SameButOnline(hear[i].node, raw[hear[i].key])
        /\ hear[i].pc = "deleting" =>
            /\ hear[i].gone \cap DOMAIN raw = {}
            /\ hear[i].key \in DOMAIN raw \cap DOMAIN rows
            /\ SameButOnline(rows[hear[i].key], raw[hear[i].key])
    /\ update.pc = "deleting" => update.gone \cap DOMAIN raw = {}

\* The keys being evicted.
Going ==
    {k \in Keys :
        \/ \E i \in Handlers : hear[i].pc = "deleting" /\ k \in hear[i].gone
        \/ (update.pc = "deleting" /\ k \in update.gone)}

\* The key being saved.
Saving == {k \in Keys : \E i \in Handlers : hear[i].pc = "saving" /\ k = hear[i].key}

\* The row of k is its cached record.
SameRow(k) ==
    /\ k \in DOMAIN raw <=> k \in DOMAIN rows
    /\ k \in DOMAIN raw => SameButOnline(rows[k], raw[k])

\* Rows follow the cache but for what the lock's holder is doing.
RowsFollow ==
    update.pc # "load" => \A k \in Keys \ (cut \cup Going \cup Saving) : SameRow(k)

\* A published node is cached, was cut short or is being evicted.
ViewFollows == DOMAIN view \subseteq DOMAIN raw \cup cut \cup Going

\* The platforms know the published nodes when nothing is held back.
ViewSeen ==
    up /\ update.pc \in {"idle", "wait", "deleting"} /\ cleanups = <<>> => DOMAIN view \subseteq seen

\* A cleanup task will tell that k went.
InTask(k) == \E n \in DOMAIN cleanups : k \in cleanups[n].keys
\* A cleanup task will remove the device of k.
ToRemove(k) == \E n \in DOMAIN cleanups : k \in cleanups[n].todo

\* What the platforms know has a device or is being cleaned up.
SeenHasDevice == \A k \in seen \ devices : InTask(k)

\* A device without a record is being removed.
DevicesFollow ==
    update.pc # "load" => \A k \in devices \ (DOMAIN raw \cup cut \cup Going) : ToRemove(k)

\* The records with the one at k as it was.
Earlier(k, n) == [raw EXCEPT ![k] = n]

\* While a record of unchanged signature is being saved, the view is that of the
\* records with the one it replaced.
KeptView ==
    \A i \in Handlers :
        hear[i].pc = "saving" /\ hear[i].kept /\ whole /\ gen > 0 =>
            \E n \in Records :
                /\ Signature(n) = Signature(raw[hear[i].key])
                /\ view = Effective(Earlier(hear[i].key, n))
                /\ to = Redirects(Earlier(hear[i].key, n))

\* The inductive invariant.
NodesInv ==
    /\ TypedData /\ TypedControl /\ Locked /\ Started /\ Holding /\ RowsFollow /\ ViewFollows
    /\ ViewSeen /\ SeenHasDevice /\ DevicesFollow /\ KeptView /\ ViewIsFresh

-----------------------------------------------------------------------------
(* Helpers *)

\* A cache with one record written.
LEMMA WithIs ==
    ASSUME NEW f, Cache(f), NEW k \in Keys, NEW v \in Records
    PROVE  /\ Cache(With(f, k, v)) /\ DOMAIN With(f, k, v) = DOMAIN f \cup {k}
           /\ With(f, k, v)[k] = v
           /\ \A j \in DOMAIN f \ {k} : With(f, k, v)[j] = f[j]
BY DEF With, Cache

\* A cache with some records removed.
LEMMA WithoutIs ==
    ASSUME NEW f, Cache(f), NEW S
    PROVE  /\ Cache(Without(f, S)) /\ DOMAIN Without(f, S) = DOMAIN f \ S
           /\ \A j \in DOMAIN f \ S : Without(f, S)[j] = f[j]
BY DEF Without, Cache

\* The empty cache.
LEMMA EmptyIs == Cache(Empty) /\ DOMAIN Empty = {}
BY DEF Cache, Empty

\* Only cached records that are not spared are evicted.
LEMMA EvictedIs ==
    ASSUME NEW nodes, NEW c, NEW spared
    PROVE  Evicted(nodes, c, spared) \subseteq DOMAIN nodes \ spared
BY DEF Evicted

\* What is being evicted or saved, from who holds the lock.
LEMMA InHand ==
    ASSUME Locked, TypedControl
    PROVE  /\ owner = Free => Going = {} /\ Saving = {}
           /\ owner = Periodic => Going = update.gone /\ Saving = {}
           /\ \A i \in Handlers :
                /\ hear[i].pc = "saving" => Going = {} /\ Saving = {hear[i].key}
                /\ hear[i].pc = "deleting" => Going = hear[i].gone /\ Saving = {}
BY NodeInputsAssumption DEF Locked, TypedControl, Callbacks, Updates, Going, Saving, Free, Periodic

\* The same of the next state.
LEMMA InHandNext ==
    ASSUME Locked', TypedControl'
    PROVE  /\ owner' = Free => Going' = {} /\ Saving' = {}
           /\ owner' = Periodic => Going' = update'.gone /\ Saving' = {}
           /\ \A i \in Handlers :
                /\ hear'[i].pc = "saving" => Going' = {} /\ Saving' = {hear'[i].key}
                /\ hear'[i].pc = "deleting" => Going' = hear'[i].gone /\ Saving' = {}
BY NodeInputsAssumption DEF Locked, TypedControl, Callbacks, Updates, Going, Saving, Free, Periodic

\* A record is itself but for online.
LEMMA SameIsSame == ASSUME NEW n \in Records PROVE SameButOnline(n, n)
BY DEF SameButOnline, Records

\* A later observation leaves a record.
LEMMA MergedIntoIs ==
    ASSUME NEW n \in Records, NEW m \in Records
    PROVE  MergedInto(n, m) \in Records
<1> DEFINE later == m.heard # 0 /\ m.heard >= n.heard
           h == IF later THEN m.heard ELSE n.heard
           o == IF later THEN m.online ELSE n.online
<1>1. MergedInto(n, m) = [n EXCEPT !.id = Either(m.id, n.id), !.mac = Either(m.mac, n.mac),
                                   !.pub = Either(m.pub, n.pub), !.heard = h, !.online = o]
  BY DEF MergedInto
<1>2. h \in 0..MaxTime /\ o \in BOOLEAN
  BY DEF Records
<1> HIDE DEF h, o
<1>3. /\ Either(m.id, n.id) \in {k.id : k \in Keys} \cup {Absent, Bad}
      /\ Either(m.mac, n.mac) \in {k.mac : k \in Keys} \cup {Absent, Bad}
      /\ Either(m.pub, n.pub) \in {k.pub : k \in Keys} \cup {Absent, Bad}
  BY DEF Records, Either
<1> QED BY <1>1, <1>2, <1>3 DEF Records

\* The data did not move.
SameData == UNCHANGED <<raw, rows, view, to, owner, cleanups, devices, seen, cut, whole>>

\* The idle callback is well formed.
LEMMA IdleIs == Idle \in Callbacks /\ Idle.pc = "idle"
BY DEF Idle, Callbacks, CallbackSteps

\* A callback begins, or leaves the position write.
LEMMA HearStep == ASSUME NodesInv, NEW i \in Handlers, Hear(i) \/ Located(i) PROVE NodesInv'
<1>0. NodesInv
  OBVIOUS
<1>1. SameData /\ UNCHANGED <<update, gen, up, suspended, labels, clock>>
  BY DEF Hear, Located, SameData
<1>2. /\ hear' \in [Handlers -> Callbacks] /\ hear[i].pc \in {"idle", "locating"}
      /\ hear'[i].pc \in {"idle", "locating", "waiting"}
      /\ hear'[i].pc # "idle" => hear'[i].key \in Keys /\ hear'[i].node \in Records
      /\ \A j \in Handlers \ {i} : hear'[j] = hear[j]
  <2>1. CASE Hear(i)
    <3>1. PICK o \in Observations, t \in 0..clock :
            hear' = [hear EXCEPT ![i] =
                [Idle EXCEPT !.pc = "locating", !.key = o.key, !.gen = gen,
                             !.node = [o.node EXCEPT !.heard = t, !.online = t # 0]]]
      BY <2>1 DEF Hear
    <3> DEFINE n == [o.node EXCEPT !.heard = t, !.online = t # 0]
    <3>2. o.key \in Keys /\ o.node \in Records /\ t \in 0..MaxTime
      BY <1>0, NodeInputsAssumption, NodeBoundsAssumption DEF NodesInv, TypedControl
    <3>3. n \in Records
      BY <3>2 DEF Records
    <3> HIDE DEF n
    <3>4. [Idle EXCEPT !.pc = "locating", !.key = o.key, !.gen = gen, !.node = n] \in Callbacks
      BY <1>0, <3>2, <3>3 DEF NodesInv, TypedControl, Callbacks, CallbackSteps, Idle
    <3>5. [Idle EXCEPT !.pc = "locating", !.key = o.key, !.gen = gen, !.node = n].pc = "locating"
          /\ [Idle EXCEPT !.pc = "locating", !.key = o.key, !.gen = gen, !.node = n].key = o.key
          /\ [Idle EXCEPT !.pc = "locating", !.key = o.key, !.gen = gen, !.node = n].node = n
      BY DEF Idle
    <3>6. hear' = [hear EXCEPT ![i] = [Idle EXCEPT !.pc = "locating", !.key = o.key, !.gen = gen, !.node = n]]
      BY <3>1 DEF n
    <3>7. hear[i].pc = "idle" /\ hear \in [Handlers -> Callbacks]
      BY <1>0, <2>1 DEF Hear, NodesInv, TypedControl
    <3>8. hear'[i] = [Idle EXCEPT !.pc = "locating", !.key = o.key, !.gen = gen, !.node = n]
          /\ \A j \in Handlers \ {i} : hear'[j] = hear[j]
      BY <3>6, <3>7
    <3>9. hear' \in [Handlers -> Callbacks]
      BY ONLY <3>4, <3>6, <3>7
    <3> QED BY ONLY <3>2, <3>3, <3>5, <3>7, <3>8, <3>9
  <2>2. CASE Located(i)
    <3> DEFINE r == IF Current(hear[i].gen) THEN [hear[i] EXCEPT !.pc = "waiting"] ELSE Idle
    <3>1. /\ hear \in [Handlers -> Callbacks] /\ hear[i].pc = "locating"
          /\ hear[i].key \in Keys /\ hear[i].node \in Records
      BY <1>0, <2>2 DEF Located, NodesInv, TypedControl
    <3>2. /\ hear' = [hear EXCEPT ![i] = r] /\ hear'[i] = r
          /\ \A j \in Handlers \ {i} : hear'[j] = hear[j]
      BY <2>2, <3>1 DEF Located
    <3>3. /\ r \in Callbacks /\ r.pc \in {"idle", "waiting"}
          /\ r.pc # "idle" => r.key \in Keys /\ r.node \in Records
      BY <3>1, IdleIs DEF Callbacks, CallbackSteps, Idle
    <3> QED BY ONLY <3>1, <3>2, <3>3
  <2> QED BY <2>1, <2>2
<1>3. ~up => hear'[i].pc = "idle"
  BY <1>0 DEF Hear, Located, NodesInv, Started
<1>4. TypedControl' /\ TypedData'
  BY <1>0, <1>1, <1>2 DEF NodesInv, TypedControl, TypedData, SameData, Cache
<1>5. Locked' /\ Started' /\ Holding'
  BY <1>0, <1>1, <1>2, <1>3 DEF NodesInv, Locked, Started, Holding, Starting, SameData, Empty
<1>6. Going' = Going /\ Saving' = Saving
  BY <1>0, <1>1, <1>2 DEF NodesInv, Going, Saving
<1>7. RowsFollow' /\ ViewFollows' /\ ViewSeen' /\ SeenHasDevice' /\ DevicesFollow'
  BY <1>0, <1>1, <1>6
     DEF NodesInv, RowsFollow, ViewFollows, ViewSeen, SeenHasDevice, DevicesFollow, InTask, ToRemove,
         SameData, SameRow
<1>8. KeptView' /\ ViewIsFresh'
  BY <1>0, <1>1, <1>2 DEF NodesInv, KeptView, ViewIsFresh, SameData, Earlier
<1> QED BY <1>4, <1>5, <1>7, <1>8 DEF NodesInv
\* The lock's holder merges the observation; the view is still that of the record
\* as it was.
LEMMA MergeStep == ASSUME NodesInv, NEW i \in Handlers, Merge(i) PROVE NodesInv'
<1> DEFINE k == hear[i].key
           known == k \in DOMAIN raw
           node == IF known THEN MergedInto(raw[k], hear[i].node) ELSE hear[i].node
           kept == known /\ Signature(node) = Signature(raw[k])
<1>0. NodesInv
  OBVIOUS
<1>1. /\ UNCHANGED <<rows, view, to, ceiling, update, cleanups, devices, labels, seen, local,
                     gen, suspended, up, clock, allowed, cut, whole>>
      /\ hear[i].pc = "waiting" /\ owner = Free /\ owner' = i
      /\ raw' = With(raw, k, node)
      /\ hear' = [hear EXCEPT ![i].pc = "saving", ![i].node = node, ![i].known = known,
                              ![i].kept = kept]
  BY DEF Merge
<1>2. /\ k \in Keys /\ hear[i].node \in Records /\ hear \in [Handlers -> Callbacks]
      /\ Cache(raw) /\ Cache(view)
  BY <1>0, <1>1 DEF NodesInv, TypedControl, TypedData
<1>3. known => raw[k] \in Records
  BY <1>2 DEF Cache
<1>4. node \in Records
  BY <1>2, <1>3, MergedIntoIs
<1>5. kept => known /\ Signature(node) = Signature(raw[k])
  OBVIOUS
<1>6. known \in BOOLEAN /\ kept \in BOOLEAN
  OBVIOUS
<1>7. known <=> k \in DOMAIN raw
  OBVIOUS
<1> HIDE DEF known, node, kept
<1>8. /\ Cache(raw') /\ DOMAIN raw' = DOMAIN raw \cup {k} /\ raw'[k] = node
      /\ \A j \in DOMAIN raw \ {k} : raw'[j] = raw[j]
  <2>1. /\ Cache(With(raw, k, node)) /\ DOMAIN With(raw, k, node) = DOMAIN raw \cup {k}
        /\ With(raw, k, node)[k] = node
        /\ \A j \in DOMAIN raw \ {k} : With(raw, k, node)[j] = raw[j]
    BY <1>2, <1>4, WithIs
  <2> QED BY <1>1, <2>1
<1>9. /\ hear' \in [Handlers -> Callbacks] /\ hear'[i].pc = "saving" /\ hear'[i].key = k
      /\ hear'[i].node = node /\ hear'[i].kept = kept
      /\ \A j \in Handlers \ {i} : hear'[j] = hear[j]
  <2>1. hear[i] \in Callbacks
    BY <1>2
  <2>2. [hear[i] EXCEPT !.pc = "saving", !.node = node, !.known = known, !.kept = kept] \in Callbacks
    BY <1>4, <1>6, <2>1 DEF Callbacks, CallbackSteps
  <2>3. hear'[i] = [hear[i] EXCEPT !.pc = "saving", !.node = node, !.known = known, !.kept = kept]
        /\ \A j \in Handlers \ {i} : hear'[j] = hear[j]
    BY <1>1, <1>2
  <2>4. hear' \in [Handlers -> Callbacks]
    BY <1>1, <1>2, <2>2
  <2> QED BY <2>1, <2>3, <2>4 DEF Callbacks
<1>10. up /\ update.pc # "load"
  BY <1>0, <1>1 DEF NodesInv, Started, Starting, TypedControl
<1>11. TypedControl' /\ TypedData'
  BY <1>0, <1>1, <1>2, <1>4, <1>8, <1>9 DEF NodesInv, TypedControl, TypedData, Cache
<1>12. Locked'
  BY <1>0, <1>1, <1>9, NodeInputsAssumption DEF NodesInv, Locked, Free, Periodic
<1>13. Started'
  BY <1>0, <1>1, <1>10 DEF NodesInv, Started, Starting, Empty
<1>14. \A j \in Handlers : hear[j].pc \notin {"saving", "deleting"}
  BY <1>0, <1>1, NodeInputsAssumption DEF NodesInv, Locked
<1>15. Holding'
  <2>1. SameButOnline(node, node)
    BY <1>4, SameIsSame
  <2>2. update.pc # "deleting"
    BY <1>0, <1>1 DEF NodesInv, Locked, Free, Periodic
  <2> QED BY <1>1, <1>8, <1>9, <1>14, <2>1, <2>2 DEF Holding
<1>16. Going = {} /\ Saving = {} /\ Going' = {} /\ Saving' = {k}
  BY <1>0, <1>1, <1>9, <1>11, <1>12, InHand, InHandNext DEF NodesInv
<1>17. RowsFollow' /\ ViewFollows' /\ DevicesFollow'
  BY <1>0, <1>1, <1>8, <1>16
     DEF NodesInv, RowsFollow, ViewFollows, DevicesFollow, ToRemove, SameRow
<1>18. ViewSeen' /\ SeenHasDevice'
  BY <1>0, <1>1 DEF NodesInv, ViewSeen, SeenHasDevice, InTask
<1>19. KeptView'
  <2>1. ASSUME kept, whole, gen > 0
        PROVE  \E n \in Records :
                    /\ Signature(n) = Signature(raw'[k])
                    /\ view = Effective([raw' EXCEPT ![k] = n])
                    /\ to = Redirects([raw' EXCEPT ![k] = n])
    <3>1. k \in DOMAIN raw /\ raw[k] \in Records /\ Signature(node) = Signature(raw[k])
      BY <2>1, <1>3, <1>5, <1>7
    <3>2. [raw' EXCEPT ![k] = raw[k]] = raw
      BY <1>2, <1>8, <3>1 DEF Cache
    <3>3. view = Effective(raw) /\ to = Redirects(raw)
      BY <1>0, <1>1, <2>1 DEF NodesInv, ViewIsFresh
    <3> QED BY <1>8, <3>1, <3>2, <3>3
  <2>2. \A j \in Handlers : hear'[j].pc = "saving" => j = i
    BY <1>9, <1>14
  <2>3. view' = view /\ to' = to /\ whole' = whole /\ gen' = gen
        /\ hear'[i].key = k /\ hear'[i].kept = kept
    BY <1>1, <1>9
  <2>4. SUFFICES ASSUME kept, whole, gen > 0
                 PROVE  \E n \in Records :
                            /\ Signature(n) = Signature(raw'[k])
                            /\ view' = Effective([raw' EXCEPT ![k] = n])
                            /\ to' = Redirects([raw' EXCEPT ![k] = n])
    BY <2>2, <2>3 DEF KeptView, Earlier
  <2> QED BY <2>1, <2>3, <2>4
<1>20. ViewIsFresh'
  BY <1>1, NodeInputsAssumption DEF ViewIsFresh
<1> QED BY <1>11, <1>12, <1>13, <1>15, <1>17, <1>18, <1>19, <1>20 DEF NodesInv

\* A callback that ends before it is done.
LEMMA CutStep ==
    ASSUME NodesInv, NEW i \in Handlers,
           SaveFails(i) \/ SavedTooLate(i) \/ DeleteFails(i) \/ DeletedTooLate(i)
    PROVE  NodesInv'
<1> DEFINE k == hear[i].key
           S == IF hear[i].pc = "deleting" THEN hear[i].gone ELSE {}
<1>0. NodesInv
  OBVIOUS
<1>1. /\ UNCHANGED <<raw, view, to, ceiling, update, cleanups, devices, labels, seen, local,
                     gen, suspended, up, clock>>
      /\ hear[i].pc \in {"saving", "deleting"}
      /\ hear' = [hear EXCEPT ![i] = Idle] /\ owner' = Free /\ cut' = cut \cup S \cup {k}
      /\ whole' = FALSE
  BY DEF SaveFails, SavedTooLate, DeleteFails, DeletedTooLate, CutShort
<1>2. \/ rows' = rows
      \/ (hear[i].pc = "saving" /\ rows' = With(rows, k, hear[i].node))
      \/ rows' = Without(rows, S)
  BY DEF SaveFails, SavedTooLate, DeleteFails, DeletedTooLate, SaveRow, DeleteRows
<1>3. k \in Keys /\ hear[i].node \in Records /\ hear \in [Handlers -> Callbacks] /\ Cache(rows)
  BY <1>0, <1>1 DEF NodesInv, TypedControl, TypedData
<1>4. /\ Cache(rows')
      /\ \A j \in Keys \ (S \cup {k}) : j \in DOMAIN rows <=> j \in DOMAIN rows'
      /\ \A j \in DOMAIN rows \ (S \cup {k}) : rows'[j] = rows[j]
  <2>1. CASE rows' = rows
    BY <1>3, <2>1
  <2>2. CASE rows' = With(rows, k, hear[i].node)
    <3> DEFINE n == hear[i].node
    <3>0. Cache(rows) /\ k \in Keys /\ n \in Records /\ rows' = With(rows, k, n)
      BY <1>3, <2>2
    <3> HIDE DEF k, n
    <3>1. /\ Cache(With(rows, k, n)) /\ DOMAIN With(rows, k, n) = DOMAIN rows \cup {k}
          /\ \A j \in DOMAIN rows \ {k} : With(rows, k, n)[j] = rows[j]
      BY <3>0, WithIs
    <3>2. rows' = With(rows, k, n)
      BY <3>0
    <3> HIDE DEF k, n
    <3> QED BY <3>1, <3>2
  <2>3. CASE rows' = Without(rows, S)
    <3> HIDE DEF S
    <3>1. /\ Cache(Without(rows, S)) /\ DOMAIN Without(rows, S) = DOMAIN rows \ S
          /\ \A j \in DOMAIN rows \ S : Without(rows, S)[j] = rows[j]
      BY <1>3, WithoutIs
    <3> QED BY <2>3, <3>1
  <2> QED BY <1>2, <2>1, <2>2, <2>3
<1>5. /\ hear' \in [Handlers -> Callbacks] /\ hear'[i] = Idle /\ Idle.pc = "idle"
      /\ \A j \in Handlers \ {i} : hear'[j] = hear[j]
  BY <1>1, <1>3, IdleIs
<1>6. owner = i /\ (\A j \in Handlers \ {i} : hear[j].pc \notin {"saving", "deleting"})
      /\ update.pc # "deleting" /\ up /\ update.pc # "load"
  <2>1. owner = i
    BY <1>0, <1>1 DEF NodesInv, Locked
  <2> QED BY <1>0, <1>1, <2>1, NodeInputsAssumption
          DEF NodesInv, Locked, Started, Starting, TypedControl
<1>7. Going = S /\ Saving \subseteq {k}
  BY <1>0, <1>1, InHand DEF NodesInv
<1>8. TypedControl' /\ TypedData'
  BY <1>0, <1>1, <1>4, <1>5 DEF NodesInv, TypedControl, TypedData, Cache
<1>9. Locked'
  BY <1>0, <1>1, <1>5, <1>6, NodeInputsAssumption DEF Locked, Free, Periodic
<1>10. Going' = {} /\ Saving' = {}
  BY <1>1, <1>8, <1>9, InHandNext
<1>11. Started' /\ Holding'
  BY <1>0, <1>1, <1>5, <1>6 DEF NodesInv, Started, Starting, Holding, Empty
<1> HIDE DEF S
<1>12. RowsFollow' /\ ViewFollows' /\ DevicesFollow'
  BY <1>0, <1>1, <1>4, <1>7, <1>10
     DEF NodesInv, RowsFollow, ViewFollows, DevicesFollow, ToRemove, SameRow
<1>13. ViewSeen' /\ SeenHasDevice'
  BY <1>0, <1>1 DEF NodesInv, ViewSeen, SeenHasDevice, InTask
<1>14. KeptView' /\ ViewIsFresh'
  BY <1>1 DEF KeptView, ViewIsFresh
<1> QED BY <1>8, <1>9, <1>11, <1>12, <1>13, <1>14 DEF NodesInv

\* However the view is refreshed after a save, it is the view of all the records
\* or keeps its nodes.
LEMMA RefreshIs ==
    ASSUME NodesInv, NEW i \in Handlers, hear[i].pc = "saving",
           Refresh(raw, hear[i].key, hear[i].kept)
    PROVE  \/ (view' = Effective(raw) /\ to' = Redirects(raw) /\ whole' = TRUE)
           \/ (/\ Cache(view') /\ DOMAIN view' = DOMAIN view /\ to' = to /\ whole' = whole
               /\ whole /\ gen > 0 => view' = Effective(raw) /\ to' = Redirects(raw))
<1> DEFINE k == hear[i].key
           e == to[k]
           part == [j \in Aliases(e) |-> raw[j]]
<1>0. NodesInv
  OBVIOUS
<1>1. CASE RefreshAll(raw)
  BY <1>1 DEF RefreshAll
<1>2. CASE /\ hear[i].kept /\ k \in DOMAIN to /\ Aliases(e) \subseteq DOMAIN raw
           /\ DOMAIN Effective(part) = {e}
           /\ view' = With(view, e, Effective(part)[e]) /\ UNCHANGED <<to, whole>>
  <2>1. /\ Cache(raw) /\ Cache(view) /\ k \in Keys /\ k \in DOMAIN raw
        /\ to \in [DOMAIN to -> DOMAIN view]
    BY <1>0 DEF NodesInv, TypedData, TypedControl, Holding
  <2>2. e \in DOMAIN view /\ e \in Keys
    BY <1>2, <2>1 DEF Cache
  <2>3. Cache(part)
    BY <1>2, <2>1 DEF Cache
  <2>4. Effective(part)[e] \in Records
    <3> HIDE DEF part
    <3> QED BY <1>2, <2>3, ProjectionIs
  <2>5. Cache(view') /\ DOMAIN view' = DOMAIN view
    <3> DEFINE v == Effective(part)[e]
    <3>1. view' = With(view, e, v) /\ v \in Records
      BY <1>2, <2>4
    <3> HIDE DEF v, e
    <3>2. Cache(With(view, e, v)) /\ DOMAIN With(view, e, v) = DOMAIN view \cup {e}
      BY <2>1, <2>2, <3>1, WithIs
    <3> QED BY <2>2, <3>1, <3>2
  <2>6. ASSUME whole, gen > 0 PROVE view' = Effective(raw) /\ to' = Redirects(raw)
    <3>1. PICK n \in Records : /\ Signature(n) = Signature(raw[k])
                               /\ view = Effective([raw EXCEPT ![k] = n])
                               /\ to = Redirects([raw EXCEPT ![k] = n])
      BY <1>0, <1>2, <2>6 DEF NodesInv, KeptView, Earlier
    <3> DEFINE a == [raw EXCEPT ![k] = n]
    <3>2. /\ Cache(a) /\ DOMAIN a = DOMAIN raw /\ Signature(a[k]) = Signature(raw[k])
          /\ \A j \in DOMAIN a \ {k} : a[j] = raw[j]
      BY <2>1, <3>1 DEF Cache
    <3>3. view = Effective(a) /\ to = Redirects(a)
      BY <3>1
    <3> HIDE DEF a
    <3>4. DOMAIN to = DOMAIN a
      BY <3>3 DEF Redirects
    <3>5. part = [j \in {j \in DOMAIN a : Redirects(a)[j] = Redirects(a)[k]} |-> raw[j]]
      BY <3>3, <3>4 DEF Aliases
    <3>6. DOMAIN Effective(part) = {Redirects(a)[k]}
      BY <1>2, <3>3
    <3> HIDE DEF part
    <3>7. /\ Redirects(a) = Redirects(raw)
          /\ With(Effective(a), Redirects(a)[k], Effective(part)[Redirects(a)[k]]) = Effective(raw)
      <4> HIDE DEF k
      <4> QED BY <2>1, <3>2, <3>5, <3>6, OneNode
    <3>8. view' = With(Effective(a), Redirects(a)[k], Effective(part)[Redirects(a)[k]])
      BY <1>2, <3>3
    <3>9. view' = Effective(raw)
      BY ONLY <3>7, <3>8
    <3> QED BY <1>2, <3>3, <3>7, <3>9
  <2> QED BY <1>2, <2>5, <2>6
<1>3. QED
  BY <1>1, <1>2 DEF Refresh, RefreshOne

\* The record is saved and its node published.
LEMMA SavedAndDoneStep == ASSUME NodesInv, NEW i \in Handlers, SavedAndDone(i) PROVE NodesInv'
<1> DEFINE k == hear[i].key
<1>0. NodesInv
  OBVIOUS
<1>1. /\ UNCHANGED <<raw, update, cleanups, labels, local, gen, suspended, up, clock, allowed>>
      /\ hear[i].pc = "saving" /\ hear' = [hear EXCEPT ![i] = Idle] /\ owner' = Free
      /\ rows' = With(rows, k, hear[i].node) /\ cut' = cut \ {k}
      /\ Refresh(raw, k, hear[i].kept)
  BY DEF SavedAndDone, SaveRow
<1>2. /\ seen' = IF Pending THEN seen ELSE seen \cup DOMAIN view'
      /\ devices' = IF Pending THEN devices ELSE devices \cup (DOMAIN view' \ seen)
  BY DEF SavedAndDone, Publish, AddMissing
<1>3. /\ k \in Keys /\ hear[i].node \in Records /\ hear \in [Handlers -> Callbacks]
      /\ Cache(rows) /\ Cache(raw)
      /\ k \in DOMAIN raw /\ SameButOnline(hear[i].node, raw[k])
  BY <1>0, <1>1 DEF NodesInv, TypedControl, TypedData, Holding
<1>4. /\ Cache(rows') /\ DOMAIN rows' = DOMAIN rows \cup {k} /\ rows'[k] = hear[i].node
      /\ \A j \in DOMAIN rows \ {k} : rows'[j] = rows[j]
  <2> DEFINE n == hear[i].node
  <2>0. Cache(rows) /\ k \in Keys /\ n \in Records
    BY <1>3
  <2> HIDE DEF k, n
  <2>1. /\ Cache(With(rows, k, n)) /\ DOMAIN With(rows, k, n) = DOMAIN rows \cup {k}
        /\ With(rows, k, n)[k] = n
        /\ \A j \in DOMAIN rows \ {k} : With(rows, k, n)[j] = rows[j]
    BY <2>0, WithIs
  <2> USE DEF n
  <2>2. rows' = With(rows, k, n)
    BY <1>1
  <2> HIDE DEF k
  <2> QED BY <2>1, <2>2
<1>5. /\ hear' \in [Handlers -> Callbacks] /\ hear'[i] = Idle /\ Idle.pc = "idle"
      /\ \A j \in Handlers \ {i} : hear'[j] = hear[j]
  BY <1>1, <1>3, IdleIs
<1>6. owner = i /\ (\A j \in Handlers \ {i} : hear[j].pc \notin {"saving", "deleting"})
      /\ update.pc # "deleting" /\ up /\ update.pc # "load" /\ ~Starting
  <2>1. owner = i
    BY <1>0, <1>1 DEF NodesInv, Locked
  <2> QED BY <1>0, <1>1, <2>1, NodeInputsAssumption
          DEF NodesInv, Locked, Started, Starting, TypedControl
<1>7. Going = {} /\ Saving = {k}
  BY <1>0, <1>1, InHand DEF NodesInv
<1>8. \/ (view' = Effective(raw) /\ to' = Redirects(raw) /\ whole' = TRUE)
      \/ (/\ Cache(view') /\ DOMAIN view' = DOMAIN view /\ to' = to /\ whole' = whole
          /\ whole /\ gen > 0 => view' = Effective(raw) /\ to' = Redirects(raw))
  BY <1>0, <1>1, RefreshIs
<1>9. /\ Cache(view') /\ whole' \in BOOLEAN
      /\ DOMAIN to' \subseteq Keys /\ to' \in [DOMAIN to' -> DOMAIN view']
      /\ DOMAIN view' \subseteq DOMAIN raw \cup cut'
  <2>1. CASE view' = Effective(raw) /\ to' = Redirects(raw) /\ whole' = TRUE
    <3>1. DOMAIN Redirects(raw) = DOMAIN raw
          /\ Redirects(raw) \in [DOMAIN raw -> DOMAIN Effective(raw)]
          /\ DOMAIN Effective(raw) \subseteq DOMAIN raw
          /\ Effective(raw) \in [DOMAIN Effective(raw) -> Records]
      BY <1>3, ProjectionIs
    <3> QED BY <1>3, <2>1, <3>1 DEF Cache
  <2>2. CASE Cache(view') /\ DOMAIN view' = DOMAIN view /\ to' = to /\ whole' = whole
    BY <1>0, <1>1, <1>3, <1>7, <2>2 DEF NodesInv, TypedData, TypedControl, ViewFollows
  <2> QED BY <1>8, <2>1, <2>2
<1>10. TypedControl'
  BY <1>0, <1>1, <1>5, <1>9 DEF NodesInv, TypedControl
<1>11. TypedData'
  <2>1. devices' \subseteq Keys /\ labels \subseteq devices' /\ seen' \subseteq Keys
    BY <1>0, <1>2, <1>9 DEF NodesInv, TypedData, Cache
  <2> QED BY <1>1, <1>3, <1>4, <1>9, <2>1 DEF TypedData
<1>12. Locked'
  BY <1>0, <1>1, <1>5, <1>6, NodeInputsAssumption DEF Locked, Free, Periodic
<1>13. Going' = {} /\ Saving' = {}
  BY <1>1, <1>10, <1>12, InHandNext
<1>14. Started'
  BY <1>0, <1>1, <1>6 DEF NodesInv, Started, Starting
<1>15. Holding'
  BY <1>1, <1>5, <1>6 DEF Holding
<1>16. RowsFollow'
  BY <1>0, <1>1, <1>3, <1>4, <1>6, <1>7, <1>13 DEF NodesInv, RowsFollow, SameRow
<1>17. ViewFollows'
  BY <1>1, <1>9 DEF ViewFollows
<1>18. ViewSeen'
  BY <1>1, <1>2 DEF ViewSeen, Pending
<1>19. SeenHasDevice'
  BY <1>0, <1>1, <1>2 DEF NodesInv, SeenHasDevice, InTask
<1>20. DevicesFollow'
  BY <1>0, <1>1, <1>2, <1>3, <1>6, <1>7, <1>9, <1>13 DEF NodesInv, DevicesFollow, ToRemove
<1>21. KeptView'
  BY <1>5, <1>6 DEF KeptView
<1>22. ViewIsFresh'
  BY <1>1, <1>8 DEF ViewIsFresh
<1> QED BY <1>10, <1>11, <1>12, <1>14, <1>15, <1>16, <1>17, <1>18, <1>19, <1>20, <1>21, <1>22 DEF NodesInv

\* The record is saved and others leave the cache.
LEMMA SavedAndEvictStep == ASSUME NodesInv, NEW i \in Handlers, SavedAndEvict(i) PROVE NodesInv'
<1> DEFINE k == hear[i].key
           G == GoneFor(i)
<1>0. NodesInv
  OBVIOUS
<1>1. /\ UNCHANGED <<view, to, owner, update, cleanups, devices, labels, seen, local, gen,
                     suspended, up, clock, allowed, cut, whole>>
      /\ hear[i].pc = "saving" /\ hear' = [hear EXCEPT ![i].pc = "deleting", ![i].gone = G]
      /\ rows' = With(rows, k, hear[i].node) /\ raw' = Without(raw, G)
  BY DEF SavedAndEvict, SaveRow
<1>2. G \subseteq DOMAIN raw \ {k}
  BY EvictedIs DEF GoneFor
<1> HIDE DEF G
<1>3. /\ k \in Keys /\ hear[i].node \in Records /\ hear \in [Handlers -> Callbacks]
      /\ Cache(rows) /\ Cache(raw) /\ G \subseteq Keys
      /\ k \in DOMAIN raw /\ SameButOnline(hear[i].node, raw[k])
  BY <1>0, <1>1, <1>2 DEF NodesInv, TypedControl, TypedData, Holding, Cache
<1>4. /\ Cache(rows') /\ DOMAIN rows' = DOMAIN rows \cup {k} /\ rows'[k] = hear[i].node
      /\ \A j \in DOMAIN rows \ {k} : rows'[j] = rows[j]
  <2> DEFINE n == hear[i].node
  <2>0. Cache(rows) /\ k \in Keys /\ n \in Records /\ rows' = With(rows, k, n)
    BY <1>1, <1>3
  <2>1. n = hear[i].node
    OBVIOUS
  <2> HIDE DEF k, n
  <2>2. /\ Cache(With(rows, k, n)) /\ DOMAIN With(rows, k, n) = DOMAIN rows \cup {k}
        /\ With(rows, k, n)[k] = n
        /\ \A j \in DOMAIN rows \ {k} : With(rows, k, n)[j] = rows[j]
    BY <2>0, WithIs
  <2> QED BY <2>0, <2>1, <2>2
<1>5. /\ Cache(raw') /\ DOMAIN raw' = DOMAIN raw \ G
      /\ \A j \in DOMAIN raw \ G : raw'[j] = raw[j]
  <2>1. /\ Cache(Without(raw, G)) /\ DOMAIN Without(raw, G) = DOMAIN raw \ G
        /\ \A j \in DOMAIN raw \ G : Without(raw, G)[j] = raw[j]
    BY <1>3, WithoutIs
  <2> QED BY <1>1, <2>1
<1>6. /\ hear' \in [Handlers -> Callbacks] /\ hear'[i].pc = "deleting" /\ hear'[i].key = k
      /\ hear'[i].node = hear[i].node /\ hear'[i].gone = G
      /\ \A j \in Handlers \ {i} : hear'[j] = hear[j]
  <2>1. hear[i] \in Callbacks
    BY <1>3
  <2>2. [hear[i] EXCEPT !.pc = "deleting", !.gone = G] \in Callbacks
    BY <1>3, <2>1 DEF Callbacks, CallbackSteps
  <2>3. hear'[i] = [hear[i] EXCEPT !.pc = "deleting", !.gone = G]
        /\ \A j \in Handlers \ {i} : hear'[j] = hear[j]
    BY <1>1, <1>3
  <2>4. hear' \in [Handlers -> Callbacks]
    BY <1>1, <1>3, <2>2
  <2> QED BY <2>1, <2>3, <2>4 DEF Callbacks
<1>7. owner = i /\ (\A j \in Handlers \ {i} : hear[j].pc \notin {"saving", "deleting"})
      /\ update.pc # "deleting" /\ up /\ update.pc # "load" /\ ~Starting
  <2>1. owner = i
    BY <1>0, <1>1 DEF NodesInv, Locked
  <2> QED BY <1>0, <1>1, <2>1, NodeInputsAssumption
          DEF NodesInv, Locked, Started, Starting, TypedControl
<1>8. Going = {} /\ Saving = {k}
  BY <1>0, <1>1, InHand DEF NodesInv
<1>9. TypedControl'
  BY <1>0, <1>1, <1>3, <1>6 DEF NodesInv, TypedControl
<1>10. TypedData'
  BY <1>0, <1>1, <1>4, <1>5 DEF NodesInv, TypedData, Cache
<1>11. Locked'
  BY <1>0, <1>1, <1>6, <1>7, NodeInputsAssumption DEF Locked, Free, Periodic
<1>12. Going' = G /\ Saving' = {}
  BY <1>6, <1>9, <1>11, InHandNext
<1>13. Started'
  BY <1>0, <1>1, <1>7 DEF NodesInv, Started, Starting
<1>14. Holding'
  BY <1>1, <1>2, <1>3, <1>4, <1>5, <1>6, <1>7 DEF Holding
<1>15. RowsFollow'
  BY <1>0, <1>1, <1>2, <1>3, <1>4, <1>5, <1>7, <1>8, <1>12 DEF NodesInv, RowsFollow, SameRow
<1>16. ViewFollows' /\ DevicesFollow'
  BY <1>0, <1>1, <1>5, <1>7, <1>8, <1>12 DEF NodesInv, ViewFollows, DevicesFollow, ToRemove
<1>17. ViewSeen' /\ SeenHasDevice'
  BY <1>0, <1>1 DEF NodesInv, ViewSeen, SeenHasDevice, InTask
<1>18. KeptView'
  BY <1>6, <1>7 DEF KeptView
<1>19. ViewIsFresh'
  BY <1>1, <1>7, NodeInputsAssumption DEF ViewIsFresh
<1> QED BY <1>9, <1>10, <1>11, <1>13, <1>14, <1>15, <1>16, <1>17, <1>18, <1>19 DEF NodesInv

\* What a view built from all the records is.
LEMMA RefreshAllIs ==
    ASSUME NEW nodes, Cache(nodes), RefreshAll(nodes)
    PROVE  /\ Cache(view') /\ DOMAIN view' \subseteq DOMAIN nodes
           /\ DOMAIN to' \subseteq Keys /\ to' \in [DOMAIN to' -> DOMAIN view']
           /\ view' = Effective(nodes) /\ to' = Redirects(nodes) /\ whole' = TRUE
<1>1. /\ DOMAIN Redirects(nodes) = DOMAIN nodes
      /\ Redirects(nodes) \in [DOMAIN nodes -> DOMAIN Effective(nodes)]
      /\ DOMAIN Effective(nodes) \subseteq DOMAIN nodes
      /\ Effective(nodes) \in [DOMAIN Effective(nodes) -> Records]
  BY ProjectionIs
<1>2. view' = Effective(nodes) /\ to' = Redirects(nodes) /\ whole' = TRUE
  BY DEF RefreshAll
<1> QED BY <1>1, <1>2 DEF Cache

\* A cleanup task is added.
LEMMA ScheduledIs ==
    ASSUME TypedControl, NEW G \in SUBSET Keys, ScheduleCleanup(G)
    PROVE  /\ cleanups' \in Seq(Tasks) /\ cleanups' # <<>>
           /\ \A n \in DOMAIN cleanups' : cleanups'[n].todo \subseteq cleanups'[n].keys
           /\ \A k : InTask(k)' <=> InTask(k) \/ k \in G
           /\ \A k : ToRemove(k)' <=> ToRemove(k) \/ k \in G
<1> DEFINE t == [keys |-> G, todo |-> G]
<1>1. t \in Tasks /\ t.keys = G /\ t.todo = G
  BY DEF Tasks
<1>2. cleanups \in Seq(Tasks) /\ cleanups' = Append(cleanups, t)
      /\ \A n \in DOMAIN cleanups : cleanups[n].todo \subseteq cleanups[n].keys
  BY DEF TypedControl, ScheduleCleanup
<1> HIDE DEF t
<1>3. /\ cleanups' \in Seq(Tasks) /\ DOMAIN cleanups' = 1..(Len(cleanups) + 1)
      /\ DOMAIN cleanups = 1..Len(cleanups) /\ Len(cleanups) \in Nat
      /\ \A n \in DOMAIN cleanups : cleanups'[n] = cleanups[n]
      /\ cleanups'[Len(cleanups) + 1] = t /\ cleanups' # <<>>
  BY <1>1, <1>2
<1>4. \A n \in DOMAIN cleanups' : n \in DOMAIN cleanups \/ n = Len(cleanups) + 1
  BY <1>3
<1>5. DOMAIN cleanups \subseteq DOMAIN cleanups' /\ Len(cleanups) + 1 \in DOMAIN cleanups'
  BY <1>3
<1> QED BY <1>1, <1>2, <1>3, <1>4, <1>5 DEF InTask, ToRemove

\* The evicted rows are gone and their devices are to be removed.
LEMMA DeletedStep == ASSUME NodesInv, NEW i \in Handlers, Deleted(i) PROVE NodesInv'
<1> DEFINE k == hear[i].key
           G == hear[i].gone
<1>0. NodesInv
  OBVIOUS
<1>1. /\ UNCHANGED <<raw, ceiling, update, labels, local, gen, suspended, up, clock, allowed>>
      /\ hear[i].pc = "deleting" /\ hear' = [hear EXCEPT ![i] = Idle] /\ owner' = Free
      /\ rows' = Without(rows, G) /\ cut' = cut \ (G \cup {k})
      /\ RefreshAll(raw) /\ ScheduleCleanup(G) /\ UNCHANGED <<devices, seen>>
  BY DEF Deleted, DeleteRows, Publish, AddMissing
<1>3. /\ k \in Keys /\ hear \in [Handlers -> Callbacks] /\ Cache(rows) /\ Cache(raw)
      /\ G \in SUBSET Keys /\ k \in DOMAIN raw \cap DOMAIN rows /\ G \cap DOMAIN raw = {}
      /\ SameButOnline(rows[k], raw[k])
  BY <1>0, <1>1 DEF NodesInv, TypedControl, TypedData, Holding, Callbacks
<1>4. /\ Cache(rows') /\ DOMAIN rows' = DOMAIN rows \ G
      /\ \A j \in DOMAIN rows \ G : rows'[j] = rows[j]
  <2>1. /\ Cache(Without(rows, G)) /\ DOMAIN Without(rows, G) = DOMAIN rows \ G
        /\ \A j \in DOMAIN rows \ G : Without(rows, G)[j] = rows[j]
    <3> HIDE DEF G
    <3> QED BY <1>3, WithoutIs
  <2> QED BY <1>1, <2>1
<1>5. /\ hear' \in [Handlers -> Callbacks] /\ hear'[i] = Idle /\ Idle.pc = "idle"
      /\ \A j \in Handlers \ {i} : hear'[j] = hear[j]
  BY <1>1, <1>3, IdleIs
<1>6. owner = i /\ (\A j \in Handlers \ {i} : hear[j].pc \notin {"saving", "deleting"})
      /\ update.pc # "deleting" /\ up /\ update.pc # "load" /\ ~Starting
  <2>1. owner = i
    BY <1>0, <1>1 DEF NodesInv, Locked
  <2> QED BY <1>0, <1>1, <2>1, NodeInputsAssumption
          DEF NodesInv, Locked, Started, Starting, TypedControl
<1>7. Going = G /\ Saving = {}
  BY <1>0, <1>1, InHand DEF NodesInv
<1>8. /\ Cache(view') /\ DOMAIN view' \subseteq DOMAIN raw
      /\ DOMAIN to' \subseteq Keys /\ to' \in [DOMAIN to' -> DOMAIN view']
      /\ view' = Effective(raw) /\ to' = Redirects(raw) /\ whole' = TRUE
  BY <1>1, <1>3, RefreshAllIs
<1>9. /\ cleanups' \in Seq(Tasks) /\ cleanups' # <<>>
      /\ \A n \in DOMAIN cleanups' : cleanups'[n].todo \subseteq cleanups'[n].keys
      /\ \A j : InTask(j)' <=> InTask(j) \/ j \in G
      /\ \A j : ToRemove(j)' <=> ToRemove(j) \/ j \in G
  <2>1. TypedControl /\ G \in SUBSET Keys /\ ScheduleCleanup(G)
    BY <1>0, <1>1, <1>3 DEF NodesInv
  <2> HIDE DEF G
  <2> QED BY <2>1, ScheduledIs
<1>10. TypedControl'
  BY <1>0, <1>1, <1>5, <1>8, <1>9 DEF NodesInv, TypedControl
<1>11. TypedData'
  BY <1>0, <1>1, <1>3, <1>4, <1>8 DEF NodesInv, TypedData
<1>12. Locked'
  BY <1>0, <1>1, <1>5, <1>6, NodeInputsAssumption DEF Locked, Free, Periodic
<1>13. Going' = {} /\ Saving' = {}
  BY <1>1, <1>10, <1>12, InHandNext
<1>14. Started'
  BY <1>0, <1>1, <1>6 DEF NodesInv, Started, Starting
<1>15. Holding'
  BY <1>1, <1>5, <1>6 DEF Holding
<1>16. RowsFollow'
  BY <1>0, <1>1, <1>3, <1>4, <1>6, <1>7, <1>13 DEF NodesInv, RowsFollow, SameRow
<1>17. ViewFollows' /\ ViewSeen'
  BY <1>1, <1>8, <1>9 DEF ViewFollows, ViewSeen
<1>18. SeenHasDevice'
  BY <1>0, <1>1, <1>9 DEF NodesInv, SeenHasDevice
<1>19. DevicesFollow'
  BY <1>0, <1>1, <1>3, <1>6, <1>7, <1>9, <1>13 DEF NodesInv, DevicesFollow
<1>20. KeptView'
  BY <1>5, <1>6 DEF KeptView
<1>21. ViewIsFresh'
  BY <1>1, <1>8 DEF ViewIsFresh
<1> QED BY <1>10, <1>11, <1>12, <1>14, <1>15, <1>16, <1>17, <1>18, <1>19, <1>20, <1>21 DEF NodesInv

\* Nobody takes part in a start.
LEMMA StartIs ==
    ASSUME NodesInv, Starting
    PROVE  /\ ~up /\ ~suspended /\ gen = 0 /\ view = Empty /\ to = Empty /\ DOMAIN view = {}
           /\ update.pc # "deleting" /\ owner # Periodic
           /\ \A i \in Handlers : hear[i].pc = "idle" /\ owner # i
           /\ Going = {} /\ Saving = {}
<1>1. /\ ~up /\ ~suspended /\ gen = 0 /\ view = Empty /\ to = Empty
      /\ update.pc # "deleting" /\ \A i \in Handlers : hear[i].pc = "idle"
  BY DEF NodesInv, Started, Starting
<1>2. owner # Periodic /\ \A i \in Handlers : owner # i
  BY <1>1 DEF NodesInv, Locked
<1>3. Going = {} /\ Saving = {}
  BY <1>1 DEF Going, Saving
<1> QED BY <1>1, <1>2, <1>3, EmptyIs

\* What a trim at the start removes, and for whom it schedules a cleanup.
LEMMA TrimIs ==
    ASSUME TypedControl, NEW nodes, Cache(nodes), Cache(rows), NEW c, NEW next \in UpdateSteps,
           TrimAtStart(nodes, c, next)
    PROVE  \E G \in SUBSET DOMAIN nodes :
            /\ G \subseteq Keys
            /\ Cache(raw') /\ DOMAIN raw' = DOMAIN nodes \ G
            /\ \A j \in DOMAIN nodes \ G : raw'[j] = nodes[j]
            /\ Cache(rows') /\ DOMAIN rows' = DOMAIN rows \ G
            /\ \A j \in DOMAIN rows \ G : rows'[j] = rows[j]
            /\ cleanups' \in Seq(Tasks)
            /\ \A n \in DOMAIN cleanups' : cleanups'[n].todo \subseteq cleanups'[n].keys
            /\ \A k : InTask(k)' <=> InTask(k) \/ k \in G
            /\ \A k : ToRemove(k)' <=> ToRemove(k) \/ k \in G
            /\ update' \in Updates /\ update'.pc = next
<1> DEFINE G == Evicted(nodes, c, {})
<1>1. G \in SUBSET DOMAIN nodes /\ G \in SUBSET Keys
  BY EvictedIs DEF Cache
<1>2. raw' = Without(nodes, G) /\ rows' = Without(rows, G)
      /\ (IF G = {} THEN UNCHANGED cleanups ELSE ScheduleCleanup(G))
      /\ update' = [update EXCEPT !.pc = next]
  BY DEF TrimAtStart, DeleteRows
<1> HIDE DEF G
<1>3. /\ Cache(Without(nodes, G)) /\ DOMAIN Without(nodes, G) = DOMAIN nodes \ G
      /\ \A j \in DOMAIN nodes \ G : Without(nodes, G)[j] = nodes[j]
  BY WithoutIs
<1>4. /\ Cache(Without(rows, G)) /\ DOMAIN Without(rows, G) = DOMAIN rows \ G
      /\ \A j \in DOMAIN rows \ G : Without(rows, G)[j] = rows[j]
  BY WithoutIs
<1>5. /\ cleanups' \in Seq(Tasks)
      /\ \A n \in DOMAIN cleanups' : cleanups'[n].todo \subseteq cleanups'[n].keys
      /\ \A k : InTask(k)' <=> InTask(k) \/ k \in G
      /\ \A k : ToRemove(k)' <=> ToRemove(k) \/ k \in G
  <2>1. CASE G = {}
    BY <1>2, <2>1 DEF TypedControl, InTask, ToRemove
  <2>2. CASE G # {}
    BY <1>1, <1>2, <2>2, ScheduledIs
  <2> QED BY <2>1, <2>2
<1>6. update' \in Updates /\ update'.pc = next
  BY <1>2 DEF TypedControl, Updates
<1> QED BY <1>1, <1>2, <1>3, <1>4, <1>5, <1>6

\* The rows are loaded and trimmed to the window.
LEMMA LoadAndTrimStep == ASSUME NodesInv, LoadAndTrim PROVE NodesInv'
<1>0. NodesInv
  OBVIOUS
<1>1. /\ update.pc = "load" /\ TrimAtStart(rows, ceiling, "budget")
      /\ UNCHANGED <<owner, hear, labels, local, suspended, clock, allowed>>
      /\ UNCHANGED <<view, to, ceiling, devices, seen, gen, up, cut, whole>>
  BY DEF LoadAndTrim, Untouched
<1>2. Cache(rows) /\ TypedControl
  BY <1>0 DEF NodesInv, TypedData
<1>3. "budget" \in UpdateSteps
  BY DEF UpdateSteps
<1>4. PICK G \in SUBSET DOMAIN rows :
            /\ G \subseteq Keys
            /\ Cache(raw') /\ DOMAIN raw' = DOMAIN rows \ G
            /\ \A j \in DOMAIN rows \ G : raw'[j] = rows[j]
            /\ Cache(rows') /\ DOMAIN rows' = DOMAIN rows \ G
            /\ \A j \in DOMAIN rows \ G : rows'[j] = rows[j]
            /\ cleanups' \in Seq(Tasks)
            /\ \A n \in DOMAIN cleanups' : cleanups'[n].todo \subseteq cleanups'[n].keys
            /\ \A k : InTask(k)' <=> InTask(k) \/ k \in G
            /\ \A k : ToRemove(k)' <=> ToRemove(k) \/ k \in G
            /\ update' \in Updates /\ update'.pc = "budget"
  BY <1>1, <1>2, <1>3, TrimIs
<1>5. Starting
  BY <1>1 DEF Starting
<1>6. /\ ~up /\ ~suspended /\ gen = 0 /\ view = Empty /\ to = Empty /\ DOMAIN view = {}
      /\ update.pc # "deleting" /\ owner # Periodic
      /\ \A i \in Handlers : hear[i].pc = "idle" /\ owner # i
  BY <1>0, <1>5, StartIs
<1>7. TypedControl' /\ TypedData'
  BY <1>0, <1>1, <1>4 DEF NodesInv, TypedControl, TypedData
<1>8. Locked' /\ Holding'
  BY <1>1, <1>4, <1>6 DEF Locked, Holding
<1>9. Started'
  BY <1>1, <1>4, <1>6 DEF Started, Starting, Empty
<1>10. RowsFollow'
  <2>1. \A j \in DOMAIN raw' : SameButOnline(rows'[j], raw'[j])
    BY <1>4, SameIsSame DEF Cache
  <2> QED BY <1>4, <2>1 DEF RowsFollow, SameRow
<1>11. ViewFollows' /\ ViewSeen' /\ KeptView' /\ ViewIsFresh'
  BY <1>1, <1>6 DEF ViewFollows, ViewSeen, KeptView, ViewIsFresh
<1>12. seen = {} /\ devices \subseteq DOMAIN rows
  BY <1>0, <1>1 DEF NodesInv, Started
<1>13. SeenHasDevice' /\ DevicesFollow'
  BY <1>1, <1>4, <1>12 DEF SeenHasDevice, DevicesFollow
<1> QED BY <1>7, <1>8, <1>9, <1>10, <1>11, <1>13 DEF NodesInv

\* They are trimmed to the entity budget.
LEMMA TrimToBudgetStep == ASSUME NodesInv, TrimToBudget PROVE NodesInv'
<1>0. NodesInv
  OBVIOUS
<1>1. /\ update.pc = "budget"
      /\ UNCHANGED <<owner, hear, labels, local, suspended, clock, allowed>>
      /\ UNCHANGED <<view, to, devices, seen, gen, up, cut, whole>>
  BY DEF TrimToBudget, Untouched
<1>2. Cache(rows) /\ Cache(raw) /\ TypedControl
  BY <1>0 DEF NodesInv, TypedData
<1>3. PICK G \in SUBSET DOMAIN raw :
            /\ G \subseteq Keys
            /\ Cache(raw') /\ DOMAIN raw' = DOMAIN raw \ G
            /\ \A j \in DOMAIN raw \ G : raw'[j] = raw[j]
            /\ Cache(rows') /\ DOMAIN rows' = DOMAIN rows \ G
            /\ \A j \in DOMAIN rows \ G : rows'[j] = rows[j]
            /\ cleanups' \in Seq(Tasks)
            /\ \A n \in DOMAIN cleanups' : cleanups'[n].todo \subseteq cleanups'[n].keys
            /\ \A k : InTask(k)' <=> InTask(k) \/ k \in G
            /\ \A k : ToRemove(k)' <=> ToRemove(k) \/ k \in G
            /\ update' \in Updates /\ update'.pc = "project"
  <2>1. CASE Pending
    <3>1. update' = [update EXCEPT !.pc = "project"] /\ UNCHANGED <<raw, rows, cleanups>>
      BY <2>1 DEF TrimToBudget
    <3>2. update' \in Updates /\ update'.pc = "project"
      BY <1>2, <3>1 DEF TypedControl, Updates, UpdateSteps
    <3>3. /\ Cache(raw') /\ DOMAIN raw' = DOMAIN raw \ {}
          /\ \A j \in DOMAIN raw \ {} : raw'[j] = raw[j]
          /\ Cache(rows') /\ DOMAIN rows' = DOMAIN rows \ {}
          /\ \A j \in DOMAIN rows \ {} : rows'[j] = rows[j]
      BY <1>2, <3>1
    <3>4. /\ cleanups' \in Seq(Tasks)
          /\ \A n \in DOMAIN cleanups' : cleanups'[n].todo \subseteq cleanups'[n].keys
      BY <1>2, <3>1 DEF TypedControl
    <3>5. /\ \A k : InTask(k)' <=> InTask(k) \/ k \in {}
          /\ \A k : ToRemove(k)' <=> ToRemove(k) \/ k \in {}
      BY <3>1 DEF InTask, ToRemove
    <3>6. {} \in SUBSET DOMAIN raw /\ {} \subseteq Keys
      OBVIOUS
    <3> QED BY <3>2, <3>3, <3>4, <3>5, <3>6
  <2>2. CASE ~Pending
    <3>1. TrimAtStart(raw, ceiling', "project") /\ "project" \in UpdateSteps
      BY <2>2 DEF TrimToBudget, UpdateSteps
    <3>2. PICK c : TrimAtStart(raw, c, "project")
      BY <3>1
    <3> QED BY <1>2, <3>1, <3>2, TrimIs
  <2> QED BY <2>1, <2>2
<1>5. Starting
  BY <1>1 DEF Starting
<1>6. /\ ~up /\ ~suspended /\ gen = 0 /\ view = Empty /\ to = Empty /\ DOMAIN view = {}
      /\ update.pc # "deleting" /\ owner # Periodic
      /\ \A i \in Handlers : hear[i].pc = "idle" /\ owner # i
      /\ Going = {} /\ Saving = {}
  BY <1>0, <1>5, StartIs
<1>7. TypedControl' /\ TypedData'
  BY <1>0, <1>1, <1>3 DEF NodesInv, TypedControl, TypedData
<1>8. Locked' /\ Holding'
  BY <1>1, <1>3, <1>6 DEF Locked, Holding
<1>9. Started'
  BY <1>1, <1>3, <1>6 DEF Started, Starting, Empty
<1>10. RowsFollow'
  BY <1>0, <1>1, <1>3, <1>6 DEF NodesInv, RowsFollow, SameRow
<1>11. ViewFollows' /\ ViewSeen' /\ KeptView' /\ ViewIsFresh'
  BY <1>1, <1>6 DEF ViewFollows, ViewSeen, KeptView, ViewIsFresh
<1>13. SeenHasDevice' /\ DevicesFollow'
  BY <1>0, <1>1, <1>3, <1>6 DEF NodesInv, SeenHasDevice, DevicesFollow
<1> QED BY <1>7, <1>8, <1>9, <1>10, <1>11, <1>13 DEF NodesInv

\* The first view is built.
LEMMA ProjectStep == ASSUME NodesInv, Project PROVE NodesInv'
<1>0. NodesInv
  OBVIOUS
<1>1. /\ update.pc = "project" /\ RefreshAll(raw) /\ gen' = gen + 1
      /\ update' = [update EXCEPT !.pc = "wait"]
      /\ UNCHANGED <<owner, hear, labels, local, suspended, clock, allowed>>
      /\ UNCHANGED <<raw, rows, ceiling, cleanups, devices, seen, up, cut>>
  BY DEF Project, Untouched
<1>2. Cache(raw) /\ TypedControl
  BY <1>0 DEF NodesInv, TypedData
<1>3. update' \in Updates /\ update'.pc = "wait"
  BY <1>1, <1>2 DEF TypedControl, Updates, UpdateSteps
<1>4. /\ Cache(view') /\ DOMAIN view' \subseteq DOMAIN raw
      /\ DOMAIN to' \subseteq Keys /\ to' \in [DOMAIN to' -> DOMAIN view']
      /\ view' = Effective(raw) /\ to' = Redirects(raw) /\ whole' = TRUE
  BY <1>1, <1>2, RefreshAllIs
<1>5. Starting
  BY <1>1 DEF Starting
<1>6. /\ ~up /\ ~suspended /\ gen = 0 /\ view = Empty /\ to = Empty /\ DOMAIN view = {}
      /\ update.pc # "deleting" /\ owner # Periodic
      /\ \A i \in Handlers : hear[i].pc = "idle" /\ owner # i
      /\ Going = {} /\ Saving = {}
  BY <1>0, <1>5, StartIs
<1>7. TypedControl' /\ TypedData'
  BY <1>0, <1>1, <1>3, <1>4 DEF NodesInv, TypedControl, TypedData
<1>8. Locked' /\ Holding'
  BY <1>1, <1>3, <1>6 DEF Locked, Holding
<1>9. Started'
  BY <1>1, <1>3, <1>6 DEF Started, Starting
<1>10. RowsFollow' /\ DevicesFollow'
  BY <1>0, <1>1, <1>3, <1>6 DEF NodesInv, RowsFollow, SameRow, DevicesFollow, ToRemove
<1>11. ViewFollows' /\ ViewSeen' /\ KeptView' /\ ViewIsFresh'
  BY <1>1, <1>4, <1>6 DEF ViewFollows, ViewSeen, KeptView, ViewIsFresh
<1>13. SeenHasDevice'
  BY <1>0, <1>1 DEF NodesInv, SeenHasDevice, InTask
<1> QED BY <1>7, <1>8, <1>9, <1>10, <1>11, <1>13 DEF NodesInv

\* A refresh begins.
LEMMA BeginUpdateStep == ASSUME NodesInv, BeginUpdate PROVE NodesInv'
<1>0. NodesInv
  OBVIOUS
<1>1. /\ up /\ update.pc = "idle" /\ update' = [update EXCEPT !.pc = "wait"]
      /\ UNCHANGED <<raw, rows, view, to, ceiling, owner, hear, cleanups, devices, labels,
                     seen, local, gen, suspended, up, clock, cut, whole>>
  BY DEF BeginUpdate
<1>2. update' \in Updates /\ update'.pc = "wait" /\ update'.gone = update.gone
  BY <1>0, <1>1 DEF NodesInv, TypedControl, Updates, UpdateSteps
<1>3. TypedControl' /\ TypedData'
  BY <1>0, <1>1, <1>2 DEF NodesInv, TypedControl, TypedData
<1>4. Locked' /\ Started' /\ Holding'
  BY <1>0, <1>1, <1>2 DEF NodesInv, Locked, Started, Starting, Holding
<1>5. Going' = Going /\ Saving' = Saving
  BY <1>1, <1>2 DEF Going, Saving
<1>6. RowsFollow' /\ ViewFollows' /\ ViewSeen' /\ SeenHasDevice' /\ DevicesFollow'
  BY <1>0, <1>1, <1>2, <1>5
     DEF NodesInv, RowsFollow, ViewFollows, ViewSeen, SeenHasDevice, DevicesFollow, InTask, ToRemove,
         SameRow
<1>7. KeptView' /\ ViewIsFresh'
  BY <1>0, <1>1 DEF NodesInv, KeptView, ViewIsFresh, Earlier
<1> QED BY <1>3, <1>4, <1>6, <1>7 DEF NodesInv

\* The refresh evicts under the lock, or has nothing to evict.
LEMMA EnforceStep == ASSUME NodesInv, Enforce PROVE NodesInv'
<1> DEFINE G == IF Pending THEN {} ELSE Evicted(raw, Measured(raw), {})
<1>0. NodesInv
  OBVIOUS
<1>1. /\ update.pc = "wait" /\ owner = Free /\ raw' = Without(raw, G)
      /\ owner' = (IF G = {} THEN Free ELSE Periodic)
      /\ update' = [pc |-> IF G = {} THEN "prune" ELSE "deleting", gone |-> G]
      /\ UNCHANGED <<rows, view, to, hear, cleanups, devices, labels, seen, local, gen,
                     suspended, up, clock, allowed, cut, whole>>
  BY DEF Enforce
<1>2. G \subseteq DOMAIN raw
  BY EvictedIs
<1> HIDE DEF G
<1>3. Cache(raw) /\ G \in SUBSET Keys
  BY <1>0, <1>2 DEF NodesInv, TypedData, Cache
<1>4. /\ Cache(raw') /\ DOMAIN raw' = DOMAIN raw \ G
      /\ \A j \in DOMAIN raw \ G : raw'[j] = raw[j]
  <2>1. /\ Cache(Without(raw, G)) /\ DOMAIN Without(raw, G) = DOMAIN raw \ G
        /\ \A j \in DOMAIN raw \ G : Without(raw, G)[j] = raw[j]
    BY <1>3, WithoutIs
  <2> QED BY <1>1, <2>1
<1>5. update' \in Updates /\ update'.gone = G
      /\ update'.pc = (IF G = {} THEN "prune" ELSE "deleting")
  BY <1>1, <1>3 DEF Updates, UpdateSteps
<1>6. \A i \in Handlers : hear[i].pc \notin {"saving", "deleting"} /\ owner' # i
  BY <1>0, <1>1, NodeInputsAssumption DEF NodesInv, Locked
<1>7. Going = {} /\ Saving = {}
  BY <1>0, <1>1, InHand DEF NodesInv
<1>8. TypedControl' /\ TypedData'
  BY <1>0, <1>1, <1>4, <1>5 DEF NodesInv, TypedControl, TypedData
<1>9. Locked'
  BY <1>1, <1>5, <1>6 DEF Locked, Free, Periodic
<1>10. Started'
  BY <1>0, <1>1, <1>5 DEF NodesInv, Started, Starting
<1>11. Holding'
  BY <1>1, <1>4, <1>5, <1>6 DEF Holding
<1>12. Going' = G /\ Saving' = {}
  BY <1>1, <1>5, <1>8, <1>9, InHandNext
<1>13. RowsFollow' /\ ViewFollows' /\ DevicesFollow'
  BY <1>0, <1>1, <1>4, <1>7, <1>12
     DEF NodesInv, RowsFollow, ViewFollows, DevicesFollow, ToRemove, SameRow
<1>14. ViewSeen' /\ SeenHasDevice'
  BY <1>0, <1>1, <1>5 DEF NodesInv, ViewSeen, SeenHasDevice, InTask
<1>15. KeptView'
  BY <1>1, <1>6 DEF KeptView
<1>16. ViewIsFresh'
  <2>1. CASE G = {}
    <3>1. raw' = raw
      BY <1>3, <1>4, <2>1 DEF Cache
    <3> QED BY <1>0, <1>1, <3>1 DEF NodesInv, ViewIsFresh
  <2>2. CASE G # {}
    BY <1>1, <2>2 DEF ViewIsFresh, Free, Periodic
  <2> QED BY <2>1, <2>2
<1> QED BY <1>8, <1>9, <1>10, <1>11, <1>13, <1>14, <1>15, <1>16 DEF NodesInv

\* What the refresh evicted is deleted.
LEMMA EnforcedStep == ASSUME NodesInv, Enforced PROVE NodesInv'
<1> DEFINE G == update.gone
<1>0. NodesInv
  OBVIOUS
<1>1. /\ update.pc = "deleting" /\ rows' = Without(rows, G) /\ RefreshAll(raw)
      /\ ScheduleCleanup(G) /\ cut' = cut \ G /\ owner' = Free
      /\ update' = [pc |-> "prune", gone |-> {}]
      /\ UNCHANGED <<raw, ceiling, hear, devices, labels, seen, local, gen, suspended, up,
                     clock, allowed>>
  BY DEF Enforced, DeleteRows
<1>2. /\ Cache(raw) /\ Cache(rows) /\ G \in SUBSET Keys /\ TypedControl
      /\ G \cap DOMAIN raw = {}
  BY <1>0, <1>1 DEF NodesInv, TypedData, TypedControl, Updates, Holding
<1> HIDE DEF G
<1>4. /\ Cache(rows') /\ DOMAIN rows' = DOMAIN rows \ G
      /\ \A j \in DOMAIN rows \ G : rows'[j] = rows[j]
  <2>1. /\ Cache(Without(rows, G)) /\ DOMAIN Without(rows, G) = DOMAIN rows \ G
        /\ \A j \in DOMAIN rows \ G : Without(rows, G)[j] = rows[j]
    BY <1>2, WithoutIs
  <2> QED BY <1>1, <2>1
<1>5. update' \in Updates /\ update'.pc = "prune"
  BY <1>1 DEF Updates, UpdateSteps
<1>6. owner = Periodic /\ \A i \in Handlers : hear[i].pc \notin {"saving", "deleting"}
  BY <1>0, <1>1, NodeInputsAssumption DEF NodesInv, Locked
<1>7. Going = G /\ Saving = {}
  BY <1>0, <1>6, InHand DEF NodesInv, G
<1>8. /\ Cache(view') /\ DOMAIN view' \subseteq DOMAIN raw
      /\ DOMAIN to' \subseteq Keys /\ to' \in [DOMAIN to' -> DOMAIN view']
      /\ view' = Effective(raw) /\ to' = Redirects(raw) /\ whole' = TRUE
  BY <1>1, <1>2, RefreshAllIs
<1>9. /\ cleanups' \in Seq(Tasks) /\ cleanups' # <<>>
      /\ \A n \in DOMAIN cleanups' : cleanups'[n].todo \subseteq cleanups'[n].keys
      /\ \A j : InTask(j)' <=> InTask(j) \/ j \in G
      /\ \A j : ToRemove(j)' <=> ToRemove(j) \/ j \in G
  BY <1>1, <1>2, ScheduledIs
<1>10. TypedControl' /\ TypedData'
  BY <1>0, <1>1, <1>4, <1>5, <1>8, <1>9 DEF NodesInv, TypedControl, TypedData
<1>11. Locked'
  BY <1>1, <1>5, <1>6, NodeInputsAssumption DEF Locked, Free, Periodic
<1>12. Going' = {} /\ Saving' = {}
  BY <1>1, <1>10, <1>11, InHandNext
<1>13. Started' /\ Holding'
  BY <1>0, <1>1, <1>5, <1>6 DEF NodesInv, Started, Starting, Holding
<1>14. RowsFollow'
  BY <1>0, <1>1, <1>2, <1>4, <1>7, <1>12 DEF NodesInv, RowsFollow, SameRow
<1>15. ViewFollows' /\ ViewSeen' /\ ViewIsFresh'
  BY <1>1, <1>8, <1>9 DEF ViewFollows, ViewSeen, ViewIsFresh
<1>16. SeenHasDevice' /\ DevicesFollow'
  BY <1>0, <1>1, <1>7, <1>9, <1>12 DEF NodesInv, SeenHasDevice, DevicesFollow
<1>17. KeptView'
  BY <1>1, <1>6 DEF KeptView
<1> QED BY <1>10, <1>11, <1>13, <1>14, <1>15, <1>16, <1>17 DEF NodesInv

\* The rows of a refresh cannot be deleted.
LEMMA EnforceFailsStep == ASSUME NodesInv, EnforceFails PROVE NodesInv'
<1> DEFINE G == update.gone
<1>0. NodesInv
  OBVIOUS
<1>1. /\ up /\ update.pc = "deleting" /\ cut' = cut \cup G /\ whole' = FALSE /\ owner' = Free
      /\ update' = [pc |-> "idle", gone |-> {}]
      /\ UNCHANGED <<raw, rows, view, to, ceiling, hear, cleanups, devices, labels, seen,
                     local, gen, suspended, up, clock>>
  BY DEF EnforceFails
<1>5. update' \in Updates /\ update'.pc = "idle"
  BY <1>1 DEF Updates, UpdateSteps
<1>6. owner = Periodic /\ \A i \in Handlers : hear[i].pc \notin {"saving", "deleting"}
  BY <1>0, <1>1, NodeInputsAssumption DEF NodesInv, Locked
<1>7. Going = G /\ Saving = {}
  BY <1>0, <1>6, InHand DEF NodesInv
<1> HIDE DEF G
<1>10. TypedControl' /\ TypedData'
  BY <1>0, <1>1, <1>5 DEF NodesInv, TypedControl, TypedData
<1>11. Locked'
  BY <1>1, <1>5, <1>6, NodeInputsAssumption DEF Locked, Free, Periodic
<1>12. Going' = {} /\ Saving' = {}
  BY <1>1, <1>10, <1>11, InHandNext
<1>13. Started' /\ Holding'
  BY <1>0, <1>1, <1>5, <1>6 DEF NodesInv, Started, Starting, Holding
<1>14. RowsFollow' /\ ViewFollows' /\ DevicesFollow'
  BY <1>0, <1>1, <1>7, <1>12 DEF NodesInv, RowsFollow, SameRow, ViewFollows, DevicesFollow, ToRemove
<1>15. ViewSeen' /\ SeenHasDevice'
  BY <1>0, <1>1 DEF NodesInv, ViewSeen, SeenHasDevice, InTask
<1>16. KeptView' /\ ViewIsFresh'
  BY <1>1 DEF KeptView, ViewIsFresh
<1> QED BY <1>10, <1>11, <1>13, <1>14, <1>15, <1>16 DEF NodesInv

\* Marking a record offline changes nothing else of it.
LEMMA OnlineIs ==
    ASSUME NEW m \in Records, NEW n \in Records
    PROVE  /\ [n EXCEPT !.online = FALSE] \in Records
           /\ Signature([n EXCEPT !.online = FALSE]) = Signature(n)
           /\ SameButOnline(m, n) => SameButOnline(m, [n EXCEPT !.online = FALSE])
<1>1. [n EXCEPT !.online = FALSE] \in Records
  BY DEF Records
<1>2. Signature([n EXCEPT !.online = FALSE]) = Signature(n)
  BY DEF Signature, Records
<1>3. ASSUME [m EXCEPT !.online = n.online] = n
      PROVE  [m EXCEPT !.online = FALSE] = [n EXCEPT !.online = FALSE]
  BY <1>3 DEF Records
<1>4. [n EXCEPT !.online = FALSE].online = FALSE
  BY DEF Records
<1> QED BY <1>1, <1>2, <1>3, <1>4 DEF SameButOnline

\* Stale nodes are marked without the lock, beside a callback that is saving.
LEMMA MarkStaleStep == ASSUME NodesInv, MarkStale PROVE NodesInv'
<1> DEFINE marked == [k \in DOMAIN raw |->
                        IF Stale(raw[k]) THEN [raw[k] EXCEPT !.online = FALSE] ELSE raw[k]]
<1>0. NodesInv
  OBVIOUS
<1>1. /\ update.pc = "prune" /\ raw' = marked
      /\ (IF marked # raw THEN RefreshAll(marked) ELSE UNCHANGED <<view, to, whole>>)
      /\ update' = [update EXCEPT !.pc = "counting"]
      /\ UNCHANGED <<rows, ceiling, owner, hear, cleanups, devices, labels, seen, local, gen,
                     suspended, up, clock, allowed, cut>>
  BY DEF MarkStale
<1>2. Cache(raw) /\ Cache(rows) /\ TypedControl
  BY <1>0 DEF NodesInv, TypedData
<1>3. update' \in Updates /\ update'.pc = "counting" /\ update'.gone = update.gone
  BY <1>1, <1>2 DEF TypedControl, Updates, UpdateSteps
<1>4. /\ DOMAIN raw' = DOMAIN raw
      /\ \A k \in DOMAIN raw : raw'[k] = raw[k] \/ raw'[k] = [raw[k] EXCEPT !.online = FALSE]
  BY <1>1
<1>5. \A k \in DOMAIN raw : raw[k] \in Records
  BY <1>2 DEF Cache
<1>6. /\ \A k \in DOMAIN raw : raw'[k] \in Records
      /\ \A k \in DOMAIN raw : \A m \in Records :
            SameButOnline(m, raw[k]) => SameButOnline(m, raw'[k])
  BY <1>4, <1>5, OnlineIs
<1>7. Cache(raw')
  BY <1>1, <1>2, <1>4, <1>6 DEF Cache
<1>8. \/ (raw' = raw /\ UNCHANGED <<view, to, whole>>)
      \/ (/\ Cache(view') /\ DOMAIN view' \subseteq DOMAIN raw'
          /\ DOMAIN to' \subseteq Keys /\ to' \in [DOMAIN to' -> DOMAIN view']
          /\ view' = Effective(raw') /\ to' = Redirects(raw') /\ whole' = TRUE)
  <2>1. CASE marked = raw
    BY <1>1, <2>1
  <2>2. CASE marked # raw
    <3>1. RefreshAll(marked) /\ Cache(marked)
      BY <1>1, <1>7, <2>2
    <3> HIDE DEF marked
    <3>2. /\ Cache(view') /\ DOMAIN view' \subseteq DOMAIN marked
          /\ DOMAIN to' \subseteq Keys /\ to' \in [DOMAIN to' -> DOMAIN view']
          /\ view' = Effective(marked) /\ to' = Redirects(marked) /\ whole' = TRUE
      BY <3>1, RefreshAllIs
    <3>3. raw' = marked
      BY <1>1
    <3> QED BY <3>2, <3>3
  <2> QED BY <2>1, <2>2
<1> HIDE DEF marked
<1>9. TypedControl'
  BY <1>0, <1>1, <1>3, <1>8 DEF NodesInv, TypedControl
<1>10. TypedData'
  BY <1>0, <1>1, <1>7, <1>8 DEF NodesInv, TypedData
<1>11. Locked' /\ Started'
  BY <1>0, <1>1, <1>3 DEF NodesInv, Locked, Started, Starting
<1>12. Holding'
  <2>1. ASSUME NEW i \in Handlers, hear[i].pc = "saving"
        PROVE  hear[i].key \in DOMAIN raw' /\ SameButOnline(hear[i].node, raw'[hear[i].key])
    BY <1>0, <1>4, <1>6, <2>1 DEF NodesInv, Holding, TypedControl
  <2>2. ASSUME NEW i \in Handlers, hear[i].pc = "deleting"
        PROVE  /\ hear[i].gone \cap DOMAIN raw' = {}
               /\ hear[i].key \in DOMAIN raw' \cap DOMAIN rows
               /\ SameButOnline(rows[hear[i].key], raw'[hear[i].key])
    <3>1. \A k \in DOMAIN rows : rows[k] \in Records
      BY <1>2 DEF Cache
    <3> QED BY <1>0, <1>4, <1>6, <2>2, <3>1 DEF NodesInv, Holding
  <2> QED BY <1>1, <1>3, <2>1, <2>2 DEF Holding
<1>13. Going' = Going /\ Saving' = Saving
  BY <1>1, <1>3 DEF Going, Saving
<1>14. RowsFollow'
  <2>1. \A k \in DOMAIN rows : rows[k] \in Records
    BY <1>2 DEF Cache
  <2>2. \A k \in Keys : SameRow(k) => SameRow(k)'
    BY <1>1, <1>4, <1>6, <2>1 DEF SameRow
  <2> QED BY <1>0, <1>1, <1>13, <2>2 DEF NodesInv, RowsFollow
<1>15. ViewFollows' /\ DevicesFollow'
  BY <1>0, <1>1, <1>4, <1>8, <1>13 DEF NodesInv, ViewFollows, DevicesFollow, ToRemove
<1>16. ViewSeen' /\ SeenHasDevice'
  BY <1>0, <1>1, <1>3 DEF NodesInv, ViewSeen, SeenHasDevice, InTask
<1>17. KeptView'
  <2>1. CASE raw' = raw /\ UNCHANGED <<view, to, whole>>
    BY <1>0, <1>1, <2>1 DEF NodesInv, KeptView, Earlier
  <2>2. CASE view' = Effective(raw') /\ to' = Redirects(raw')
    <3>1. ASSUME NEW i \in Handlers, hear[i].pc = "saving"
          PROVE  \E n \in Records :
                    /\ Signature(n) = Signature(raw'[hear[i].key])
                    /\ view' = Effective([raw' EXCEPT ![hear[i].key] = n])
                    /\ to' = Redirects([raw' EXCEPT ![hear[i].key] = n])
      <4>1. hear[i].key \in DOMAIN raw'
        BY <1>0, <1>4, <3>1 DEF NodesInv, Holding
      <4>2. [raw' EXCEPT ![hear[i].key] = raw'[hear[i].key]] = raw'
        BY <1>7, <4>1 DEF Cache
      <4>3. raw'[hear[i].key] \in Records
        BY <1>4, <1>6, <4>1
      <4> QED BY <2>2, <4>2, <4>3
    <3> QED BY <1>1, <3>1 DEF KeptView, Earlier
  <2> QED BY <1>8, <2>1, <2>2
<1>18. ViewIsFresh'
  BY <1>0, <1>1, <1>8 DEF NodesInv, ViewIsFresh
<1> QED BY <1>9, <1>10, <1>11, <1>12, <1>14, <1>15, <1>16, <1>17, <1>18 DEF NodesInv

\* The refresh ends and the platforms add what is missing.
LEMMA FinishUpdateStep == ASSUME NodesInv, FinishUpdate PROVE NodesInv'
<1>0. NodesInv
  OBVIOUS
<1>1. /\ update.pc = "counting" /\ update' = [update EXCEPT !.pc = "idle"] /\ up' = TRUE
      /\ seen' = (IF Pending THEN seen ELSE seen \cup DOMAIN view)
      /\ devices' = (IF Pending THEN devices ELSE devices \cup (DOMAIN view \ seen))
      /\ UNCHANGED <<raw, rows, view, to, ceiling, owner, hear, cleanups, labels, local, gen,
                     suspended, clock, allowed, cut, whole>>
  BY DEF FinishUpdate, AddMissing
<1>2. update' \in Updates /\ update'.pc = "idle" /\ update'.gone = update.gone
  BY <1>0, <1>1 DEF NodesInv, TypedControl, Updates, UpdateSteps
<1>3. TypedControl'
  BY <1>0, <1>1, <1>2 DEF NodesInv, TypedControl
<1>4. TypedData'
  BY <1>0, <1>1 DEF NodesInv, TypedData, Cache
<1>5. Locked' /\ Started' /\ Holding'
  BY <1>0, <1>1, <1>2 DEF NodesInv, Locked, Started, Starting, Holding
<1>6. Going' = Going /\ Saving' = Saving
  BY <1>1, <1>2 DEF Going, Saving
<1>7. RowsFollow' /\ ViewFollows' /\ ViewSeen' /\ SeenHasDevice'
  BY <1>0, <1>1, <1>2, <1>6
     DEF NodesInv, RowsFollow, ViewFollows, ViewSeen, SeenHasDevice, InTask, SameRow, Pending
<1>8. DevicesFollow'
  BY <1>0, <1>1, <1>2, <1>6 DEF NodesInv, DevicesFollow, ViewFollows, ToRemove
<1>9. KeptView' /\ ViewIsFresh'
  BY <1>0, <1>1 DEF NodesInv, KeptView, ViewIsFresh, Earlier
<1> QED BY <1>3, <1>4, <1>5, <1>7, <1>8, <1>9 DEF NodesInv

\* A task leaves the sequence and the others stay.
LEMMA RemoveAtIs ==
    ASSUME NEW s \in Seq(Tasks), NEW j \in DOMAIN s
    PROVE  /\ RemoveAt(s, j) \in Seq(Tasks)
           /\ \A n \in DOMAIN s \ {j} : \E m \in DOMAIN RemoveAt(s, j) : RemoveAt(s, j)[m] = s[n]
           /\ \A m \in DOMAIN RemoveAt(s, j) : \E n \in DOMAIN s : RemoveAt(s, j)[m] = s[n]
<1> DEFINE a == SubSeq(s, 1, j - 1)
           b == SubSeq(s, j + 1, Len(s))
           r == RemoveAt(s, j)
<1>0. j \in 1..Len(s) /\ Len(s) \in Nat /\ DOMAIN s = 1..Len(s)
  OBVIOUS
<1>1. /\ a \in Seq(Tasks) /\ Len(a) = j - 1 /\ \A n \in 1..(j - 1) : a[n] = s[n]
  BY <1>0
<1>2. /\ b \in Seq(Tasks) /\ Len(b) = Len(s) - j /\ \A n \in 1..(Len(s) - j) : b[n] = s[n + j]
  BY <1>0
<1>3. r = a \o b
  BY DEF RemoveAt
<1> HIDE DEF a, b, r
<1>4. /\ r \in Seq(Tasks) /\ Len(r) = Len(s) - 1 /\ DOMAIN r = 1..(Len(s) - 1)
      /\ \A n \in 1..(Len(s) - 1) : r[n] = IF n < j THEN s[n] ELSE s[n + 1]
  <2>1. r \in Seq(Tasks) /\ Len(r) = Len(a) + Len(b)
        /\ \A n \in 1..(Len(a) + Len(b)) : r[n] = IF n <= Len(a) THEN a[n] ELSE b[n - Len(a)]
    <3>1. /\ a \o b \in Seq(Tasks) /\ Len(a \o b) = Len(a) + Len(b)
          /\ \A n \in 1..(Len(a) + Len(b)) :
                (a \o b)[n] = IF n <= Len(a) THEN a[n] ELSE b[n - Len(a)]
      BY <1>1, <1>2, ConcatProperties
    <3> QED BY <1>3, <3>1
  <2>2. Len(r) = Len(s) - 1 /\ DOMAIN r = 1..(Len(s) - 1)
    BY <1>0, <1>1, <1>2, <2>1
  <2>3. ASSUME NEW n \in 1..(Len(s) - 1) PROVE r[n] = IF n < j THEN s[n] ELSE s[n + 1]
    <3>1. CASE n < j
      BY <1>0, <1>1, <1>2, <2>1, <3>1
    <3>2. CASE ~(n < j)
      <4>1. n - Len(a) \in 1..(Len(s) - j) /\ n - Len(a) + j = n + 1 /\ ~(n <= Len(a))
        BY <1>0, <1>1, <3>2
      <4>2. r[n] = b[n - Len(a)]
        <5>1. n \in 1..(Len(a) + Len(b))
          BY <1>0, <1>1, <1>2
        <5> QED BY <2>1, <4>1, <5>1
      <4> QED BY <1>2, <3>2, <4>1, <4>2
    <3> QED BY <3>1, <3>2
  <2> QED BY <2>1, <2>2, <2>3
<1>5. ASSUME NEW n \in DOMAIN s \ {j} PROVE \E m \in DOMAIN r : r[m] = s[n]
  <2>1. CASE n < j
    BY <1>0, <1>4, <2>1
  <2>2. CASE n > j
    <3>1. n - 1 \in DOMAIN r /\ n - 1 + 1 = n /\ ~(n - 1 < j)
      BY <1>0, <1>4, <2>2
    <3>2. r[n - 1] = s[n - 1 + 1]
      BY <1>4, <3>1
    <3> QED BY <3>1, <3>2
  <2> QED BY <1>0, <2>1, <2>2
<1>6. ASSUME NEW m \in DOMAIN r PROVE \E n \in DOMAIN s : r[m] = s[n]
  BY <1>0, <1>4
<1> QED BY <1>4, <1>5, <1>6 DEF r

\* A cleanup task removes a batch, and with its last one tells the platforms.
LEMMA CleanUpStep == ASSUME NodesInv, NEW j \in DOMAIN cleanups, CleanUp(j) PROVE NodesInv'
<1> DEFINE c == cleanups[j]
           B == Batch(c)
<1>0. NodesInv
  OBVIOUS
<1>1. /\ labels' = labels \ B
      /\ UNCHANGED <<raw, rows, view, to, ceiling, owner, hear, update, local, gen, suspended,
                     up, clock, allowed, cut, whole>>
      /\ \/ (c.todo # B /\ cleanups' = [cleanups EXCEPT ![j].todo = @ \ B]
             /\ devices' = devices \ B /\ seen' = seen)
         \/ (c.todo = B /\ cleanups' = RemoveAt(cleanups, j)
             /\ AddMissing(view, seen \ c.keys, devices \ B, ~up \/ cleanups' # <<>>))
  BY DEF CleanUp, TellAndWake
<1>2. /\ cleanups \in Seq(Tasks) /\ c \in Tasks /\ c.todo \subseteq c.keys
      /\ \A n \in DOMAIN cleanups : cleanups[n].todo \subseteq cleanups[n].keys
  BY <1>0 DEF NodesInv, TypedControl
<1>3. B \subseteq c.todo
  BY DEF Batch
<1> HIDE DEF B
<1>4. update.pc # "load"
  BY <1>0, <1>2 DEF NodesInv, Started
<1>5. CASE /\ c.todo # B /\ cleanups' = [cleanups EXCEPT ![j].todo = @ \ B]
           /\ devices' = devices \ B /\ seen' = seen
  <2>1. /\ cleanups' \in Seq(Tasks) /\ DOMAIN cleanups' = DOMAIN cleanups /\ cleanups' # <<>>
        /\ cleanups'[j].keys = c.keys /\ cleanups'[j].todo = c.todo \ B
        /\ \A n \in DOMAIN cleanups \ {j} : cleanups'[n] = cleanups[n]
    <3>1. [c EXCEPT !.todo = @ \ B] \in Tasks
      BY <1>2 DEF Tasks
    <3>2. cleanups' = [cleanups EXCEPT ![j] = [c EXCEPT !.todo = @ \ B]]
      BY <1>5
    <3>3. cleanups'[j] = [c EXCEPT !.todo = @ \ B]
      BY <1>2, <3>2
    <3>4. cleanups' \in Seq(Tasks) /\ DOMAIN cleanups' = DOMAIN cleanups
          /\ \A n \in DOMAIN cleanups \ {j} : cleanups'[n] = cleanups[n]
      BY <1>2, <3>1, <3>2
    <3>5. cleanups' # <<>>
      BY <1>2, <3>4
    <3> QED BY <1>2, <3>3, <3>4, <3>5 DEF Tasks
  <2>2. \A n \in DOMAIN cleanups' : cleanups'[n].todo \subseteq cleanups'[n].keys
    BY <1>2, <2>1
  <2>3. /\ \A k : InTask(k) => InTask(k)'
        /\ \A k : ToRemove(k) /\ k \notin B => ToRemove(k)'
        /\ \A k \in B : InTask(k)'
    BY <1>2, <1>3, <2>1 DEF InTask, ToRemove
  <2>4. SeenHasDevice'
    BY <1>0, <1>5, <2>3 DEF NodesInv, SeenHasDevice
  <2>5. DevicesFollow'
    <3>1. Going' = Going
      BY <1>1 DEF Going
    <3> QED BY <1>0, <1>1, <1>4, <1>5, <2>3, <3>1 DEF NodesInv, DevicesFollow
  <2>6. TypedData' /\ TypedControl'
    BY <1>0, <1>1, <1>5, <2>1, <2>2 DEF NodesInv, TypedData, TypedControl
  <2>7. ViewSeen'
    BY <2>1 DEF ViewSeen
  <2> QED BY <2>4, <2>5, <2>6, <2>7, <1>0, <1>1, <1>4
          DEF NodesInv, Locked, Started, Starting, Holding, RowsFollow, SameRow, Going, Saving,
              ViewFollows, KeptView, Earlier, ViewIsFresh
<1>6. CASE /\ c.todo = B /\ cleanups' = RemoveAt(cleanups, j)
           /\ AddMissing(view, seen \ c.keys, devices \ B, ~up \/ cleanups' # <<>>)
  <2> DEFINE waiting == ~up \/ cleanups' # <<>>
  <2>1. /\ seen' = (IF waiting THEN seen \ c.keys ELSE (seen \ c.keys) \cup DOMAIN view)
        /\ devices' = (IF waiting THEN devices \ B
                       ELSE (devices \ B) \cup (DOMAIN view \ (seen \ c.keys)))
    BY <1>6 DEF AddMissing
  <2>2. /\ cleanups' \in Seq(Tasks)
        /\ \A n \in DOMAIN cleanups \ {j} : \E m \in DOMAIN cleanups' : cleanups'[m] = cleanups[n]
        /\ \A m \in DOMAIN cleanups' : \E n \in DOMAIN cleanups : cleanups'[m] = cleanups[n]
    BY <1>2, <1>6, RemoveAtIs
  <2>3. \A n \in DOMAIN cleanups' : cleanups'[n].todo \subseteq cleanups'[n].keys
    BY <1>2, <2>2
  <2>4. /\ \A k : InTask(k) /\ k \notin c.keys => InTask(k)'
        /\ \A k : ToRemove(k) /\ k \notin B => ToRemove(k)'
    BY <1>6, <2>2 DEF InTask, ToRemove
  <2>5. SeenHasDevice'
    BY <1>0, <1>2, <1>3, <2>1, <2>4 DEF NodesInv, SeenHasDevice
  <2>6. DevicesFollow'
    <3>1. Going' = Going
      BY <1>1 DEF Going
    <3> QED BY <1>0, <1>1, <1>4, <2>1, <2>4, <3>1 DEF NodesInv, DevicesFollow, ViewFollows
  <2>7. TypedData' /\ TypedControl'
    <3>1. devices' \subseteq Keys /\ labels' \subseteq devices' /\ seen' \subseteq Keys
      BY <1>0, <1>1, <2>1 DEF NodesInv, TypedData, Cache
    <3> QED BY <1>0, <1>1, <2>2, <2>3, <3>1 DEF NodesInv, TypedData, TypedControl
  <2>8. ViewSeen'
    BY <1>1, <2>1 DEF ViewSeen
  <2> QED BY <2>5, <2>6, <2>7, <2>8, <1>0, <1>1, <1>4
          DEF NodesInv, Locked, Started, Starting, Holding, RowsFollow, SameRow, Going, Saving,
              ViewFollows, KeptView, Earlier, ViewIsFresh
<1> QED BY <1>1, <1>5, <1>6
\* Reloads, connections, labels and time.
LEMMA WorldStep ==
    ASSUME NodesInv, \/ BeginReload \/ EndReload \/ Connect \/ Tick
                 \/ (\E k \in Keys : Favor(k)) \/ UNCHANGED nodeVars
    PROVE  NodesInv'
<1>0. NodesInv
  OBVIOUS
<1>1. /\ UNCHANGED <<raw, rows, view, to, owner, hear, update, cleanups, devices, seen, up, cut,
                     whole>>
      /\ labels' \subseteq devices
      /\ clock' \in 1..MaxTime /\ suspended' \in BOOLEAN /\ gen' \in Nat
      /\ (suspended' # suspended \/ gen' # gen) => up
      /\ gen > 0 <=> gen' > 0
  <2>1. CASE BeginReload
    BY <1>0, <2>1 DEF NodesInv, TypedData, TypedControl, BeginReload
  <2>2. CASE EndReload
    <3>1. up /\ gen > 0
      BY <1>0, <2>2 DEF NodesInv, TypedControl, Started, EndReload
    <3>2. gen' = gen \/ gen' = gen + 1
      BY <2>2 DEF EndReload
    <3>3. gen \in Nat /\ gen' \in Nat /\ gen' > 0
      BY <1>0, <3>1, <3>2 DEF NodesInv, TypedControl
    <3>4. /\ UNCHANGED <<raw, rows, view, to, owner, hear, update, cleanups, devices, seen, up,
                         cut, whole, labels, clock>> /\ suspended' = FALSE
      BY <2>2 DEF EndReload
    <3> QED BY <1>0, <3>1, <3>3, <3>4 DEF NodesInv, TypedData, TypedControl
  <2>3. CASE Connect
    BY <1>0, <2>3 DEF NodesInv, TypedData, TypedControl, Connect
  <2>4. CASE Tick
    BY <1>0, <2>4, NodeBoundsAssumption DEF NodesInv, TypedData, TypedControl, Tick
  <2>5. CASE \E k \in Keys : Favor(k)
    BY <1>0, <2>5 DEF NodesInv, TypedData, TypedControl, Favor
  <2>6. CASE UNCHANGED nodeVars
    BY <1>0, <2>6 DEF NodesInv, TypedData, TypedControl, nodeVars
  <2> QED BY <2>1, <2>2, <2>3, <2>4, <2>5, <2>6
<1>2. TypedData' /\ TypedControl'
  BY <1>0, <1>1 DEF NodesInv, TypedData, TypedControl
<1>3. Locked' /\ Holding'
  BY <1>0, <1>1 DEF NodesInv, Locked, Holding
<1>4. Started'
  BY <1>0, <1>1 DEF NodesInv, TypedControl, Started, Starting, Empty
<1>5. Going' = Going /\ Saving' = Saving
  BY <1>1 DEF Going, Saving
<1>6. RowsFollow' /\ ViewFollows' /\ ViewSeen' /\ SeenHasDevice' /\ DevicesFollow'
  BY <1>0, <1>1, <1>5
     DEF NodesInv, RowsFollow, ViewFollows, ViewSeen, SeenHasDevice, DevicesFollow, InTask, ToRemove,
         SameRow
<1>7. KeptView' /\ ViewIsFresh'
  BY <1>0, <1>1 DEF NodesInv, KeptView, ViewIsFresh, Earlier
<1> QED BY <1>2, <1>3, <1>4, <1>6, <1>7 DEF NodesInv

\* The invariant holds at the start.
LEMMA NodesInitInv == NodesInit => NodesInv
<1> SUFFICES ASSUME NodesInit PROVE NodesInv
  OBVIOUS
<1>1. PICK w \in Worlds : \E favorites \in SUBSET DOMAIN Effective(w.store) :
            InitWith(w.store, DOMAIN Effective(w.store), favorites, w.allowed)
  BY DEF NodesInit
<1>2. Cache(w.store)
  BY NodeInputsAssumption DEF Cache
<1>3. DOMAIN Effective(w.store) \subseteq DOMAIN w.store /\ DOMAIN w.store \subseteq Keys
  BY <1>2, ProjectionIs DEF Cache
<1>4. /\ rows = w.store /\ devices \subseteq DOMAIN rows /\ labels \subseteq devices
      /\ raw = Empty /\ view = Empty /\ to = Empty /\ owner = Free
      /\ hear = [i \in Handlers |-> Idle] /\ update = [pc |-> "load", gone |-> {}]
      /\ cleanups = <<>> /\ seen = {} /\ gen = 0 /\ suspended = FALSE /\ up = FALSE
      /\ clock = 1 /\ whole = TRUE
  BY <1>1, <1>3 DEF InitWith
<1>5. \A i \in Handlers : hear[i].pc = "idle" /\ hear[i] \in Callbacks
  BY <1>4, IdleIs
<1>6. update \in Updates /\ update.pc = "load"
  BY <1>4 DEF Updates, UpdateSteps
<1>7. TypedControl
  <2>1. <<>> \in Seq(Tasks) /\ DOMAIN <<>> = {}
    OBVIOUS
  <2>2. 1 \in 1..MaxTime
    BY NodeBoundsAssumption
  <2>3. hear \in [Handlers -> Callbacks]
    BY <1>4, IdleIs
  <2> QED BY <1>4, <1>5, <1>6, <2>1, <2>2, <2>3 DEF TypedControl
<1>8. TypedData
  <2>1. Cache(Empty) /\ DOMAIN Empty = {} /\ Empty \in [{} -> {}]
    BY EmptyIs DEF Empty
  <2> QED BY <1>2, <1>3, <1>4, <2>1 DEF TypedData
<1>9. Locked /\ Holding
  BY <1>4, <1>5, <1>6, NodeInputsAssumption DEF Locked, Holding, Free, Periodic
<1>10. Started
  BY <1>4, <1>5, <1>6 DEF Started, Starting
<1>11. RowsFollow /\ DevicesFollow
  BY <1>6 DEF RowsFollow, DevicesFollow
<1>12. ViewFollows /\ ViewSeen /\ SeenHasDevice /\ KeptView /\ ViewIsFresh
  BY <1>4, <1>5, EmptyIs DEF ViewFollows, ViewSeen, SeenHasDevice, KeptView, ViewIsFresh
<1> QED BY <1>7, <1>8, <1>9, <1>10, <1>11, <1>12 DEF NodesInv

\* Every step keeps it.
LEMMA NodesStepInv == NodesInv /\ [NodesNext]_nodeVars => NodesInv'
<1> SUFFICES ASSUME NodesInv, [NodesNext]_nodeVars PROVE NodesInv'
  OBVIOUS
<1>1. CASE LoadAndTrim \/ TrimToBudget \/ Project
  BY <1>1, LoadAndTrimStep, TrimToBudgetStep, ProjectStep
<1>2. ASSUME NEW i \in Handlers, Callback(i) PROVE NodesInv'
  BY <1>2, HearStep, MergeStep, CutStep, SavedAndDoneStep, SavedAndEvictStep, DeletedStep
     DEF Callback
<1>3. CASE BeginUpdate \/ Enforce \/ Enforced \/ EnforceFails \/ MarkStale \/ FinishUpdate
  BY <1>3, BeginUpdateStep, EnforceStep, EnforcedStep, EnforceFailsStep, MarkStaleStep,
     FinishUpdateStep
<1>4. ASSUME NEW j \in DOMAIN cleanups, CleanUp(j) PROVE NodesInv'
  BY <1>4, CleanUpStep
<1>5. CASE \/ BeginReload \/ EndReload \/ Connect \/ Tick
           \/ (\E k \in Keys : Favor(k)) \/ UNCHANGED nodeVars
  BY <1>5, WorldStep
<1> QED BY <1>1, <1>2, <1>3, <1>4, <1>5 DEF NodesNext

\* What each step of a callback, the refresh, the cleanup tasks and the start may
\* rely on: the lock and its holder's keys, how the rows, the view, the entities
\* and the devices follow the cache meanwhile, and the view a kept record came from.
THEOREM NodesInductive == NodesSpec => []NodesInv
<1>1. NodesInit => NodesInv
  BY NodesInitInv
<1>2. NodesInv /\ [NodesNext]_nodeVars => NodesInv'
  BY NodesStepInv
<1> QED BY <1>1, <1>2, PTL DEF NodesSpec

\* The caches hold records of known keys, aliases lead to published nodes and the
\* lock's holder is at a step that needs it.
THEOREM NodesTyped == NodesSpec => []NodesTypeOK
<1>1. NodesInv => NodesTypeOK
  BY DEF NodesInv, TypedData, TypedControl, Locked, NodesTypeOK, Cache
<1> QED BY <1>1, NodesInductive, PTL

\* Whenever nobody holds the lock and no callback was cut short, the published
\* nodes are exactly what the cached records project to, however many times only
\* one node was rebuilt.
THEOREM ViewFollowsRecords == NodesSpec => []ViewIsFresh
<1>1. NodesInv => ViewIsFresh
  BY DEF NodesInv
<1> QED BY <1>1, NodesInductive, PTL

\* Once all is quiet, rows, cache, view and devices tell the same story of every
\* key no callback was cut short on.
THEOREM StoriesAgree == NodesSpec => []Settled
<1>1. ASSUME NodesInv, Quiet
      PROVE  \A k \in Keys \ cut :
                /\ k \in DOMAIN raw <=> k \in DOMAIN rows
                /\ k \in DOMAIN raw => SameButOnline(rows[k], raw[k])
                /\ k \in DOMAIN view => k \in devices
                /\ k \in devices => k \in DOMAIN raw
  <2>1. up /\ owner = Free /\ cleanups = <<>> /\ DOMAIN cleanups = {} /\ update.pc = "idle"
    BY <1>1 DEF Quiet
  <2>2. Going = {} /\ Saving = {}
    BY <1>1, <2>1, InHand DEF NodesInv
  <2>3. \A k \in Keys \ cut : SameRow(k)
    BY <1>1, <2>1, <2>2 DEF NodesInv, RowsFollow
  <2>4. DOMAIN view \subseteq seen /\ seen \subseteq devices
    BY <1>1, <2>1 DEF NodesInv, ViewSeen, SeenHasDevice, InTask
  <2>5. \A k \in devices \ cut : k \in DOMAIN raw
    BY <1>1, <2>1, <2>2 DEF NodesInv, DevicesFollow, ToRemove
  <2> QED BY <2>3, <2>4, <2>5 DEF SameRow
<1>2. NodesInv => Settled
  BY <1>1 DEF Settled
<1> QED BY <1>2, NodesInductive, PTL

USE OptionsAssumption, ScenariosAssumption, EntryAssumption

-----------------------------------------------------------------------------
(* The dialogs *)

\* Identifiers tell the gateways of a list apart.
IdsOnce(list) == \A g, h \in list : g.id = h.id => g = h

Earned(list, addrs) == \A g \in list : g.mark => g.addr \in addrs

\* A list that the entry holds, or held when a dialog read it.
Seen(list, ids, addrs) ==
    /\ list \subseteq Gateways
    /\ IdsOnce(list)
    /\ Earned(list, addrs)
    /\ IdsOf(list) \subseteq ids

\* What a dialog has in hand at a place of its menu.
Work(pc, act, rec, list, ids, addrs) ==
    /\ pc \in {"closed", "menu", "editing", "validating", "pairing", "forgetting"}
    /\ act \in {"none", "add", "edit", "remove"}
    /\ rec \in Gateways \cup {NoGateway}
    /\ Seen(list, ids, addrs)
    /\ pc \in {"closed", "menu", "editing"} => list = {}
    /\ pc = "editing" => act = "edit" /\ rec \in Gateways
    /\ pc \in {"validating", "pairing"} =>
         /\ rec \in Gateways /\ ~rec.mark /\ rec.id \in ids
         /\ act \in {"add", "edit"}
         /\ act = "add" => rec.id \notin IdsOf(list)
    /\ pc = "validating" => rec.addr = None
    /\ pc = "pairing" => rec.addr # None
    /\ pc = "pairing" /\ act = "edit" => \A h \in list : h.id = rec.id => ~Owned(h)

WorkInv == \A f \in Flows : Work(fpc[f], fact[f], frec[f], flist[f], used, earned)

FunInv ==
    /\ fpc = [f \in Flows |-> fpc[f]] /\ fact = [f \in Flows |-> fact[f]]
    /\ frec = [f \in Flows |-> frec[f]] /\ flist = [f \in Flows |-> flist[f]]

\* The flow that creates the entry has a list of its own, without any mark.
SetupInv ==
    /\ setup \in [pc : {"none", "gateway", "pairing", "more"},
                  list : SUBSET Gateways, rec : Gateways \cup {NoGateway}]
    /\ IdsOnce(setup.list)
    /\ \A g \in setup.list : ~g.mark
    /\ setup.pc = "pairing" =>
         /\ setup.rec \in Gateways /\ setup.rec.addr # None
         /\ setup.rec.id \notin IdsOf(setup.list)

EntryInv ==
    /\ world \in Scenarios
    /\ present \in BOOLEAN
    /\ general \in Versions \cup {0} /\ maint \in Ids \cup {None}
    /\ saves \in 0..world.saves
    /\ used \subseteq Ids /\ earned \subseteq Addrs
    /\ Seen(gws, used, earned)
    /\ ~present => gws = {} /\ \A f \in Flows : fpc[f] = "closed"

OptInv == EntryInv /\ SetupInv /\ WorkInv /\ FunInv

-----------------------------------------------------------------------------
(* Lists *)

\* A list that passed the validation has each identifier once.
LEMMA UniqueIds ==
    ASSUME NEW list, list \subseteq Gateways, Unique(list)
    PROVE  IdsOnce(list)
  BY DEF Unique, IdsOnce

\* The gateway that is looked up by its identifier.
LEMMA FindIs ==
    ASSUME NEW list, NEW id \in IdsOf(list)
    PROVE  Find(list, id) \in list /\ Find(list, id).id = id
  BY DEF Find, IdsOf

\* A gateway of a form carries no bond.
LEMMA FormIs ==
    ASSUME NEW id \in Ids, NEW addr \in Addrs \cup {None}
    PROVE  /\ FromForm(id, addr) \in Gateways
           /\ FromForm(id, addr).id = id /\ FromForm(id, addr).addr = addr
           /\ ~FromForm(id, addr).mark
  BY DEF FromForm, Gateways

\* Adding a gateway with a new identifier and an earned mark, if any.
LEMMA AddedIsSeen ==
    ASSUME NEW list, NEW ids, NEW addrs, Seen(list, ids, addrs), NEW g \in Gateways, g.id \notin IdsOf(list),
           g.id \in ids, g.mark => g.addr \in addrs
    PROVE  Seen(list \cup {g}, ids, addrs)
  BY DEF Seen, IdsOnce, Earned, IdsOf

\* Replacing a gateway.
LEMMA ReplacedIsSeen ==
    ASSUME NEW list, NEW ids, NEW addrs, Seen(list, ids, addrs), NEW g \in Gateways, g.id \in ids,
           g.mark => g.addr \in addrs
    PROVE  Seen(Replaced(list, g), ids, addrs)
  <1>1. Replaced(list, g) \subseteq list \cup {g}
    BY DEF Replaced
  <1>2. \A h \in Replaced(list, g) : h.id = g.id => h = g
    BY DEF Replaced
  <1>3. IdsOnce(Replaced(list, g))
    BY <1>1, <1>2 DEF Seen, IdsOnce
  <1> QED BY <1>1, <1>3 DEF Seen, Earned, IdsOf

\* A part of a list.
LEMMA PartIsSeen ==
    ASSUME NEW list, NEW ids, NEW addrs, Seen(list, ids, addrs), NEW part, part \subseteq list
    PROVE  Seen(part, ids, addrs)
  BY DEF Seen, IdsOnce, Earned, IdsOf

\* What was seen stays so while identifiers and pairings are added.
LEMMA SeenStays ==
    ASSUME NEW list, NEW ids, NEW addrs, Seen(list, ids, addrs),
           NEW more, ids \subseteq more, NEW others, addrs \subseteq others
    PROVE  Seen(list, more, others)
  BY DEF Seen, IdsOnce, Earned, IdsOf

-----------------------------------------------------------------------------
(* Steps *)

\* A step of one dialog that saves nothing.
LEMMA GotoStep ==
    ASSUME OptInv, NEW f \in Flows,
           NEW pc, NEW act, NEW rec, NEW list, Goto(f, pc, act, rec, list),
           UNCHANGED <<world, entryVars, setup, saves, earned>>,
           used \subseteq used', used' \subseteq Ids,
           present \/ pc = "closed", Work(pc, act, rec, list, used', earned')
    PROVE  OptInv'
  <1>1. FunInv'
    BY DEF OptInv, FunInv, Goto
  <1>2. WorkInv'
    <2>1. SUFFICES ASSUME NEW k \in Flows
                   PROVE  Work(fpc[k], fact[k], frec[k], flist[k], used, earned)'
      BY DEF WorkInv
    <2>2. CASE k = f
      BY ONLY <2>2, Goto(f, pc, act, rec, list), Work(pc, act, rec, list, used', earned'), OptInv DEF Goto, OptInv, FunInv
    <2>3. CASE k # f
      <3>1. /\ fpc'[k] = fpc[k] /\ fact'[k] = fact[k] /\ frec'[k] = frec[k] /\ flist'[k] = flist[k]
        BY ONLY <2>3, Goto(f, pc, act, rec, list), OptInv DEF Goto, OptInv, FunInv
      <3>2. Work(fpc[k], fact[k], frec[k], flist[k], used, earned)
        BY DEF OptInv, WorkInv
      <3>3. Seen(flist[k], used, earned) => /\ flist[k] \subseteq Gateways /\ IdsOnce(flist[k])
                              /\ (\A g \in flist[k] : g.mark => g.addr \in earned')
                              /\ IdsOf(flist[k]) \subseteq used'
        BY DEF Seen, Earned, IdsOf
      <3> QED BY <3>1, <3>2, <3>3 DEF Work, Seen, Earned, IdsOf, IdsOnce
    <2> QED BY <2>2, <2>3
  <1>3. EntryInv'
    <2>1. Seen(gws', used', earned')
      BY DEF OptInv, EntryInv, Seen, Earned, IdsOf, IdsOnce, entryVars
    <2>2. ~present' => gws' = {} /\ \A k \in Flows : fpc'[k] = "closed"
      BY DEF OptInv, EntryInv, FunInv, Goto, entryVars
    <2> QED BY <2>1, <2>2 DEF OptInv, EntryInv, entryVars
  <1>4. SetupInv'
    BY DEF OptInv, SetupInv, IdsOnce, IdsOf
  <1> QED BY <1>1, <1>2, <1>3, <1>4 DEF OptInv

\* A save by one dialog.
LEMMA SaveStep ==
    ASSUME OptInv, NEW f \in Flows, fpc[f] # "closed",
           NEW list, SaveGateways(f, list),
           used \subseteq used', used' \subseteq Ids,
           earned \subseteq earned', earned' \subseteq Addrs, Seen(list, used', earned')
    PROVE  OptInv'
  <1>1. FunInv'
    BY DEF OptInv, FunInv, SaveGateways, Close, Goto
  <1>2. WorkInv'
    <2>1. SUFFICES ASSUME NEW k \in Flows
                   PROVE  Work(fpc[k], fact[k], frec[k], flist[k], used, earned)'
      BY DEF WorkInv
    <2>2. CASE k = f
      <3>1. fpc'[k] = "closed" /\ fact'[k] = "none" /\ frec'[k] = NoGateway /\ flist'[k] = {}
        BY ONLY <2>2, SaveGateways(f, list), OptInv DEF SaveGateways, Close, Goto, OptInv, FunInv
      <3> QED BY <3>1 DEF Work, Seen, Earned, IdsOf, IdsOnce
    <2>3. CASE k # f
      <3>1. /\ fpc'[k] = fpc[k] /\ fact'[k] = fact[k] /\ frec'[k] = frec[k] /\ flist'[k] = flist[k]
        BY ONLY <2>3, SaveGateways(f, list), OptInv DEF SaveGateways, Close, Goto, OptInv, FunInv
      <3>2. Work(fpc[k], fact[k], frec[k], flist[k], used, earned)
        BY DEF OptInv, WorkInv
      <3> QED BY <3>1, <3>2 DEF Work, Seen, Earned, IdsOf, IdsOnce
    <2> QED BY <2>2, <2>3
  <1>3. EntryInv'
    <2>1. gws' = list /\ UNCHANGED <<world, present, general, maint>> /\ saves' = saves + 1 /\ saves < world.saves
      BY DEF SaveGateways
    <2>2. present
      BY DEF OptInv, EntryInv
    <2>3. Seen(gws', used', earned')
      BY <2>1 DEF Seen, Earned, IdsOf, IdsOnce
    <2>4. saves' \in 0..world'.saves
      BY <2>1 DEF OptInv, EntryInv
    <2> QED BY <2>1, <2>2, <2>3, <2>4 DEF OptInv, EntryInv
  <1>4. SetupInv'
    BY DEF OptInv, SetupInv, IdsOnce, IdsOf, SaveGateways
  <1> QED BY <1>1, <1>2, <1>3, <1>4 DEF OptInv

\* A dialog goes back to its menu, is closed or opened: nothing in hand.
LEMMA EmptyHand ==
    ASSUME NEW pc \in {"closed", "menu"}
    PROVE  Work(pc, "none", NoGateway, {}, used', earned')
  BY DEF Work, Seen, IdsOnce, Earned, IdsOf

\* A dialog that reads a list before it awaits.
LEMMA DialogReads ==
    ASSUME OptInv, NEW f \in Flows,
           \/ \E id \in Ids : AddVerified(f, id) \/ ChooseEdit(f, id) \/ RemoveWithBond(f, id)
           \/ \E id \in Ids, addr \in Addrs : AddBluetooth(f, id, addr)
           \/ \E addr \in Addrs : EditUnowned(f, addr)
           \/ EditVerified(f)
    PROVE  OptInv'
  <1>0. /\ fpc[f] # "closed" => present
        /\ Seen(gws, used, earned) /\ Work(fpc[f], fact[f], frec[f], flist[f], used, earned)
        /\ used \subseteq Ids
    BY DEF OptInv, EntryInv, WorkInv
  <1>1. ASSUME NEW id \in Ids, AddVerified(f, id) PROVE OptInv'
    <2>1. FromForm(id, None) \in Gateways /\ FromForm(id, None).id = id /\ FromForm(id, None).addr = None
          /\ ~FromForm(id, None).mark
      BY FormIs
    <2>2. Work("validating", "add", FromForm(id, None), gws, used', earned')
      BY <1>0, <1>1, <2>1 DEF AddVerified, NewId, Work, Seen, Earned, IdsOf, IdsOnce, entryVars
    <2> QED BY <1>0, <1>1, <2>2, GotoStep DEF AddVerified, NewId
  <1>2. ASSUME NEW id \in Ids, NEW addr \in Addrs, AddBluetooth(f, id, addr) PROVE OptInv'
    <2>1. FromForm(id, addr) \in Gateways /\ FromForm(id, addr).id = id /\ FromForm(id, addr).addr = addr
          /\ ~FromForm(id, addr).mark
      BY FormIs
    <2>2. Work("pairing", "add", FromForm(id, addr), gws, used', earned')
      BY <1>0, <1>2, <2>1 DEF AddBluetooth, NewId, Work, Seen, Earned, IdsOf, IdsOnce, entryVars
    <2> QED BY <1>0, <1>2, <2>2, GotoStep DEF AddBluetooth, NewId
  <1>3. ASSUME NEW id \in Ids, ChooseEdit(f, id) PROVE OptInv'
    <2>1. Find(gws, id) \in Gateways
      BY <1>0, <1>3, FindIs DEF ChooseEdit, Seen
    <2>2. Work("editing", "edit", Find(gws, id), {}, used', earned')
      BY <2>1 DEF Work, Seen, Earned, IdsOf, IdsOnce
    <2> QED BY <1>0, <1>3, <2>2, GotoStep DEF ChooseEdit
  <1>4. CASE EditVerified(f)
    <2>0. frec[f] \in Gateways /\ frec[f].id \in Ids /\ frec[f].id \in used
      BY <1>0, <1>4 DEF EditVerified, Work, Gateways, IdsOf, Seen
    <2> DEFINE g == FromForm(frec[f].id, None)
    <2>1. g \in Gateways /\ g.id = frec[f].id /\ g.addr = None /\ ~g.mark
      BY <2>0, FormIs
    <2> HIDE DEF g
    <2>2. Goto(f, "validating", "edit", g, gws) /\ UNCHANGED <<world, entryVars, setup, saves, earned>> /\ used' = used
          /\ present
      BY <1>0, <1>4 DEF EditVerified, g
    <2>3. Work("validating", "edit", g, gws, used', earned')
      BY <1>0, <2>0, <2>1, <2>2 DEF Work, Seen, Earned, IdsOf, IdsOnce, entryVars
    <2> QED BY <1>0, <2>2, <2>3, GotoStep
  <1>5. ASSUME NEW addr \in Addrs, EditUnowned(f, addr) PROVE OptInv'
    <2> DEFINE old == Find(gws, frec[f].id)
    <2>0. old \in gws /\ old.id = frec[f].id /\ ~Owned(old)
      BY <1>5, FindIs DEF EditUnowned
    <2>1. old.id \in Ids /\ old.id \in used
      BY <1>0, <2>0 DEF Seen, IdsOf, Gateways
    <2>2. \A h \in gws : h.id = old.id => ~Owned(h)
      BY <1>0, <2>0 DEF Seen, IdsOnce
    <2>3. /\ Goto(f, "pairing", "edit", FromForm(old.id, addr), gws)
          /\ UNCHANGED <<world, entryVars, setup, saves, earned>> /\ used' = used /\ present
      BY <1>0, <1>5 DEF EditUnowned
    <2> HIDE DEF old
    <2>4. Work("pairing", "edit", FromForm(old.id, addr), gws, used', earned')
      <3> DEFINE r == FromForm(old.id, addr)
      <3>1. r \in Gateways /\ r.id = old.id /\ r.addr = addr /\ ~r.mark
        BY <2>1, FormIs
      <3> HIDE DEF r
      <3>2. Work("pairing", "edit", r, gws, used', earned')
        BY <1>0, <1>5, <2>1, <2>2, <2>3, <3>1 DEF Work, Seen, Earned, IdsOf, IdsOnce, entryVars
      <3> QED BY <3>2 DEF r
    <2> QED BY <1>0, <2>3, <2>4, GotoStep
  <1>6. ASSUME NEW id \in Ids, RemoveWithBond(f, id) PROVE OptInv'
    <2>1. Find(gws, id) \in Gateways
      BY <1>0, <1>6, FindIs DEF RemoveWithBond, Seen
    <2>2. /\ Goto(f, "forgetting", "remove", Find(gws, id), gws)
          /\ UNCHANGED <<world, entryVars, setup, saves, earned>> /\ used' = used /\ present
      BY <1>0, <1>6 DEF RemoveWithBond
    <2>3. Work("forgetting", "remove", Find(gws, id), gws, used', earned')
      BY <1>0, <2>1, <2>2 DEF Work, Seen, Earned, IdsOf, IdsOnce, entryVars
    <2> QED BY <1>0, <2>2, <2>3, GotoStep
  <1> QED BY <1>1, <1>2, <1>3, <1>4, <1>5, <1>6

\* A dialog that opens, closes or returns to its menu.
LEMMA DialogMoves ==
    ASSUME OptInv, NEW f \in Flows,
           \/ OpenFlow(f) \/ CloseFlow(f) \/ EditGone(f) \/ StepFails(f)
           \/ \E created \in BOOLEAN : PairRefused(f, created)
    PROVE  OptInv'
  <1>0. (fpc[f] # "closed" => present) /\ used \subseteq Ids
    BY DEF OptInv, EntryInv
  <1>1. CASE OpenFlow(f) \/ StepFails(f)
    BY ONLY <1>0, <1>1, OptInv, EmptyHand, GotoStep DEF OpenFlow, StepFails
  <1>2. CASE CloseFlow(f) \/ EditGone(f) \/ \E created \in BOOLEAN : PairRefused(f, created)
    BY ONLY <1>0, <1>2, OptInv, EmptyHand, GotoStep DEF CloseFlow, EditGone, PairRefused, Close
  <1> QED BY <1>1, <1>2

\* A dialog that saves a list.
LEMMA DialogSaves ==
    ASSUME OptInv, NEW f \in Flows,
           \/ EditUnverified(f) \/ Validated(f) \/ Forgotten(f)
           \/ \E id \in Ids : AddUnverified(f, id) \/ RemovePlain(f, id)
           \/ \E addr \in Addrs : EditOwned(f, addr)
           \/ \E created \in BOOLEAN : PairSaved(f, created)
           \/ \E list \in Written : Advanced(f, list)
    PROVE  OptInv'
  <1>0. /\ Seen(gws, used, earned) /\ Work(fpc[f], fact[f], frec[f], flist[f], used, earned)
        /\ used \subseteq Ids /\ earned \subseteq Addrs
    BY DEF OptInv, EntryInv, WorkInv
  <1>1. ASSUME NEW id \in Ids, AddUnverified(f, id) PROVE OptInv'
    <2> DEFINE g == FromForm(id, None)
    <2>1. g \in Gateways /\ g.id = id /\ ~g.mark
      BY FormIs
    <2>2. /\ fpc[f] # "closed" /\ id \notin used /\ used' = used \cup {id} /\ earned' = earned
          /\ SaveGateways(f, gws \cup {g})
      BY <1>1 DEF AddUnverified, NewId
    <2> HIDE DEF g
    <2>3. Seen(gws, used', earned')
      BY <1>0, <2>2, SeenStays
    <2>4. g.id \notin IdsOf(gws)
      BY <1>0, <2>1, <2>2 DEF Seen
    <2>5. Seen(gws \cup {g}, used', earned')
      BY <2>1, <2>2, <2>3, <2>4, AddedIsSeen
    <2> QED BY <1>0, <2>2, <2>5, SaveStep
  <1>2. CASE EditUnverified(f)
    <2> DEFINE g == FromForm(frec[f].id, None)
    <2>1. /\ fpc[f] = "editing" /\ used' = used /\ earned' = earned
          /\ SaveGateways(f, Replaced(gws, g)) /\ frec[f].id \in IdsOf(gws)
      BY <1>2 DEF EditUnverified
    <2>2. frec[f].id \in Ids /\ frec[f].id \in used
      BY <1>0, <2>1 DEF Seen
    <2>3. g \in Gateways /\ g.id = frec[f].id /\ ~g.mark
      BY <2>2, FormIs
    <2> HIDE DEF g
    <2>4. Seen(Replaced(gws, g), used', earned')
      BY <1>0, <2>1, <2>2, <2>3, ReplacedIsSeen
    <2> QED BY <1>0, <2>1, <2>4, SaveStep
  <1>3. ASSUME NEW addr \in Addrs, EditOwned(f, addr) PROVE OptInv'
    <2> DEFINE old == Find(gws, frec[f].id)
               g == Preserved(old, FromForm(old.id, addr))
    <2>1. /\ fpc[f] = "editing" /\ used' = used /\ earned' = earned
          /\ SaveGateways(f, Replaced(gws, g)) /\ frec[f].id \in IdsOf(gws)
          /\ Owned(old) /\ old.addr = addr
      BY <1>3 DEF EditOwned
    <2>2. old \in gws
      BY <2>1, FindIs
    <2>3. g \in Gateways /\ g.id = old.id /\ g.addr = old.addr
      BY <1>0, <2>1, <2>2 DEF Preserved, FromForm, Gateways, Seen
    <2>4. old.id \in used /\ old.addr \in earned
      BY <1>0, <2>1, <2>2 DEF Seen, IdsOf, Earned, Owned
    <2> HIDE DEF g, old
    <2>5. Seen(Replaced(gws, g), used', earned')
      BY <1>0, <2>1, <2>3, <2>4, ReplacedIsSeen
    <2> QED BY <1>0, <2>1, <2>5, SaveStep
  <1>4. CASE Validated(f)
    <2>1. /\ fpc[f] = "validating" /\ used' = used /\ earned' = earned
      BY <1>4 DEF Validated
    <2>2. /\ frec[f] \in Gateways /\ ~frec[f].mark /\ frec[f].id \in used
          /\ fact[f] \in {"add", "edit"} /\ Seen(flist[f], used, earned)
          /\ fact[f] = "add" => frec[f].id \notin IdsOf(flist[f])
      BY <1>0, <2>1 DEF Work
    <2>3. CASE fact[f] = "add"
      <3>1. Seen(flist[f] \cup {frec[f]}, used', earned')
        BY <2>1, <2>2, <2>3, AddedIsSeen
      <3>2. SaveGateways(f, flist[f] \cup {frec[f]})
        BY <1>4, <2>3 DEF Validated
      <3> QED BY <1>0, <2>1, <3>1, <3>2, SaveStep
    <2>4. CASE fact[f] = "edit"
      <3>1. Seen(Replaced(flist[f], frec[f]), used', earned')
        BY <2>1, <2>2, ReplacedIsSeen
      <3>2. SaveGateways(f, Replaced(flist[f], frec[f]))
        BY <1>4, <2>4 DEF Validated
      <3> QED BY <1>0, <2>1, <3>1, <3>2, SaveStep
    <2> QED BY <2>2, <2>3, <2>4
  <1>5. ASSUME NEW created \in BOOLEAN, PairSaved(f, created) PROVE OptInv'
    <2> DEFINE g == [frec[f] EXCEPT !.key = TRUE, !.mark = created]
               saved == IF fact[f] = "add" THEN gws \cup {g} ELSE Replaced(gws, g)
    <2>1. /\ fpc[f] = "pairing" /\ used' = used /\ Unique(saved) /\ SaveGateways(f, saved)
          /\ earned' = IF created THEN earned \cup {g.addr} ELSE earned
      BY <1>5 DEF PairSaved
    <2>2. /\ frec[f] \in Gateways /\ frec[f].id \in used /\ frec[f].addr # None
      BY <1>0, <2>1 DEF Work
    <2>3. /\ g \in Gateways /\ g.id \in used /\ g.addr \in Addrs /\ g.mark = created
      BY <2>2 DEF Gateways
    <2>4. saved \subseteq gws \cup {g}
      BY DEF Replaced
    <2> HIDE DEF saved, g
    <2>5. earned \subseteq earned' /\ earned' \subseteq Addrs /\ (g.mark => g.addr \in earned')
      BY <1>0, <2>1, <2>3
    <2>6. saved \subseteq Gateways
      BY <1>0, <2>3, <2>4 DEF Seen
    <2>7. Seen(saved, used', earned')
      BY <1>0, <2>1, <2>3, <2>4, <2>5, <2>6, UniqueIds DEF Seen, Earned, IdsOf
    <2> QED BY <1>0, <2>1, <2>5, <2>7, SaveStep
  <1>6. ASSUME NEW id \in Ids, RemovePlain(f, id) PROVE OptInv'
    <2>1. Seen({g \in gws : g.id # id}, used', earned')
      BY <1>0, <1>6, PartIsSeen DEF RemovePlain
    <2> QED BY <1>0, <1>6, <2>1, SaveStep DEF RemovePlain
  <1>7. CASE Forgotten(f)
    <2>1. Seen({g \in flist[f] : g.id # frec[f].id}, used', earned')
      BY <1>0, <1>7, PartIsSeen DEF Forgotten, Work
    <2> QED BY <1>0, <1>7, <2>1, SaveStep DEF Forgotten
  <1>8. ASSUME NEW list \in Written, Advanced(f, list) PROVE OptInv'
    <2>1. /\ fpc[f] = "menu" /\ Unique(list) /\ SaveGateways(f, Reconciled(gws, list))
          /\ used' = used \cup IdsOf(list) /\ earned' = earned
      BY <1>8 DEF Advanced
    <2>2. list \subseteq Gateways
      BY DEF Written, Writable
    <2>3. \A g \in list : SameOwned(gws, g) \in BOOLEAN /\ (SameOwned(gws, g) => g.addr \in earned)
      BY <1>0 DEF SameOwned, Owned, Seen, Earned
    <2>4. ASSUME NEW h \in Reconciled(gws, list)
          PROVE  \E g \in list : /\ h.id = g.id /\ h.addr = g.addr /\ h.key = h.mark
                                  /\ h.mark = SameOwned(gws, g) /\ h \in Gateways
      <3>1. PICK g \in list : h = [g EXCEPT !.key = SameOwned(gws, g), !.mark = SameOwned(gws, g)]
        BY <2>4 DEF Reconciled
      <3>2. g \in Gateways /\ SameOwned(gws, g) \in BOOLEAN
        BY <2>2, <2>3
      <3> QED BY ONLY <3>1, <3>2 DEF Gateways
    <2>5. Reconciled(gws, list) \subseteq Gateways
      BY <2>4
    <2>6. IdsOnce(Reconciled(gws, list))
      <3>1. IdsOnce(list)
        BY <2>1, <2>2, UniqueIds
      <3>2. ASSUME NEW h \in Reconciled(gws, list), NEW k \in Reconciled(gws, list), h.id = k.id
            PROVE  h = k
        <4>1. h.addr = k.addr /\ h.mark = k.mark /\ h.key = k.key
          BY <2>4, <3>1, <3>2 DEF IdsOnce
        <4> QED BY ONLY <2>5, <3>2, <4>1 DEF Gateways
      <3> QED BY <3>2 DEF IdsOnce
    <2>7. Earned(Reconciled(gws, list), earned')
      BY <2>1, <2>3, <2>4 DEF Earned
    <2>8. IdsOf(Reconciled(gws, list)) \subseteq IdsOf(list) /\ IdsOf(list) \subseteq Ids
      BY <2>2, <2>4 DEF IdsOf, Gateways
    <2>9. Seen(Reconciled(gws, list), used', earned')
      BY <2>1, <2>5, <2>6, <2>7, <2>8 DEF Seen
    <2> QED BY <1>0, <2>1, <2>8, <2>9, SaveStep
  <1> QED BY <1>1, <1>2, <1>3, <1>4, <1>5, <1>6, <1>7, <1>8

\* The other settings.
LEMMA OthersSaved ==
    ASSUME OptInv, NEW f \in Flows,
           \/ \E v \in Versions : General(f, v)
           \/ \E id \in Ids \cup {None} : Maintenance(f, id)
    PROVE  OptInv'
  <1> DEFINE same == UNCHANGED <<world, present, gws, setup, used, earned>>
  <1>1. /\ same /\ Close(f) /\ saves' = saves + 1 /\ saves < world.saves /\ fpc[f] = "menu"
        /\ general' \in Versions \cup {0} /\ maint' \in Ids \cup {None}
    BY DEF General, Maintenance, OptInv, EntryInv
  <1>2. FunInv'
    BY <1>1 DEF OptInv, FunInv, Close, Goto
  <1>3. WorkInv'
    <2>1. SUFFICES ASSUME NEW k \in Flows
                   PROVE  Work(fpc[k], fact[k], frec[k], flist[k], used, earned)'
      BY DEF WorkInv
    <2>2. CASE k = f
      <3>1. fpc'[k] = "closed" /\ fact'[k] = "none" /\ frec'[k] = NoGateway /\ flist'[k] = {}
        BY ONLY <2>2, <1>1, OptInv DEF Close, Goto, OptInv, FunInv
      <3> QED BY <3>1 DEF Work, Seen, Earned, IdsOf, IdsOnce
    <2>3. CASE k # f
      <3>1. /\ fpc'[k] = fpc[k] /\ fact'[k] = fact[k] /\ frec'[k] = frec[k] /\ flist'[k] = flist[k]
        BY ONLY <2>3, <1>1, OptInv DEF Close, Goto, OptInv, FunInv
      <3>2. Work(fpc[k], fact[k], frec[k], flist[k], used, earned)
        BY DEF OptInv, WorkInv
      <3> QED BY <1>1, <3>1, <3>2
    <2> QED BY <2>2, <2>3
  <1>4. EntryInv'
    <2>1. saves' \in 0..world'.saves
      BY <1>1 DEF OptInv, EntryInv
    <2>2. present
      BY <1>1 DEF OptInv, EntryInv
    <2> QED BY <1>1, <2>1, <2>2 DEF OptInv, EntryInv
  <1>5. SetupInv'
    BY <1>1 DEF OptInv, SetupInv
  <1> QED BY <1>2, <1>3, <1>4, <1>5 DEF OptInv

\* The flow that creates the entry, up to the entry.
LEMMA SetupMoves ==
    ASSUME OptInv,
           \/ SetupStart \/ SetupMore \/ SetupEnds
           \/ \E id \in Ids, addr \in Addrs \cup {None} : SetupGateway(FromForm(id, addr))
    PROVE  OptInv'
  <1>1. UNCHANGED <<world, entryVars, flowVars, saves, used, earned>>
    BY DEF SetupStart, SetupGateway, SetupMore, SetupEnds
  <1>2. EntryInv' /\ WorkInv' /\ FunInv'
    BY <1>1 DEF OptInv, EntryInv, WorkInv, FunInv, entryVars, flowVars
  <1>3. SetupInv'
    <2>1. NoGateway \in Gateways \cup {NoGateway} /\ IdsOnce({}) /\ {} \subseteq Gateways
      BY DEF IdsOnce
    <2>2. SetupInv
      BY DEF OptInv
    <2>3. CASE SetupStart
      BY ONLY <2>1, <2>3 DEF SetupInv, SetupStart, Setup
    <2>4. CASE SetupMore
      BY ONLY <2>1, <2>2, <2>4 DEF SetupInv, SetupMore, Setup
    <2>5. CASE SetupEnds
      BY ONLY <2>1, <2>2, <2>5 DEF SetupInv, SetupEnds, Setup
    <2>6. ASSUME NEW id \in Ids, NEW addr \in Addrs \cup {None}, SetupGateway(FromForm(id, addr))
          PROVE  SetupInv'
      <3> DEFINE g == FromForm(id, addr)
      <3>1. g \in Gateways /\ g.addr = addr /\ ~g.mark
        BY FormIs
      <3>2. /\ Unique(setup.list \cup {g}) /\ g.id \notin IdsOf(setup.list)
            /\ \/ Bluetooth(g) /\ Setup("pairing", setup.list, g)
               \/ ~Bluetooth(g) /\ Setup("more", setup.list \cup {g}, NoGateway)
        BY <2>6 DEF SetupGateway
      <3> HIDE DEF g
      <3>3. IdsOnce(setup.list \cup {g})
        BY <3>1, <3>2, UniqueIds DEF OptInv, SetupInv
      <3>4. CASE Bluetooth(g) /\ Setup("pairing", setup.list, g)
        BY <3>1, <3>2, <3>4 DEF OptInv, SetupInv, Setup, Bluetooth
      <3>5. CASE Setup("more", setup.list \cup {g}, NoGateway)
        BY <3>1, <3>3, <3>5 DEF OptInv, SetupInv, Setup
      <3> QED BY <3>2, <3>4, <3>5
    <2> QED BY <2>3, <2>4, <2>5, <2>6
  <1> QED BY <1>2, <1>3 DEF OptInv

\* The entry is created with a list of its own.
LEMMA CreateStep ==
    ASSUME OptInv, ~present, NEW list, Create(list), list \subseteq Gateways, IdsOnce(list),
           earned \subseteq earned', earned' \subseteq Addrs, Earned(list, earned')
    PROVE  OptInv'
  <1>1. /\ UNCHANGED <<world, general, maint, flowVars, saves>>
        /\ present' = TRUE /\ gws' = list /\ used' = IdsOf(list)
        /\ setup' = [pc |-> "none", list |-> {}, rec |-> NoGateway]
    BY DEF Create, Setup
  <1>2. FunInv'
    BY <1>1 DEF OptInv, FunInv, flowVars
  <1>3. WorkInv'
    <2>1. SUFFICES ASSUME NEW k \in Flows
                   PROVE  Work(fpc[k], fact[k], frec[k], flist[k], used, earned)'
      BY DEF WorkInv
    <2>2. Work(fpc[k], fact[k], frec[k], flist[k], used, earned) /\ fpc[k] = "closed"
      BY DEF OptInv, WorkInv, EntryInv
    <2> QED BY <1>1, <2>2 DEF Work, Seen, IdsOnce, Earned, IdsOf, flowVars
  <1>4. EntryInv'
    <2>1. IdsOf(list) \subseteq Ids
      BY DEF IdsOf, Gateways
    <2>2. Seen(gws', used', earned')
      BY <1>1 DEF Seen
    <2> QED BY <1>1, <2>1, <2>2 DEF OptInv, EntryInv
  <1>5. SetupInv'
    BY <1>1 DEF SetupInv, IdsOnce
  <1> QED BY <1>2, <1>3, <1>4, <1>5 DEF OptInv

\* The three ways of creating it.
LEMMA Creates ==
    ASSUME OptInv,
           \/ SetupCreate
           \/ \E created \in BOOLEAN : SetupPaired(created)
           \/ \E list \in Written : Import(list)
    PROVE  OptInv'
  <1>0. earned \subseteq Addrs /\ SetupInv
    BY DEF OptInv, EntryInv
  <1>1. CASE SetupCreate
    <2>1. /\ setup.list \subseteq Gateways /\ IdsOnce(setup.list) /\ Earned(setup.list, earned')
      BY <1>0 DEF SetupInv, Earned
    <2> QED BY <1>0, <1>1, <2>1, CreateStep DEF SetupCreate
  <1>2. ASSUME NEW created \in BOOLEAN, SetupPaired(created) PROVE OptInv'
    <2> DEFINE g == [setup.rec EXCEPT !.key = TRUE, !.mark = created]
    <2>1. /\ setup.pc = "pairing" /\ ~present /\ Create(setup.list \cup {g})
          /\ earned' = IF created THEN earned \cup {g.addr} ELSE earned
      BY <1>2 DEF SetupPaired
    <2>2. setup.rec \in Gateways /\ setup.rec.addr # None /\ setup.rec.id \notin IdsOf(setup.list)
          /\ setup.list \subseteq Gateways /\ IdsOnce(setup.list) /\ \A h \in setup.list : ~h.mark
      BY <1>0, <2>1 DEF SetupInv
    <2>3. g \in Gateways /\ g.id = setup.rec.id /\ g.mark = created /\ g.addr \in Addrs
      BY <2>2 DEF Gateways
    <2> HIDE DEF g
    <2>4. earned \subseteq earned' /\ earned' \subseteq Addrs /\ Earned(setup.list \cup {g}, earned')
      BY <1>0, <2>1, <2>2, <2>3 DEF Earned
    <2>5. IdsOnce(setup.list \cup {g})
      BY <2>2, <2>3 DEF IdsOnce, IdsOf
    <2> QED BY <2>1, <2>2, <2>3, <2>4, <2>5, CreateStep
  <1>3. ASSUME NEW list \in Written, Import(list) PROVE OptInv'
    <2> DEFINE clean == {Stripped(g) : g \in list}
    <2>1. ~present /\ Unique(clean) /\ Create(clean) /\ earned' = earned
      BY <1>3 DEF Import
    <2>2. \A g \in list : Stripped(g) \in Gateways /\ ~Stripped(g).mark
      <3>1. list \subseteq Gateways
        BY DEF Written, Writable
      <3> QED BY ONLY <3>1 DEF Stripped, Gateways
    <2>3. clean \subseteq Gateways /\ \A g \in clean : ~g.mark
      BY <2>2
    <2> HIDE DEF clean
    <2>4. IdsOnce(clean) /\ Earned(clean, earned')
      BY <2>1, <2>3, UniqueIds DEF Earned
    <2> QED BY <1>0, <2>1, <2>3, <2>4, CreateStep
  <1> QED BY <1>1, <1>2, <1>3

-----------------------------------------------------------------------------
(* The invariant *)

\* A new run.
LEMMA InitInv == OptInit => OptInv
  <1> SUFFICES ASSUME OptInit PROVE OptInv
    OBVIOUS
  <1>1. FunInv
    BY DEF OptInit, FunInv
  <1>2. Seen({}, used, earned)
    BY DEF Seen, IdsOnce, Earned, IdsOf
  <1>3. WorkInv
    BY <1>2 DEF OptInit, WorkInv, Work
  <1>4. SetupInv
    BY DEF OptInit, SetupInv, IdsOnce
  <1>5. gws \subseteq Gateways /\ Unique(gws) /\ \A g \in gws : g.mark => Owned(g)
    BY DEF OptInit, Unique
  <1>6. Seen(gws, used, earned)
    BY <1>5, UniqueIds DEF OptInit, Seen, Earned
  <1>7. used \subseteq Ids /\ earned \subseteq Addrs
    BY <1>5 DEF OptInit, IdsOf, Gateways, Owned, ConfiguredKey, Bluetooth
  <1>8. 0 \in 0..world.saves
    BY DEF OptInit
  <1>9. EntryInv
    BY <1>6, <1>7, <1>8 DEF OptInit, EntryInv
  <1> QED BY <1>1, <1>3, <1>4, <1>9 DEF OptInv

\* Every step.
LEMMA StepInv == OptInv /\ [OptNext]_optVars => OptInv'
  <1> SUFFICES ASSUME OptInv, [OptNext]_optVars PROVE OptInv'
    OBVIOUS
  <1>1. ASSUME NEW f \in Flows, FlowStep(f) PROVE OptInv'
    <2>1. CASE OpenFlow(f) \/ CloseFlow(f) \/ EditGone(f) \/ StepFails(f)
               \/ \E created \in BOOLEAN : PairRefused(f, created)
      BY <2>1, DialogMoves
    <2>2. CASE \/ EditVerified(f)
               \/ \E id \in Ids : AddVerified(f, id) \/ ChooseEdit(f, id) \/ RemoveWithBond(f, id)
               \/ \E id \in Ids, addr \in Addrs : AddBluetooth(f, id, addr)
               \/ \E addr \in Addrs : EditUnowned(f, addr)
      BY <2>2, DialogReads
    <2>3. CASE \/ EditUnverified(f) \/ Validated(f) \/ Forgotten(f)
               \/ \E id \in Ids : AddUnverified(f, id) \/ RemovePlain(f, id)
               \/ \E addr \in Addrs : EditOwned(f, addr)
               \/ \E created \in BOOLEAN : PairSaved(f, created)
               \/ \E list \in Written : Advanced(f, list)
      BY <2>3, DialogSaves
    <2>4. CASE \/ \E v \in Versions : General(f, v)
               \/ \E id \in Ids \cup {None} : Maintenance(f, id)
      BY <2>4, OthersSaved
    <2> QED BY ONLY <1>1, <2>1, <2>2, <2>3, <2>4 DEF FlowStep
  <1>2. CASE SetupStep
    <2>1. CASE SetupStart \/ SetupMore \/ SetupEnds \/ \E id \in Ids, addr \in Addrs \cup {None} : SetupGateway(FromForm(id, addr))
      BY <2>1, SetupMoves
    <2>2. CASE SetupCreate \/ (\E created \in BOOLEAN : SetupPaired(created)) \/ \E list \in Written : Import(list)
      BY <2>2, Creates
    <2> QED BY ONLY <1>2, <2>1, <2>2 DEF SetupStep
  <1>3. CASE UNCHANGED optVars
    <2>1. /\ UNCHANGED <<world, setup, saves, used, earned>> /\ UNCHANGED entryVars /\ UNCHANGED flowVars
      BY <1>3 DEF optVars
    <2> QED BY <2>1 DEF OptInv, EntryInv, SetupInv, WorkInv, FunInv, entryVars, flowVars
  <1> QED BY <1>1, <1>2, <1>3 DEF OptNext

-----------------------------------------------------------------------------
(* Ownership *)

\* What a replacement leaves out is the replaced gateway.
LEMMA LeftOut ==
    ASSUME NEW list, NEW g, NEW h \in list, h \notin Replaced(list, g)
    PROVE  h.id = g.id /\ h # g
  <1>1. (IF h.id = g.id THEN g ELSE h) \in Replaced(list, g)
    BY DEF Replaced
  <1> QED BY ONLY <1>1, h \notin Replaced(list, g)

\* A dialog that loses an owned record removes it, or had decided before.
LEMMA DialogKeeps ==
    ASSUME OptInv, NEW f \in Flows, FlowStep(f), NEW g \in gws, Owned(g), g \notin gws'
    PROVE  Removes(f, g.id) \/ DecidedBefore(f, g)
  <1>0. /\ Seen(gws, used, earned) /\ Work(fpc[f], fact[f], frec[f], flist[f], used, earned)
        /\ g \in Gateways /\ g.mark = TRUE /\ g.key = TRUE /\ g.addr # None
    BY DEF OptInv, EntryInv, WorkInv, Seen, Owned, ConfiguredKey, Bluetooth, Gateways
  <1>1. \A list : SaveGateways(f, list) => gws' = list /\ fpc'[f] = "closed"
    BY DEF SaveGateways, Close, Goto, OptInv, FunInv
  <1>2. CASE EditUnverified(f)
    <2> DEFINE new == FromForm(frec[f].id, None)
    <2>1. /\ g \notin Replaced(gws, new) /\ fpc[f] = "editing" /\ fpc'[f] = "closed"
          /\ frec[f].addr = None
      BY <1>1, <1>2 DEF EditUnverified, Bluetooth
    <2>2. g.id = new.id
      BY ONLY <2>1, g \in gws, LeftOut
    <2>3. new.id = frec[f].id
      BY DEF FromForm
    <2> QED BY <1>0, <2>1, <2>2, <2>3 DEF DecidedBefore, Work
  <1>3. CASE Validated(f)
    <2>1. /\ fpc[f] = "validating" /\ fpc'[f] = "closed" /\ frec[f].addr = None
          /\ fact[f] \in {"add", "edit"}
          /\ gws' = IF fact[f] = "add" THEN flist[f] \cup {frec[f]} ELSE Replaced(flist[f], frec[f])
      BY <1>0, <1>1, <1>3 DEF Validated, Work
    <2>2. CASE g \notin flist[f]
      BY <2>1, <2>2 DEF DecidedBefore
    <2>3. CASE g \in flist[f]
      <3>1. fact[f] = "edit" /\ g \notin Replaced(flist[f], frec[f])
        BY <2>1, <2>3
      <3>2. g.id = frec[f].id
        BY ONLY <2>3, <3>1, LeftOut
      <3> QED BY <1>0, <2>1, <3>1, <3>2 DEF DecidedBefore
    <2> QED BY <2>2, <2>3
  <1>4. CASE Forgotten(f)
    <2>1. /\ fpc[f] = "forgetting" /\ fpc'[f] = "closed"
          /\ gws' = {h \in flist[f] : h.id # frec[f].id}
      BY <1>1, <1>4 DEF Forgotten
    <2> QED BY <1>4, <2>1 DEF Removes, DecidedBefore
  <1>5. ASSUME NEW id \in Ids, AddUnverified(f, id)
        PROVE  FALSE
    BY <1>1, <1>5 DEF AddUnverified
  <1>6. ASSUME NEW id \in Ids, RemovePlain(f, id)
        PROVE  Removes(f, g.id)
    <2>1. gws' = {h \in gws : h.id # id} /\ fpc[f] = "menu"
      BY <1>1, <1>6 DEF RemovePlain
    <2> QED BY <1>6, <2>1 DEF Removes
  <1>7. ASSUME NEW addr \in Addrs, EditOwned(f, addr)
        PROVE  FALSE
    <2> DEFINE old == Find(gws, frec[f].id)
               new == Preserved(old, FromForm(old.id, addr))
    <2>1. old \in gws
      BY <1>7, FindIs DEF EditOwned
    <2>2. Owned(old) /\ old.addr = addr /\ gws' = Replaced(gws, new)
      BY <1>1, <1>7 DEF EditOwned
    <2>3. old \in Gateways /\ old.mark = TRUE /\ old.key = TRUE
      BY <1>0, <2>1, <2>2 DEF Seen, Owned, ConfiguredKey, Gateways
    <2>4. new = old
      <3> HIDE DEF old
      <3>1. new = [FromForm(old.id, addr) EXCEPT !.key = TRUE, !.mark = TRUE]
        BY <2>2 DEF Preserved, FromForm
      <3>2. new = [id |-> old.id, addr |-> old.addr, key |-> TRUE, mark |-> TRUE]
        BY ONLY <2>2, <3>1 DEF FromForm
      <3>3. old = [id |-> old.id, addr |-> old.addr, key |-> TRUE, mark |-> TRUE]
        BY ONLY <2>3 DEF Gateways
      <3> QED BY ONLY <3>2, <3>3
    <2> HIDE DEF old, new
    <2>5. g.id = new.id /\ g # new
      BY <2>2, LeftOut
    <2> QED BY <1>0, <2>1, <2>4, <2>5 DEF Seen, IdsOnce
  <1>8. ASSUME NEW created \in BOOLEAN, PairSaved(f, created)
        PROVE  DecidedBefore(f, g)
    <2> DEFINE new == [frec[f] EXCEPT !.key = TRUE, !.mark = created]
    <2>1. /\ fpc[f] = "pairing" /\ fpc'[f] = "closed"
          /\ gws' = IF fact[f] = "add" THEN gws \cup {new} ELSE Replaced(gws, new)
      BY <1>1, <1>8 DEF PairSaved
    <2>2. frec[f] \in Gateways /\ fact[f] \in {"add", "edit"}
      BY <1>0, <2>1 DEF Work
    <2>3. new.id = frec[f].id
      BY <2>2 DEF Gateways
    <2> HIDE DEF new
    <2>4. fact[f] = "edit" /\ g \notin Replaced(gws, new)
      BY <2>1, <2>2
    <2>5. g.id = frec[f].id
      BY <2>3, <2>4, LeftOut
    <2>6. g \notin flist[f]
      BY <1>0, <2>1, <2>4, <2>5 DEF Work
    <2> QED BY <2>1, <2>6 DEF DecidedBefore
  <1>9. ASSUME NEW list \in Written, Advanced(f, list)
        PROVE  FALSE
    <2>1. gws' = Reconciled(gws, list) /\ ~Refused(gws, list)
      BY <1>1, <1>9 DEF Advanced
    <2>2. PICK p \in list : p.id = g.id /\ p.addr = g.addr
      BY <2>1 DEF Refused
    <2>3. SameOwned(gws, p) = TRUE /\ p \in Gateways
      BY <2>2 DEF SameOwned, Written, Writable
    <2>4. [p EXCEPT !.key = SameOwned(gws, p), !.mark = SameOwned(gws, p)] \in gws'
      BY <2>1 DEF Reconciled
    <2>5. [p EXCEPT !.key = SameOwned(gws, p), !.mark = SameOwned(gws, p)] = g
      BY ONLY <1>0, <2>2, <2>3 DEF Gateways
    <2> QED BY <2>4, <2>5
  <1>10. ASSUME gws' = gws PROVE FALSE
    BY <1>10
  <1>11. CASE OpenFlow(f) \/ CloseFlow(f) \/ EditGone(f) \/ EditVerified(f) \/ StepFails(f)
    BY ONLY <1>10, <1>11 DEF OpenFlow, CloseFlow, EditGone, EditVerified, StepFails, entryVars
  <1>12. ASSUME NEW id \in Ids \cup {None},
                AddVerified(f, id) \/ ChooseEdit(f, id) \/ RemoveWithBond(f, id) \/ Maintenance(f, id)
         PROVE  FALSE
    BY ONLY <1>10, <1>12 DEF AddVerified, ChooseEdit, RemoveWithBond, Maintenance, entryVars
  <1>13. ASSUME NEW id \in Ids, NEW addr \in Addrs, AddBluetooth(f, id, addr)
         PROVE  FALSE
    BY ONLY <1>10, <1>13 DEF AddBluetooth, entryVars
  <1>14. ASSUME NEW addr \in Addrs, EditUnowned(f, addr)
         PROVE  FALSE
    BY ONLY <1>10, <1>14 DEF EditUnowned, entryVars
  <1>15. ASSUME NEW created \in BOOLEAN, PairRefused(f, created)
         PROVE  FALSE
    BY ONLY <1>10, <1>15 DEF PairRefused, entryVars
  <1>16. ASSUME NEW v \in Versions, General(f, v)
         PROVE  FALSE
    BY ONLY <1>10, <1>16 DEF General
  <1> QED BY ONLY FlowStep(f), <1>2, <1>3, <1>4, <1>5, <1>6, <1>7, <1>8, <1>9,
                  <1>11, <1>12, <1>13, <1>14, <1>15, <1>16 DEF FlowStep

\* While there is an entry the config flow does not touch its gateways.
LEMMA SetupKeeps ==
    ASSUME OptInv, SetupStep, gws # {}
    PROVE  gws' = gws
  <1>1. present
    BY DEF OptInv, EntryInv
  <1>2. ~SetupCreate /\ (\A created \in BOOLEAN : ~SetupPaired(created)) /\ \A list \in Written : ~Import(list)
    BY <1>1 DEF SetupCreate, SetupPaired, Import
  <1>3. \/ SetupStart \/ SetupMore \/ SetupEnds
        \/ \E id \in Ids, addr \in Addrs \cup {None} : SetupGateway(FromForm(id, addr))
    BY ONLY SetupStep, <1>2 DEF SetupStep
  <1> QED BY ONLY <1>3 DEF SetupStart, SetupMore, SetupEnds, SetupGateway, entryVars

-----------------------------------------------------------------------------
(* Theorems *)

\* What holds of the entry, the config flow and every dialog at any time.
THEOREM DialogInvariant == OptSpec => []OptInv
  BY InitInv, StepInv, PTL DEF OptSpec

\* The type invariant.
THEOREM DialogsTyped == OptSpec => []OptTypeOK
  <1>1. OptInv => OptTypeOK
    BY DEF OptInv, EntryInv, WorkInv, FunInv, SetupInv, Work, Seen, OptTypeOK
  <1> QED BY <1>1, DialogInvariant, PTL

\* A mark of ownership stands for a bond that a pairing of MeshNet has made,
\* whatever the dialogs, the JSON lists and the imports do.
THEOREM MarksEarned == OptSpec => []MarkIsEarned
  <1>1. OptInv => MarkIsEarned
    BY DEF OptInv, EntryInv, Seen, Earned, MarkIsEarned
  <1> QED BY <1>1, DialogInvariant, PTL

\* An owned record that a dialog could see is lost by its guided removal only.
THEOREM OwnershipKept == OptSpec => OwnedLeavesKnowingly
  <1> DEFINE Kept == \A g \in gws : Owned(g) /\ g \notin gws'
                        => \E f \in Flows : Removes(f, g.id) \/ DecidedBefore(f, g)
  <1>1. OptInv /\ [OptNext]_optVars => [Kept]_optVars
    <2> SUFFICES ASSUME OptInv, OptNext, NEW g \in gws, Owned(g), g \notin gws'
                 PROVE  \E f \in Flows : Removes(f, g.id) \/ DecidedBefore(f, g)
      OBVIOUS
    <2>1. ~SetupStep
      BY SetupKeeps
    <2>2. PICK f \in Flows : FlowStep(f)
      BY <2>1 DEF OptNext
    <2> QED BY ONLY <2>2, OptInv, g \in gws, Owned(g), g \notin gws', DialogKeeps
  <1> QED BY <1>1, DialogInvariant, PTL DEF OptSpec, OwnedLeavesKnowingly

-----------------------------------------------------------------------------
(* The entry and its store *)

\* What the coordinator c is to the entry.
Now(c) == IF c = cur THEN estate ELSE "gone"

\* The lease of the lock: published connection, queue and executor work.
Lease(cn, q, work) ==
    /\ q \in Seq(Holders)
    /\ work \subseteq Holders
    /\ \A h \in work : cn /\ h # "close" /\ q # <<>> /\ Head(q) = h

\* Who owns the connection: its state, whether it is published, the close task,
\* whether the coordinator is still to come, and what it is to the entry.
Owner(d, cn, cl, future, now, pc) ==
    /\ cn \in BOOLEAN
    /\ future => d = "none" /\ cl = "none"
    /\ cn => d = "open" /\ cl \in {"none", "asked"}
    /\ d = "open" /\ ~cn => cl \in {"late", "draining"}
    /\ d = "connecting" => cl = "late" \/ (now = "setup" /\ pc = "connect")
    /\ now = "setup" /\ pc = "connect" => d = "connecting" /\ cl = "none"
    /\ cn /\ cl = "none" =>
         now \in {"setup", "rollback", "loaded", "unloading", "failed_unload"} /\ pc # "close"

StoreInv ==
    \A c \in Coords : /\ Lease(conn[c], queue[c], inflight[c])
                      /\ Owner(db[c], conn[c], closer[c], c > cur, Now(c), epc)

StoreFuns ==
    /\ DOMAIN db = Coords /\ DOMAIN conn = Coords /\ DOMAIN queue = Coords
    /\ DOMAIN inflight = Coords /\ DOMAIN closer = Coords /\ DOMAIN config = Coords

CurInv ==
    /\ cur \in 0..MaxSetups
    /\ estate # "not_loaded" => cur \in Coords

\* A setup has no listener, a loaded entry has one.
ListenInv ==
    /\ reloads \in Nat
    /\ listener => estate \in {"loaded", "unloading", "failed_unload"}
    /\ estate = "loaded" => listener

\* The coordinator that runs, or is being set up, was made with what is saved.
ConfigInv ==
    estate \in {"setup", "loaded"} /\ reloads = 0 /\ ~missed => config[cur] = Options

StoreSafe == StoreFuns /\ CurInv /\ StoreInv

-----------------------------------------------------------------------------
(* The options *)

\* Every step of the entry and the store is a step of the dialogs or none.
LEMMA StepsAreOptionSteps == [Next]_vars => [OptNext]_optVars
  <1> SUFFICES ASSUME [Next]_vars PROVE [OptNext]_optVars
    OBVIOUS
  <1>1. CASE OptionsStep
    BY <1>1 DEF OptionsStep
  <1>2. CASE SetupSteps
    BY ONLY <1>2 DEF SetupSteps, SetupEntry, SetupDone, PlatformsFail, CancelSetup, RollbackPlatforms,
       ShutDown, RolledBack, Connected, ConnectFails, SetupWorkDone
  <1>3. CASE UnloadSteps
    BY ONLY <1>3 DEF UnloadSteps, BeginUnload, RadioDrained, SettingsDrained, PlatformsUnloaded,
       ShutDown, Unloaded, ReloadRefused
  <1>4. CASE JobSteps
    BY ONLY <1>4 DEF JobSteps, AskJob
  <1>5. ASSUME NEW c \in Coords, StoreStep(c) PROVE UNCHANGED optVars
    BY ONLY <1>5 DEF StoreStep, CloseLate, Detach, FinishClose, StartWork, FindNoConnection, CallerLeaves,
       WorkDone
  <1>6. CASE UNCHANGED vars
    BY <1>6 DEF vars
  <1> QED BY ONLY [Next]_vars, <1>1, <1>2, <1>3, <1>4, <1>5, <1>6 DEF Next

\* The entry with its store implements the dialogs alone.
THEOREM ImplementsOptions == Spec => OptSpec
  <1>1. Init => OptInit
    BY DEF Init
  <1> QED BY <1>1, StepsAreOptionSteps, PTL DEF Spec, OptSpec

\* So a mark of ownership is earned with setups and reloads around the dialogs.
THEOREM MarksEarnedInEntry == Spec => []MarkIsEarned
  BY ImplementsOptions, MarksEarned, PTL

\* And ownership is given up knowingly.
THEOREM OwnershipKeptInEntry == Spec => OwnedLeavesKnowingly
  BY ImplementsOptions, OwnershipKept, PTL

-----------------------------------------------------------------------------
(* One store *)

\* Queues: an addition leaves the head alone, and the rest is a queue.
LEMMA QueueFacts ==
    ASSUME NEW q \in Seq(Holders)
    PROVE  /\ \A h \in Holders : /\ Append(q, h) \in Seq(Holders) /\ Append(q, h) # <<>>
                                 /\ q # <<>> => Head(Append(q, h)) = Head(q)
           /\ q # <<>> => Tail(q) \in Seq(Holders)
  OBVIOUS

\* A step that touches one coordinator.
LEMMA AtOne ==
    ASSUME StoreInv, NEW k \in Coords, cur' = cur,
           k = cur \/ UNCHANGED <<estate, epc>>,
           \A c \in Coords \ {k} : /\ db'[c] = db[c] /\ conn'[c] = conn[c] /\ queue'[c] = queue[c]
                                   /\ inflight'[c] = inflight[c] /\ closer'[c] = closer[c],
           Lease(conn'[k], queue'[k], inflight'[k]),
           Owner(db'[k], conn'[k], closer'[k], k > cur, IF k = cur THEN estate' ELSE "gone", epc')
    PROVE  StoreInv'
  <1> SUFFICES ASSUME NEW c \in Coords
               PROVE  /\ Lease(conn'[c], queue'[c], inflight'[c])
                      /\ Owner(db'[c], conn'[c], closer'[c], c > cur', Now(c)', epc')
    BY DEF StoreInv
  <1>1. CASE c = k
    BY <1>1 DEF Now
  <1>2. CASE c # k
    <2>1. /\ Lease(conn[c], queue[c], inflight[c])
          /\ Owner(db[c], conn[c], closer[c], c > cur, Now(c), epc)
      BY DEF StoreInv
    <2>2. /\ db'[c] = db[c] /\ conn'[c] = conn[c] /\ queue'[c] = queue[c]
          /\ inflight'[c] = inflight[c] /\ closer'[c] = closer[c]
      BY <1>2
    <2>3. CASE c = cur
      BY <1>2, <2>1, <2>2, <2>3 DEF Now
    <2>4. CASE c # cur
      BY <2>1, <2>2, <2>4 DEF Now, Owner
    <2> QED BY <2>3, <2>4
  <1> QED BY <1>1, <1>2

\* What is known of one coordinator, and that EXCEPT changes one place.
LEMMA OneStore ==
    ASSUME StoreSafe, NEW c \in Coords
    PROVE  /\ Lease(conn[c], queue[c], inflight[c])
           /\ Owner(db[c], conn[c], closer[c], c > cur, Now(c), epc)
           /\ queue[c] \in Seq(Holders) /\ inflight[c] \subseteq Holders /\ conn[c] \in BOOLEAN
  BY DEF StoreSafe, StoreInv, Lease, Owner

\* The store's own steps.
LEMMA StoreSteps ==
    ASSUME StoreSafe, NEW c \in Coords, StoreStep(c)
    PROVE  StoreSafe'
  <1>0. UNCHANGED <<estate, epc, cur, config>>
    BY ONLY StoreStep(c) DEF StoreStep, CloseLate, Detach, FinishClose, StartWork, FindNoConnection, CallerLeaves,
       WorkDone, entVars, coordVars
  <1>1. StoreFuns'
    BY ONLY <1>0, StoreStep(c), StoreSafe DEF StoreStep, CloseLate, Detach, FinishClose, StartWork, FindNoConnection,
       CallerLeaves, WorkDone, Release, StoreSafe, StoreFuns
  <1>2. CurInv'
    BY <1>0 DEF StoreSafe, CurInv
  <1> DEFINE OthersStay == \A k \in Coords \ {c} :
                /\ db'[k] = db[k] /\ conn'[k] = conn[k] /\ queue'[k] = queue[k]
                /\ inflight'[k] = inflight[k] /\ closer'[k] = closer[k]
  <1>3. OthersStay
    BY ONLY StoreStep(c), StoreSafe DEF StoreStep, CloseLate, Detach, FinishClose, StartWork, FindNoConnection,
       CallerLeaves, WorkDone, Release, StoreSafe, StoreFuns
  <1> HIDE DEF OthersStay
  <1>4. /\ Lease(conn[c], queue[c], inflight[c])
        /\ Owner(db[c], conn[c], closer[c], c > cur, Now(c), epc)
        /\ queue[c] \in Seq(Holders) /\ inflight[c] \subseteq Holders /\ conn[c] \in BOOLEAN
    BY OneStore
  <1>5. /\ queue[c] # <<>> => Tail(queue[c]) \in Seq(Holders)
    BY <1>4, QueueFacts
  <1> DEFINE Goal == /\ Lease(conn'[c], queue'[c], inflight'[c])
                     /\ Owner(db'[c], conn'[c], closer'[c], c > cur, Now(c), epc)
  <1>6. ASSUME CloseLate(c) PROVE Goal
    <2>1. /\ closer[c] = "late" /\ db[c] \in {"open", "failed"} /\ closer'[c] = "none"
          /\ db'[c] = IF db[c] = "open" THEN "closed" ELSE db[c]
          /\ conn'[c] = conn[c] /\ queue'[c] = queue[c] /\ inflight'[c] = inflight[c]
      BY ONLY <1>6, StoreSafe DEF CloseLate, StoreSafe, StoreFuns
    <2>10. Lease(conn'[c], queue'[c], inflight'[c])
      BY ONLY <1>4, <2>1 DEF Lease
    <2>11. Owner(db'[c], conn'[c], closer'[c], c > cur, Now(c), epc)
      BY ONLY <1>4, <2>1 DEF Owner
    <2> QED BY ONLY <2>10, <2>11
  <1>7. ASSUME Detach(c) PROVE Goal
    <2>1. /\ closer[c] = "asked" /\ queue[c] # <<>> /\ Head(queue[c]) = "close"
          /\ closer'[c] = IF conn[c] THEN "draining" ELSE "none"
          /\ db'[c] = db[c] /\ conn'[c] = FALSE /\ queue'[c] = Tail(queue[c])
          /\ inflight'[c] = inflight[c]
      BY ONLY <1>7, StoreSafe DEF Detach, Holds, Release, StoreSafe, StoreFuns
    <2>2. inflight[c] = {}
      BY ONLY <1>4, <2>1 DEF Lease
    <2>10. Lease(conn'[c], queue'[c], inflight'[c])
      BY ONLY <1>4, <1>5, <2>1, <2>2 DEF Lease
    <2>11. Owner(db'[c], conn'[c], closer'[c], c > cur, Now(c), epc)
      BY ONLY <1>4, <1>5, <2>1, <2>2 DEF Owner
    <2> QED BY ONLY <2>10, <2>11
  <1>8. ASSUME FinishClose(c) PROVE Goal
    <2>1. /\ closer[c] = "draining" /\ closer'[c] = "none" /\ db'[c] = "closed"
          /\ conn'[c] = conn[c] /\ queue'[c] = queue[c] /\ inflight'[c] = inflight[c]
      BY ONLY <1>8, StoreSafe DEF FinishClose, StoreSafe, StoreFuns
    <2>10. Lease(conn'[c], queue'[c], inflight'[c])
      BY ONLY <1>4, <2>1 DEF Lease
    <2>11. Owner(db'[c], conn'[c], closer'[c], c > cur, Now(c), epc)
      BY ONLY <1>4, <2>1 DEF Owner
    <2> QED BY ONLY <2>10, <2>11
  <1>9. ASSUME NEW h \in Holders, StartWork(c, h) PROVE Goal
    <2>1. /\ queue[c] # <<>> /\ Head(queue[c]) = h /\ h # "close" /\ conn[c]
          /\ inflight'[c] = inflight[c] \cup {h}
          /\ conn'[c] = conn[c] /\ queue'[c] = queue[c] /\ closer'[c] = closer[c] /\ db'[c] = db[c]
      BY ONLY <1>9, StoreSafe DEF StartWork, Holds, StoreSafe, StoreFuns
    <2> QED BY ONLY <1>4, <2>1 DEF Lease
  <1>10. ASSUME NEW h \in Holders, FindNoConnection(c, h) PROVE Goal
    <2>1. /\ ~conn[c] /\ queue[c] # <<>> /\ queue'[c] = Tail(queue[c])
          /\ conn'[c] = conn[c] /\ inflight'[c] = inflight[c] /\ closer'[c] = closer[c] /\ db'[c] = db[c]
      BY ONLY <1>10, StoreSafe DEF FindNoConnection, Holds, Release, StoreSafe, StoreFuns
    <2>2. inflight[c] = {}
      BY ONLY <1>4, <2>1 DEF Lease
    <2> QED BY ONLY <1>4, <1>5, <2>1, <2>2 DEF Lease
  <1>11. ASSUME NEW h \in Holders, CallerLeaves(c, h) PROVE Goal
    <2>1. UNCHANGED <<conn, inflight, closer, db, queue>>
      BY ONLY <1>11 DEF CallerLeaves
    <2> QED BY ONLY <1>4, <2>1
  <1>12. ASSUME NEW h \in Holders, WorkDone(c, h) PROVE Goal
    <2>1. /\ h \in inflight[c] /\ inflight'[c] = inflight[c] \ {h}
          /\ queue'[c] = IF queue[c] # <<>> /\ Head(queue[c]) = h THEN Tail(queue[c]) ELSE queue[c]
          /\ conn'[c] = conn[c] /\ closer'[c] = closer[c] /\ db'[c] = db[c]
      BY ONLY <1>12, StoreSafe DEF WorkDone, Holds, StoreSafe, StoreFuns
    <2>2. inflight'[c] = {} /\ queue'[c] = Tail(queue[c]) /\ queue[c] # <<>>
      BY ONLY <1>4, <2>1 DEF Lease
    <2> QED BY ONLY <1>4, <1>5, <2>1, <2>2 DEF Lease
  <1> HIDE DEF Goal
  <1>13. Goal
    BY ONLY StoreStep(c), <1>6, <1>7, <1>8, <1>9, <1>10, <1>11, <1>12 DEF StoreStep
  <1>14. StoreInv'
    BY <1>0, <1>3, <1>13, AtOne DEF OthersStay, Goal, Now, StoreSafe
  <1> QED BY <1>1, <1>2, <1>14 DEF StoreSafe

\* A job that is asked for waits behind whoever holds the lock.
LEMMA AskSteps ==
    ASSUME StoreSafe, JobSteps
    PROVE  StoreSafe'
  <1>1. PICK c \in Coords, j \in Jobs : AskJob(c, j)
    BY DEF JobSteps
  <1>2. /\ UNCHANGED <<estate, epc, cur, config, db, conn, inflight, closer>>
        /\ queue' = [queue EXCEPT ![c] = Append(@, j)]
    BY <1>1 DEF AskJob, Ask, entVars, coordVars
  <1>3. StoreFuns' /\ CurInv'
    BY <1>2 DEF StoreSafe, StoreFuns, CurInv
  <1>4. /\ Lease(conn[c], queue[c], inflight[c])
        /\ Owner(db[c], conn[c], closer[c], c > cur, Now(c), epc) /\ queue[c] \in Seq(Holders)
    BY OneStore
  <1>5. /\ queue'[c] = Append(queue[c], j) /\ queue'[c] \in Seq(Holders) /\ queue'[c] # <<>>
        /\ queue[c] # <<>> => Head(queue'[c]) = Head(queue[c])
    BY <1>2, <1>4, QueueFacts DEF Holders, StoreSafe, StoreFuns
  <1>6. Lease(conn'[c], queue'[c], inflight'[c])
    BY ONLY <1>2, <1>4, <1>5 DEF Lease
  <1>7. \A k \in Coords \ {c} : queue'[k] = queue[k]
    BY <1>2 DEF StoreSafe, StoreFuns
  <1>8. StoreInv'
    BY <1>2, <1>4, <1>6, <1>7, AtOne DEF Now, StoreSafe
  <1> QED BY <1>3, <1>8 DEF StoreSafe

-----------------------------------------------------------------------------
(* The entry around the store *)

\* A step of the entry that leaves the stores alone.
LEMMA EntryMoves ==
    ASSUME StoreSafe, estate # "not_loaded", UNCHANGED <<cur, config, db, conn, queue, inflight, closer>>,
           ~(estate = "setup" /\ epc = "connect"), ~(estate' = "setup" /\ epc' = "connect"),
           epc # "close" => /\ estate' \in {"setup", "rollback", "loaded", "unloading", "failed_unload"}
                            /\ epc' # "close"
    PROVE  StoreSafe'
  <1>1. cur \in Coords /\ StoreFuns' /\ CurInv'
    BY DEF StoreSafe, StoreFuns, CurInv
  <1>2. Lease(conn[cur], queue[cur], inflight[cur]) /\ Owner(db[cur], conn[cur], closer[cur], cur > cur, estate, epc)
    BY <1>1, OneStore DEF Now
  <1>3. Owner(db[cur], conn[cur], closer[cur], cur > cur, estate', epc')
    BY <1>2 DEF Owner
  <1>4. StoreInv'
    <2> DEFINE k == cur
    <2>1. /\ k \in Coords /\ k = cur /\ cur' = cur
          /\ Lease(conn'[k], queue'[k], inflight'[k])
          /\ Owner(db'[k], conn'[k], closer'[k], k > cur, estate', epc')
      BY <1>1, <1>2, <1>3
    <2>2. \A c \in Coords \ {k} : /\ db'[c] = db[c] /\ conn'[c] = conn[c] /\ queue'[c] = queue[c]
                                  /\ inflight'[c] = inflight[c] /\ closer'[c] = closer[c]
      OBVIOUS
    <2> QED BY <2>1, <2>2, AtOne DEF StoreSafe
  <1> QED BY <1>1, <1>4 DEF StoreSafe

\* The steps of setup and rollback that only the entry sees.
LEMMA SetupMovesOn ==
    ASSUME StoreSafe, SetupDone \/ PlatformsFail \/ RollbackPlatforms \/ RolledBack
    PROVE  StoreSafe'
  <1>1. UNCHANGED <<cur, config, db, conn, queue, inflight, closer>>
    BY DEF SetupDone, PlatformsFail, RollbackPlatforms, RolledBack, coordVars, storeVars
  <1>2. /\ estate # "not_loaded" /\ epc # "connect"
        /\ epc' # "connect"
        /\ epc # "close" => estate' \in {"rollback", "loaded"} /\ epc' # "close"
    BY DEF SetupDone, PlatformsFail, RollbackPlatforms, RolledBack, Rollback, Step
  <1> QED BY <1>1, <1>2, EntryMoves

\* The same for an unload.
LEMMA UnloadMovesOn ==
    ASSUME StoreSafe,
           \/ \E reload \in BOOLEAN : BeginUnload(reload)
           \/ \E ok \in BOOLEAN : RadioDrained(ok) \/ SettingsDrained(ok) \/ PlatformsUnloaded(ok)
           \/ Unloaded
    PROVE  StoreSafe'
  <1>1. UNCHANGED <<cur, config, db, conn, queue, inflight, closer>>
    BY DEF BeginUnload, RadioDrained, SettingsDrained, PlatformsUnloaded, Unloaded, coordVars, storeVars
  <1>2. /\ estate \in {"loaded", "unloading"} /\ estate' # "setup"
        /\ epc # "close" => estate' \in {"unloading", "failed_unload"} /\ epc' # "close"
    BY DEF BeginUnload, RadioDrained, SettingsDrained, PlatformsUnloaded, Unloaded, Step
  <1> QED BY <1>1, <1>2, EntryMoves

\* Steps that change neither.
LEMMA StoreStays ==
    ASSUME StoreSafe, UNCHANGED <<estate, epc, cur, config, db, conn, queue, inflight, closer>>
    PROVE  StoreSafe'
  BY DEF StoreSafe, StoreFuns, CurInv, StoreInv, Now

\* A new coordinator.
LEMMA MakesStore ==
    ASSUME StoreSafe, world \in Scenarios, NEW pending \in BOOLEAN, SetupEntry(pending)
    PROVE  StoreSafe'
  <1>1. /\ estate \in {"not_loaded", "setup_failed"} /\ cur < world.setups
        /\ cur' = cur + 1 /\ estate' = "setup" /\ epc' = "connect"
        /\ config' = [config EXCEPT ![cur + 1] = Options]
        /\ db' = [db EXCEPT ![cur + 1] = "connecting"]
        /\ UNCHANGED <<conn, queue, inflight, closer>>
    BY DEF SetupEntry, Step
  <1>2. cur + 1 \in Coords /\ cur \in Nat
    BY <1>1 DEF StoreSafe, CurInv, Coords
  <1>3. StoreFuns' /\ CurInv'
    BY <1>1, <1>2 DEF StoreSafe, StoreFuns, CurInv, Coords
  <1>4. StoreInv'
    <2> SUFFICES ASSUME NEW c \in Coords
                 PROVE  /\ Lease(conn'[c], queue'[c], inflight'[c])
                        /\ Owner(db'[c], conn'[c], closer'[c], c > cur', Now(c)', epc')
      BY DEF StoreInv
    <2>1. /\ Lease(conn[c], queue[c], inflight[c])
          /\ Owner(db[c], conn[c], closer[c], c > cur, Now(c), epc)
      BY OneStore
    <2>2. c \in Nat
      BY DEF Coords
    <2>3. CASE c = cur + 1
      <3>1. c > cur /\ ~(c > cur') /\ Now(c)' = "setup" /\ db'[c] = "connecting"
        BY <1>1, <1>2, <2>2, <2>3 DEF Now, StoreSafe, StoreFuns
      <3>2. Owner(db'[c], conn[c], closer[c], c > cur', Now(c)', epc')
        BY ONLY <1>1, <2>1, <3>1 DEF Owner
      <3> QED BY <1>1, <2>1, <3>2
    <2>4. CASE c # cur + 1
      <3>1. /\ db'[c] = db[c] /\ (c > cur' => c > cur) /\ Now(c)' = "gone"
            /\ Now(c) \in {"gone", "not_loaded", "setup_failed"}
        BY <1>1, <1>2, <2>2, <2>4 DEF Now, StoreSafe, StoreFuns
      <3>2. Owner(db'[c], conn[c], closer[c], c > cur', Now(c)', epc')
        BY ONLY <2>1, <3>1 DEF Owner
      <3> QED BY <1>1, <2>1, <3>2
    <2> QED BY <2>3, <2>4
  <1> QED BY <1>3, <1>4 DEF StoreSafe

\* Setup is cancelled: a connection that is still being made gets its closer.
LEMMA CancelKeepsOwner ==
    ASSUME StoreSafe, CancelSetup
    PROVE  StoreSafe'
  <1>1. /\ estate = "setup" /\ estate' = "rollback" /\ epc' \in {"platforms", "drain"}
        /\ UNCHANGED <<cur, config, db, conn, queue, inflight>>
        /\ IF epc = "connect" THEN closer' = [closer EXCEPT ![cur] = "late"] ELSE closer' = closer
    BY DEF CancelSetup, Rollback, LateCloser, Step, coordVars
  <1>2. cur \in Coords /\ StoreFuns' /\ CurInv'
    BY <1>1 DEF StoreSafe, StoreFuns, CurInv
  <1>3. /\ Lease(conn[cur], queue[cur], inflight[cur])
        /\ Owner(db[cur], conn[cur], closer[cur], cur > cur, estate, epc)
    BY <1>2, OneStore DEF Now
  <1>4. closer'[cur] = IF epc = "connect" THEN "late" ELSE closer[cur]
    BY <1>1, <1>2 DEF StoreSafe, StoreFuns
  <1>5. Owner(db[cur], conn[cur], closer'[cur], cur > cur, estate', epc')
    <2>1. ~(cur > cur)
      BY DEF StoreSafe, CurInv
    <2> QED BY ONLY <1>1, <1>3, <1>4, <2>1 DEF Owner
  <1>6. \A c \in Coords \ {cur} : closer'[c] = closer[c]
    BY <1>1 DEF StoreSafe, StoreFuns
  <1>7. StoreInv'
    BY <1>1, <1>2, <1>3, <1>5, <1>6, AtOne DEF StoreSafe
  <1> QED BY <1>2, <1>7 DEF StoreSafe

\* A shutdown asks for the close of the store.
LEMMA ShutDownAsks ==
    ASSUME StoreSafe, NEW state \in {"rollback", "unloading"}, ShutDown(state)
    PROVE  StoreSafe'
  <1>1. /\ estate = state /\ epc = "drain" /\ estate' = state /\ epc' = "close"
        /\ UNCHANGED <<cur, config, db, conn, inflight>> /\ BeginClose(cur)
    BY DEF ShutDown, Step
  <1>2. cur \in Coords /\ cur \in Nat
    BY <1>1 DEF StoreSafe, CurInv, Coords
  <1>3. /\ Lease(conn[cur], queue[cur], inflight[cur]) /\ queue[cur] \in Seq(Holders)
        /\ Owner(db[cur], conn[cur], closer[cur], cur > cur, estate, epc)
    BY <1>2, OneStore DEF Now
  <1>4. StoreFuns' /\ CurInv'
    BY <1>1 DEF StoreSafe, StoreFuns, CurInv, BeginClose, Ask
  <1>5. \A c \in Coords \ {cur} : queue'[c] = queue[c] /\ closer'[c] = closer[c]
    BY <1>1 DEF StoreSafe, StoreFuns, BeginClose, Ask
  <1>6. /\ Lease(conn[cur], queue'[cur], inflight[cur])
        /\ Owner(db[cur], conn[cur], closer'[cur], cur > cur, estate', epc')
    <2>1. CASE closer[cur] = "none"
      <3>1. closer'[cur] = "asked" /\ queue'[cur] = Append(queue[cur], "close")
        BY <1>1, <1>2, <2>1 DEF StoreSafe, StoreFuns, BeginClose, Ask
      <3>2. /\ queue'[cur] \in Seq(Holders) /\ queue'[cur] # <<>>
            /\ queue[cur] # <<>> => Head(queue'[cur]) = Head(queue[cur])
        BY <1>3, <3>1, QueueFacts DEF Holders
      <3>3. ~(cur > cur)
        BY <1>2
      <3>4. Lease(conn[cur], queue'[cur], inflight[cur])
        BY ONLY <1>3, <3>2 DEF Lease
      <3> QED BY ONLY <1>1, <1>3, <2>1, <3>1, <3>3, <3>4 DEF Owner
    <2>2. CASE closer[cur] # "none"
      <3>1. closer' = closer /\ queue' = queue
        BY <1>1, <2>2 DEF BeginClose
      <3> QED BY ONLY <1>1, <1>3, <2>2, <3>1 DEF Owner
    <2> QED BY <2>1, <2>2
  <1>7. StoreInv'
    BY <1>1, <1>2, <1>5, <1>6, AtOne DEF StoreSafe
  <1> QED BY <1>4, <1>7 DEF StoreSafe

\* The thread that connects is done.
LEMMA ConnectEnds ==
    ASSUME StoreSafe, NEW c \in Coords, Connected(c) \/ ConnectFails(c)
    PROVE  StoreSafe'
  <1> DEFINE waiting == c = cur /\ estate = "setup" /\ epc = "connect"
  <1>1. UNCHANGED <<cur, config, inflight, closer>> /\ db[c] = "connecting"
    BY DEF Connected, ConnectFails, coordVars
  <1>2. /\ Lease(conn[c], queue[c], inflight[c]) /\ queue[c] \in Seq(Holders)
        /\ Owner(db[c], conn[c], closer[c], c > cur, Now(c), epc)
    BY OneStore
  <1>3. CurInv'
    BY <1>1 DEF StoreSafe, CurInv, Connected, ConnectFails, Rollback, Step
  <1>4. StoreFuns'
    BY <1>1 DEF StoreSafe, StoreFuns, Connected, ConnectFails, Ask
  <1>5. CASE Connected(c) /\ waiting
    <2>1. /\ db'[c] = "open" /\ conn'[c] = TRUE /\ estate' = "setup" /\ epc' = "schema"
          /\ queue'[c] = Append(queue[c], "setup")
      BY <1>5 DEF Connected, Ask, Step, StoreSafe, StoreFuns
    <2>2. /\ queue'[c] \in Seq(Holders) /\ queue'[c] # <<>>
          /\ queue[c] # <<>> => Head(queue'[c]) = Head(queue[c])
      BY <1>2, <2>1, QueueFacts DEF Holders
    <2>3. Lease(conn'[c], queue'[c], inflight'[c])
      BY ONLY <1>1, <1>2, <2>1, <2>2 DEF Lease
    <2>4. Now(c) = "setup" /\ c = cur
      BY <1>5 DEF Now
    <2>5. Owner(db'[c], conn'[c], closer'[c], c > cur, estate', epc')
      BY ONLY <1>1, <1>2, <1>5, <2>1, <2>4 DEF Owner
    <2>6. \A k \in Coords \ {c} : /\ db'[k] = db[k] /\ conn'[k] = conn[k] /\ queue'[k] = queue[k]
                                  /\ inflight'[k] = inflight[k] /\ closer'[k] = closer[k]
      BY <1>1, <1>5 DEF Connected, Ask, StoreSafe, StoreFuns
    <2>7. StoreInv'
      BY <1>1, <2>3, <2>4, <2>5, <2>6, AtOne DEF StoreSafe
    <2> QED BY <1>3, <1>4, <2>7 DEF StoreSafe
  <1>6. CASE ConnectFails(c) \/ ~waiting
    <2>1. /\ db' = [db EXCEPT ![c] = IF Connected(c) THEN "open" ELSE "failed"]
          /\ UNCHANGED <<conn, queue>>
          /\ IF waiting THEN estate' = "rollback" /\ epc' \in {"platforms", "drain"}
             ELSE UNCHANGED <<estate, epc>>
      BY <1>6 DEF Connected, ConnectFails, Rollback, Step
    <2>2. db'[c] \in {"open", "failed"} /\ (db'[c] = "open" => ~waiting)
      BY <1>5, <1>6, <2>1 DEF StoreSafe, StoreFuns, Connected, ConnectFails
    <2>3. Owner(db'[c], conn[c], closer[c], c > cur, IF c = cur THEN estate' ELSE "gone", epc')
      <3>1. CASE waiting
        BY ONLY <1>1, <1>2, <2>1, <2>2, <3>1 DEF Owner, Now
      <3>2. CASE ~waiting
        <4>1. Now(c) = (IF c = cur THEN estate' ELSE "gone") /\ epc' = epc
          BY <2>1, <3>2 DEF Now
        <4>2. ~(Now(c) = "setup" /\ epc = "connect")
          BY <3>2 DEF Now
        <4> QED BY ONLY <1>1, <1>2, <2>2, <4>1, <4>2 DEF Owner
      <3> QED BY <3>1, <3>2
    <2>4. \A k \in Coords \ {c} : db'[k] = db[k]
      BY <2>1 DEF StoreSafe, StoreFuns
    <2>5. c = cur \/ UNCHANGED <<estate, epc>>
      BY <2>1
    <2>6. StoreInv'
      BY <1>1, <1>2, <2>1, <2>3, <2>4, <2>5, AtOne DEF StoreSafe
    <2> QED BY <1>3, <1>4, <2>6 DEF StoreSafe
  <1> QED BY <1>5, <1>6

\* The thread of an operation of the setup is done.
LEMMA SetupWorkEnds ==
    ASSUME StoreSafe, NEW c \in Coords, NEW fails \in BOOLEAN, SetupWorkDone(c, fails)
    PROVE  StoreSafe'
  <1>1. /\ "setup" \in inflight[c] /\ inflight' = [inflight EXCEPT ![c] = @ \ {"setup"}]
        /\ UNCHANGED <<cur, config, db, conn, closer>>
        /\ \/ queue' = [queue EXCEPT ![c] = Tail(@)]
           \/ queue' = [queue EXCEPT ![c] = Append(Tail(@), "setup")]
    BY DEF SetupWorkDone, coordVars
  <1>2. \/ UNCHANGED <<estate, epc>>
        \/ /\ c = cur /\ estate = "setup" /\ epc \in {"schema", "load"}
           /\ estate' \in {"setup", "rollback"} /\ epc' \in {"platforms", "drain", "load"}
    BY DEF SetupWorkDone, Rollback, Step
  <1>3. CurInv'
    BY <1>1, <1>2 DEF StoreSafe, CurInv
  <1>4. StoreFuns'
    BY <1>1 DEF StoreSafe, StoreFuns
  <1>5. /\ Lease(conn[c], queue[c], inflight[c]) /\ queue[c] \in Seq(Holders)
        /\ Owner(db[c], conn[c], closer[c], c > cur, Now(c), epc)
    BY OneStore
  <1>6. inflight'[c] = {} /\ queue[c] # <<>>
    BY <1>1, <1>5 DEF Lease, StoreSafe, StoreFuns
  <1>7. queue'[c] \in Seq(Holders)
    <2>1. Tail(queue[c]) \in Seq(Holders)
      BY <1>5, <1>6, QueueFacts
    <2>2. Append(Tail(queue[c]), "setup") \in Seq(Holders)
      BY <2>1, QueueFacts DEF Holders
    <2>3. queue'[c] \in {Tail(queue[c]), Append(Tail(queue[c]), "setup")}
      BY <1>1 DEF StoreSafe, StoreFuns
    <2> QED BY <2>1, <2>2, <2>3
  <1>8. Lease(conn'[c], queue'[c], inflight'[c])
    BY ONLY <1>6, <1>7 DEF Lease
  <1>9. Owner(db'[c], conn'[c], closer'[c], c > cur, IF c = cur THEN estate' ELSE "gone", epc')
    BY ONLY <1>1, <1>2, <1>5 DEF Owner, Now
  <1>10. \A k \in Coords \ {c} : /\ db'[k] = db[k] /\ conn'[k] = conn[k] /\ queue'[k] = queue[k]
                                 /\ inflight'[k] = inflight[k] /\ closer'[k] = closer[k]
    BY <1>1 DEF StoreSafe, StoreFuns
  <1>11. StoreInv'
    BY <1>1, <1>2, <1>8, <1>9, <1>10, AtOne DEF StoreSafe
  <1> QED BY <1>3, <1>4, <1>11 DEF StoreSafe

\* A new run.
LEMMA StoreInit == Init => StoreSafe
  <1> SUFFICES ASSUME Init PROVE StoreSafe
    OBVIOUS
  <1>1. StoreFuns /\ CurInv
    BY DEF Init, StoreFuns, CurInv
  <1>2. ASSUME NEW c \in Coords
        PROVE  /\ Lease(conn[c], queue[c], inflight[c])
               /\ Owner(db[c], conn[c], closer[c], c > cur, Now(c), epc)
    <2>1. /\ conn[c] = FALSE /\ queue[c] = <<>> /\ inflight[c] = {} /\ db[c] = "none"
          /\ closer[c] = "none" /\ estate = "not_loaded" /\ Now(c) \in {"gone", "not_loaded"}
      BY DEF Init, Now
    <2>2. << >> \in Seq(Holders)
      OBVIOUS
    <2>3. Lease(conn[c], queue[c], inflight[c])
      BY ONLY <2>1, <2>2 DEF Lease
    <2>4. Owner(db[c], conn[c], closer[c], c > cur, Now(c), epc)
      BY ONLY <2>1 DEF Owner
    <2> QED BY <2>3, <2>4
  <1> QED BY <1>1, <1>2 DEF StoreSafe, StoreInv

\* Every step.
LEMMA StoreStepInv == world \in Scenarios /\ StoreSafe /\ [Next]_vars => StoreSafe'
  <1> SUFFICES ASSUME world \in Scenarios, StoreSafe, [Next]_vars PROVE StoreSafe'
    OBVIOUS
  <1>1. CASE OptionsStep \/ UNCHANGED vars \/ ReloadRefused
    <2>1. UNCHANGED <<estate, epc, cur, config, db, conn, queue, inflight, closer>>
      BY <1>1 DEF OptionsStep, ReloadRefused, vars, entVars, coordVars, storeVars
    <2> QED BY <2>1, StoreStays
  <1>2. CASE SetupSteps
    <2>1. ASSUME NEW pending \in BOOLEAN, SetupEntry(pending) PROVE StoreSafe'
      BY <2>1, MakesStore
    <2>2. ASSUME NEW c \in Coords, Connected(c) \/ ConnectFails(c) PROVE StoreSafe'
      BY <2>2, ConnectEnds
    <2>3. ASSUME NEW c \in Coords, NEW fails \in BOOLEAN, SetupWorkDone(c, fails) PROVE StoreSafe'
      BY <2>3, SetupWorkEnds
    <2>4. CASE ShutDown("rollback")
      BY <2>4, ShutDownAsks
    <2>5. CASE SetupDone \/ PlatformsFail \/ RollbackPlatforms \/ RolledBack
      BY <2>5, SetupMovesOn
    <2>6. CASE CancelSetup
      BY <2>6, CancelKeepsOwner
    <2> QED BY ONLY <1>2, <2>1, <2>2, <2>3, <2>4, <2>5, <2>6 DEF SetupSteps
  <1>3. CASE UnloadSteps
    <2>1. CASE ShutDown("unloading")
      BY <2>1, ShutDownAsks
    <2>2. CASE \/ \E reload \in BOOLEAN : BeginUnload(reload)
               \/ \E ok \in BOOLEAN : RadioDrained(ok) \/ SettingsDrained(ok) \/ PlatformsUnloaded(ok)
               \/ Unloaded
      BY <2>2, UnloadMovesOn
    <2> QED BY ONLY <1>1, <1>3, <2>1, <2>2 DEF UnloadSteps
  <1>4. CASE JobSteps
    BY <1>4, AskSteps
  <1>5. ASSUME NEW c \in Coords, StoreStep(c) PROVE StoreSafe'
    BY <1>5, StoreSteps
  <1> QED BY ONLY [Next]_vars, <1>1, <1>2, <1>3, <1>4, <1>5 DEF Next

-----------------------------------------------------------------------------
(* What the coordinator runs with *)

\* A new run.
LEMMA ListenInit == Init => ListenInv /\ ConfigInv
  BY DEF Init, ListenInv, ConfigInv

\* A save is owed a reload, or remembered as missed.
LEMMA SavesAreOwed ==
    ASSUME ListenInv, ConfigInv, OptionsStep
    PROVE  ListenInv' /\ ConfigInv'
  <1>1. /\ Saved /\ UNCHANGED <<estate, cur, listener, config>>
    BY DEF OptionsStep
  <1>2. CASE UNCHANGED <<gws, general, maint>>
    <2>1. UNCHANGED <<reloads, missed>> /\ Options' = Options
      BY <1>1, <1>2 DEF Saved, Options
    <2> QED BY <1>1, <2>1 DEF ListenInv, ConfigInv
  <1>3. CASE ~UNCHANGED <<gws, general, maint>>
    <2>1. IF listener THEN reloads' = reloads + 1 ELSE missed' = TRUE /\ reloads' = reloads
      BY <1>1, <1>3 DEF Saved
    <2> QED BY <1>1, <2>1 DEF ListenInv, ConfigInv
  <1> QED BY <1>2, <1>3

\* Every step.
LEMMA ListenStep ==
    world \in Scenarios /\ StoreSafe /\ ListenInv /\ ConfigInv /\ [Next]_vars
      => ListenInv' /\ ConfigInv'
  <1> SUFFICES ASSUME world \in Scenarios, StoreSafe, ListenInv, ConfigInv, [Next]_vars
               PROVE  ListenInv' /\ ConfigInv'
    OBVIOUS
  <1>0. ASSUME UNCHANGED optVars PROVE Options' = Options
    BY <1>0 DEF Options, optVars, entryVars
  <1>1. ASSUME NEW pending \in BOOLEAN, SetupEntry(pending)
        PROVE  ListenInv' /\ ConfigInv'
    <2>1. /\ estate \in {"not_loaded", "setup_failed"} /\ estate' = "setup" /\ cur' = cur + 1
          /\ config' = [config EXCEPT ![cur + 1] = Options] /\ UNCHANGED listener
          /\ cur < world.setups /\ UNCHANGED optVars
      BY <1>1 DEF SetupEntry, Step
    <2>2. reloads' \in Nat
      BY <1>1 DEF SetupEntry, ListenInv
    <2>3. cur + 1 \in Coords
      BY <2>1 DEF StoreSafe, CurInv, Coords
    <2>4. config'[cur'] = Options'
      BY <1>0, <2>1, <2>3 DEF StoreSafe, StoreFuns
    <2> QED BY <2>1, <2>2, <2>4 DEF ListenInv, ConfigInv
  <1>2. CASE SetupDone
    BY <1>0, <1>2 DEF SetupDone, Step, ListenInv, ConfigInv, coordVars
  <1>3. CASE CancelSetup \/ PlatformsFail \/ RollbackPlatforms \/ RolledBack \/ ShutDown("rollback")
    BY <1>3 DEF CancelSetup, PlatformsFail, RollbackPlatforms, RolledBack, ShutDown, Rollback, Step,
       ListenInv, ConfigInv
  <1>4. CASE ShutDown("unloading") \/ Unloaded
    BY <1>4 DEF ShutDown, Unloaded, Step, ListenInv, ConfigInv
  <1>5. ASSUME NEW reload \in BOOLEAN, BeginUnload(reload)
        PROVE  ListenInv' /\ ConfigInv'
    BY <1>5 DEF BeginUnload, Step, ListenInv, ConfigInv
  <1>6. ASSUME NEW ok \in BOOLEAN, RadioDrained(ok) \/ SettingsDrained(ok) \/ PlatformsUnloaded(ok)
        PROVE  ListenInv' /\ ConfigInv'
    BY <1>6 DEF RadioDrained, SettingsDrained, PlatformsUnloaded, Step, ListenInv, ConfigInv
  <1>7. CASE ReloadRefused
    BY <1>7 DEF ReloadRefused, ListenInv, ConfigInv
  <1>8. ASSUME NEW c \in Coords, NEW fails \in BOOLEAN,
               Connected(c) \/ ConnectFails(c) \/ SetupWorkDone(c, fails)
        PROVE  ListenInv' /\ ConfigInv'
    <2>1. /\ UNCHANGED <<optVars, cur, listener, reloads, config, missed>>
          /\ \/ UNCHANGED estate
             \/ estate = "setup" /\ estate' \in {"setup", "rollback"}
      BY <1>8 DEF Connected, ConnectFails, SetupWorkDone, Rollback, Step, coordVars
    <2> QED BY <1>0, <2>1 DEF ListenInv, ConfigInv
  <1>9. ASSUME UNCHANGED <<optVars, estate, cur, listener, reloads, config, missed>>
        PROVE  ListenInv' /\ ConfigInv'
    BY <1>0, <1>9 DEF ListenInv, ConfigInv
  <1>10. CASE JobSteps \/ UNCHANGED vars
    BY ONLY <1>9, <1>10 DEF JobSteps, AskJob, vars, entVars, coordVars
  <1>11. ASSUME NEW c \in Coords, StoreStep(c)
         PROVE  ListenInv' /\ ConfigInv'
    BY ONLY <1>9, <1>11 DEF StoreStep, CloseLate, Detach, FinishClose, StartWork, FindNoConnection, CallerLeaves,
       WorkDone, entVars, coordVars
  <1>12. CASE SetupSteps
    BY ONLY <1>1, <1>2, <1>3, <1>8, <1>12 DEF SetupSteps
  <1>13. CASE UnloadSteps
    BY ONLY <1>4, <1>5, <1>6, <1>7, <1>13 DEF UnloadSteps
  <1> QED BY ONLY [Next]_vars, SavesAreOwed, ListenInv, ConfigInv, <1>10, <1>11, <1>12, <1>13 DEF Next

-----------------------------------------------------------------------------
(* Theorems *)

\* The scenario is one of those assumed.
LEMMA InScenario == Spec => [](world \in Scenarios)
  <1>1. OptInv => world \in Scenarios
    BY DEF OptInv, EntryInv
  <1> QED BY <1>1, ImplementsOptions, DialogInvariant, PTL

\* What holds of the stores and of the options at any time.
THEOREM EntryInvariant == Spec => [](StoreSafe /\ ListenInv /\ ConfigInv)
  BY InScenario, StoreInit, StoreStepInv, ListenInit, ListenStep, PTL DEF Spec

\* One thread at a time works on a connection, and never on a closed one.
THEOREM OneThreadAtATime == Spec => []OneThread
  <1>1. StoreSafe => OneThread
    <2> SUFFICES ASSUME StoreSafe, NEW c \in Coords
                 PROVE  /\ \A h, k \in inflight[c] : h = k
                        /\ inflight[c] # {} => db[c] = "open"
      BY DEF OneThread
    <2>1. /\ Lease(conn[c], queue[c], inflight[c])
          /\ Owner(db[c], conn[c], closer[c], c > cur, Now(c), epc)
      BY OneStore
    <2> QED BY <2>1 DEF Lease, Owner
  <1> QED BY <1>1, EntryInvariant, PTL

\* No connection stays open without an owner that will close it.
THEOREM NoConnectionIsLost == Spec => []NoStrayConnection
  <1>1. StoreSafe => NoStrayConnection
    <2> SUFFICES ASSUME StoreSafe, NEW c \in Coords, db[c] = "open", closer[c] = "none"
                 PROVE  c = cur /\ estate \notin {"not_loaded", "setup_failed"}
      BY DEF NoStrayConnection
    <2>1. Owner(db[c], conn[c], closer[c], c > cur, Now(c), epc)
      BY OneStore
    <2>2. Now(c) \in {"setup", "rollback", "loaded", "unloading", "failed_unload"}
      BY <2>1 DEF Owner
    <2> QED BY <2>2 DEF Now
  <1> QED BY <1>1, EntryInvariant, PTL

\* A loaded coordinator with no reload to come runs with what is saved.
THEOREM SavedOptionsRun == Spec => []RunsWhatIsSaved
  <1>1. ConfigInv => RunsWhatIsSaved
    BY DEF ConfigInv, RunsWhatIsSaved, Options
  <1> QED BY <1>1, EntryInvariant, PTL

=============================================================================
