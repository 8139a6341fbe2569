---------------------------- MODULE NodeIdentity ----------------------------
(***************************************************************************)
(* node_identity.py: which cached node records are one mesh node.          *)
(*                                                                         *)
(* A record is kept under the key its observation was given: the routing   *)
(* id alone ("meshtastic"), the id bound to every proof the observation    *)
(* carried ("meshtastic-proof", a digest of them, which a record [id, mac, *)
(* pub] stands for), or the key of an older release ("mac", "pub").  The   *)
(* projection folds the records of one routing id into one effective node  *)
(* when no two of their proofs disagree, and leaves every other record     *)
(* alone.  Nothing here changes a record.                                  *)
(*                                                                         *)
(* A value a record does not carry is Absent; one the parser refuses is    *)
(* Bad.  Of a record's state the model keeps when it was last heard (0 for *)
(* never) and whether it is online; the other fields are chosen from the   *)
(* members of a group the same way.                                        *)
(***************************************************************************)
EXTENDS Integers, FiniteSets

CONSTANTS
    Keys,        \* the record keys, as [kind, id, mac, pub]
    Order,       \* the place of each key in the order of their text
    Absent,      \* no value
    Bad          \* a malformed value

\* No two keys have the same text.
ASSUME OrderAssumption ==
    /\ Order \in [Keys -> Nat]
    /\ \A j, k \in Keys : Order[j] = Order[k] => j = k

Protocols == {"meshtastic", "meshcore"}

Before(j, k) == Order[j] < Order[k]

\* The key a new Meshtastic observation is cached under.
ObservationKey(id, mac, pub) ==
    [kind |-> IF mac # Absent \/ pub # Absent THEN "meshtastic-proof" ELSE "meshtastic",
     id |-> id, mac |-> mac, pub |-> pub]

-----------------------------------------------------------------------------
(* The evidence of one record *)

KeyId(k)  == IF k.kind = "meshtastic" THEN k.id ELSE Absent
KeyMac(k) == IF k.kind = "mac" THEN k.mac ELSE Absent
KeyPub(k) == IF k.kind = "pub" THEN k.pub ELSE Absent

Either(a, b) == IF a # Absent THEN a ELSE b

NodeId(k, n) == Either(n.id, KeyId(k))
Mac(k, n)    == Either(n.mac, KeyMac(k))
Pub(k, n)    == Either(n.pub, KeyPub(k))

Agree(a, b) == Absent \in {a, b} \/ a = b

\* The record is a Meshtastic one whose key and proofs are consistent.
Valid(k, n) ==
    /\ n.proto = "meshtastic"
    /\ k.kind \in {"meshtastic", "mac", "pub", "meshtastic-proof"}
    /\ Bad \notin {n.id, n.mac, n.pub, KeyId(k), KeyMac(k), KeyPub(k)}
    /\ Agree(n.id, KeyId(k)) /\ Agree(n.mac, KeyMac(k)) /\ Agree(n.pub, KeyPub(k))
    /\ NodeId(k, n) # Absent
    /\ k.kind = "meshtastic-proof" => ObservationKey(NodeId(k, n), n.mac, n.pub) = k

-----------------------------------------------------------------------------
(* The groups of records that claim one routing id *)

ValidKeys(nodes) == {k \in DOMAIN nodes : Valid(k, nodes[k])}

Group(nodes, id) == {k \in ValidKeys(nodes) : NodeId(k, nodes[k]) = id}

Macs(nodes, S) == {Mac(k, nodes[k]) : k \in S} \ {Absent}
Pubs(nodes, S) == {Pub(k, nodes[k]) : k \in S} \ {Absent}

\* Two proofs of one kind differ, or a MAC and a public key were never
\* observed together.
Unmergeable(nodes, S) ==
    \/ Cardinality(Macs(nodes, S)) > 1
    \/ Cardinality(Pubs(nodes, S)) > 1
    \/ /\ Macs(nodes, S) # {} /\ Pubs(nodes, S) # {}
       /\ \A k \in S : Mac(k, nodes[k]) = Absent \/ Pub(k, nodes[k]) = Absent

\* Another record gives the same MAC or public key to another routing id.
ProofIsShared(nodes, k) ==
    \E j \in ValidKeys(nodes) :
        /\ NodeId(j, nodes[j]) # NodeId(k, nodes[k])
        /\ \/ Mac(k, nodes[k]) # Absent /\ Mac(j, nodes[j]) = Mac(k, nodes[k])
           \/ Pub(k, nodes[k]) # Absent /\ Pub(j, nodes[j]) = Pub(k, nodes[k])

UnsafeKeys(nodes) ==
    {k \in DOMAIN nodes :
        /\ nodes[k].proto = "meshtastic"
        /\ \/ ~Valid(k, nodes[k])
           \/ Unmergeable(nodes, Group(nodes, NodeId(k, nodes[k])))
           \/ ProofIsShared(nodes, k)}

-----------------------------------------------------------------------------
(* One group *)

\* The single value of a set that has one at most.
Only(S) == IF S = {} THEN Absent ELSE CHOOSE x \in S : TRUE

HasAllProofs(nodes, S, k) ==
    /\ Mac(k, nodes[k]) = Only(Macs(nodes, S))
    /\ Pub(k, nodes[k]) = Only(Pubs(nodes, S))

Rank(nodes, S, k) ==
    CASE k.kind = "meshtastic" -> 0
      [] k.kind = "mac" /\ HasAllProofs(nodes, S, k) -> 2
      [] k.kind = "pub" /\ HasAllProofs(nodes, S, k) -> 3
      [] k.kind = "meshtastic-proof" /\ HasAllProofs(nodes, S, k) -> 4
      [] OTHER -> 5

Representative(nodes, S) ==
    CHOOSE k \in S : \A j \in S \ {k} :
        \/ Rank(nodes, S, k) < Rank(nodes, S, j)
        \/ Rank(nodes, S, k) = Rank(nodes, S, j) /\ Before(k, j)

Freshest(nodes, S) ==
    CHOOSE k \in S : \A j \in S \ {k} :
        \/ nodes[k].heard > nodes[j].heard
        \/ nodes[k].heard = nodes[j].heard /\ Before(k, j)

\* What a group looks like from outside: every proof its members carry and
\* the whole state of the member heard last.
Merged(nodes, S) ==
    [nodes[Freshest(nodes, S)] EXCEPT
        !.id = NodeId(Representative(nodes, S), nodes[Representative(nodes, S)]),
        !.mac = Only(Macs(nodes, S)),
        !.pub = Only(Pubs(nodes, S))]

\* The records of k's routing id are folded into one.
Folds(nodes, k) ==
    LET S == Group(nodes, NodeId(k, nodes[k])) IN
    /\ k \in ValidKeys(nodes)
    /\ Cardinality(S) > 1
    /\ S \cap UnsafeKeys(nodes) = {}
    /\ Valid(Representative(nodes, S), Merged(nodes, S))

\* Where each record went.
Redirects(nodes) ==
    [k \in DOMAIN nodes |->
        IF Folds(nodes, k)
        THEN Representative(nodes, Group(nodes, NodeId(k, nodes[k])))
        ELSE k]

\* The distinct nodes.
Effective(nodes) ==
    LET to == Redirects(nodes) IN
    [e \in {to[k] : k \in DOMAIN nodes} |->
        IF Folds(nodes, e)
        THEN Merged(nodes, Group(nodes, NodeId(e, nodes[e])))
        ELSE nodes[e]]
=============================================================================
