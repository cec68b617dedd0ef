----------------------------- MODULE MovedTrees -----------------------------
(***************************************************************************)
(* Two MutablePolytree objects, each edited by its owner, and moves of one *)
(* into the other (include/graph/mutable_polytree.h, the defaulted move    *)
(* members).  A move takes the six members one by one: the containers of   *)
(* the source are left empty, its two counters keep their values.  Move    *)
(* construction is a move into an object that was just destroyed.  A self- *)
(* move, whose vectors the library leaves unspecified, is not modelled.    *)
(*                                                                         *)
(* The objects are alike and a program names one of them in each call: the *)
(* variables of MutablePolytree are the members of the one named, this,    *)
(* and other holds those of the other.  Turn is the program's next call    *)
(* naming the other one; it changes no object.                             *)
(*                                                                         *)
(* An identity domain is the history of one tree; MUTABLE.md lets a move   *)
(* transfer it.  Which object has which, what was issued in it and one     *)
(* snapshot are kept beside the members and read by no action of theirs.   *)
(***************************************************************************)
EXTENDS MutablePolytree

VARIABLES
    other,     \* the members of the other object
    domain,    \* the identity domain of each, NoDomain once moved from
    issued,    \* the identities handed out in each domain
    snapshot   \* domain, revision and content of a tree at some time

history == <<domain, issued, snapshot>>
movesVars == <<vars, other, history>>

Domain == {"first", "second"}
NoDomain == "none"

Members ==
    [slots |-> slots, slotById |-> slotById, freeSlots |-> freeSlots,
     roots |-> roots, nextId |-> nextId, revision |-> revision]

Other == INSTANCE MutablePolytree WITH
    slots <- other.slots, slotById <- other.slotById,
    freeSlots <- other.freeSlots, roots <- other.roots,
    nextId <- other.nextId, revision <- other.revision

(* What a reader of the tree sees: records by identity, and the roots.     *)
ContentOf(m) ==
    [records |-> [n \in DOMAIN m.slotById |-> m.slots[m.slotById[n]]],
     roots |-> m.roots]

MovesInit ==
    /\ Init
    /\ other = Members
    /\ domain = [this |-> "first", other |-> "second"]
    /\ issued = [d \in Domain |-> {}]
    /\ snapshot = [domain |-> NoDomain, revision |-> 0,
                   content |-> ContentOf(Members)]

(* Any call of the class.                                                  *)
Edit ==
    /\ Next
    /\ issued' = IF domain.this = NoDomain THEN issued
                 ELSE [issued EXCEPT ![domain.this] = @ \cup (Live' \ Live)]
    /\ UNCHANGED <<other, domain, snapshot>>

Turn ==
    /\ slots' = other.slots /\ slotById' = other.slotById
    /\ freeSlots' = other.freeSlots /\ roots' = other.roots
    /\ nextId' = other.nextId /\ revision' = other.revision
    /\ other' = Members
    /\ domain' = [this |-> domain.other, other |-> domain.this]
    /\ UNCHANGED <<call, reply, issued, snapshot>>

-----------------------------------------------------------------------------
(* this = std::move(other).  The three operators say which of the members  *)
(* follow the containers: m_next_id, m_revision, and the source's m_roots. *)

CounterKept(target, source) == target

MovedNextId(target, source) == source
MovedRevision(target, source) == source

RootsLeft(m) == m.roots

EmptiedRoots(m) == <<>>

TakeOther ==
    /\ slots' = other.slots /\ slotById' = other.slotById
    /\ freeSlots' = other.freeSlots /\ roots' = other.roots
    /\ nextId' = MovedNextId(nextId, other.nextId)
    /\ revision' = MovedRevision(revision, other.revision)
    /\ other' = [slots |-> <<>>, slotById |-> <<>>, freeSlots |-> <<>>,
                 roots |-> EmptiedRoots(other),
                 nextId |-> other.nextId, revision |-> other.revision]
    /\ domain' = [this |-> domain.other, other |-> NoDomain]
    /\ UNCHANGED <<call, reply, issued, snapshot>>

(* A freeze stores the revision of what it copies as source_revision.      *)
Snapshot ==
    /\ domain.this # NoDomain
    /\ snapshot' = [domain |-> domain.this, revision |-> revision,
                    content |-> ContentOf(Members)]
    /\ UNCHANGED <<vars, other, domain, issued>>

MovesNext ==
    \/ Edit
    \/ Turn
    \/ TakeOther
    \/ Snapshot

MovesSpec == MovesInit /\ [][MovesNext]_movesVars

-----------------------------------------------------------------------------
(* Properties *)

(* After any sequence of edits and moves both objects are well-typed       *)
(* ordered forests with a slot table that agrees, and no domain has two    *)
(* holders: an object moved from can be filled again, though its next      *)
(* identity and revision are those it gave away.                           *)
BothTreesSound ==
    /\ TypeOK /\ Other!TypeOK
    /\ domain.this = domain.other => domain.this = NoDomain
    /\ SlotTableOK /\ NextIdFresh /\ ForestOK /\ Acyclic
    /\ Other!SlotTableOK /\ Other!NextIdFresh
    /\ Other!ForestOK /\ Other!Acyclic

(* MUTABLE.md: a move transfers the identity domain.  A snapshot is told   *)
(* current by its revision alone: whichever object holds the domain now,   *)
(* its revision equals the snapshot's only if its content does.            *)
IsCurrent(holder, m) ==
    domain[holder] = snapshot.domain /\ m.revision = snapshot.revision
SnapshotFollowsDomain ==
    /\ IsCurrent("this", Members) => ContentOf(Members) = snapshot.content
    /\ IsCurrent("other", other) => ContentOf(other) = snapshot.content

(* No identity is handed out twice in a domain, whatever objects held it:  *)
(* the issued identities of an object's domain are below its next one.     *)
DomainNeverReissues ==
    /\ domain.this # NoDomain =>
          \A n \in issued[domain.this] : n < nextId
    /\ domain.other # NoDomain =>
          \A n \in issued[domain.other] : n < other.nextId

=============================================================================
