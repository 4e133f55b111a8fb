---------------------------- MODULE RepairProofs ----------------------------
(***************************************************************************)
(* What Repair keeps, for every value of the constants.                    *)
(***************************************************************************)
EXTENDS RepairProps, FiniteSetTheorems, WellFoundedInduction, TLAPS

\* A set of numbers has a least one.
LEMMA LeastNumber ==
    ASSUME NEW T \in SUBSET Nat, T # {}
    PROVE  Min(T) \in T /\ \A y \in T : Min(T) <= y
<1>1. IsWellFoundedOn(OpToRel(<, Nat), Nat)
  BY NatLessThanWellFounded
<1>2. PICK x \in T : \A y \in T : <<y, x>> \notin OpToRel(<, Nat)
  BY <1>1, WFMin, Zenon
<1>3. \A y \in T : x <= y
  <2> TAKE y \in T
  <2>1. ~(y < x)
    BY <1>2 DEF OpToRel
  <2> QED  BY <2>1
<1> QED  BY <1>3 DEF Min

-----------------------------------------------------------------------------
(* The records.                                                            *)

\* What saving a record does to its fields.
LEMMA SavedFields ==
    ASSUME NEW m \in State
    PROVE  /\ Saved(m) \in State
           /\ Saved(m).map = m.map /\ Saved(m).marked = m.marked /\ Saved(m).counted = m.counted
           /\ Saved(m).sent = m.sent /\ Saved(m).failed = m.failed /\ Saved(m).rewrite = m.rewrite
           /\ Saved(m).next = m.next \ m.done /\ Saved(m).done = {}
BY DEF Saved, State

\* What a delivery that succeeded or failed does to them.
LEMMA DeliveredFields ==
    ASSUME NEW m \in State, NEW r \in Refs
    PROVE  /\ Delivered(m, r) \in State
           /\ Delivered(m, r).map = m.map /\ Delivered(m, r).marked = m.marked
           /\ Delivered(m, r).failed = m.failed /\ Delivered(m, r).rewrite = m.rewrite
           /\ Delivered(m, r).next = m.next /\ Delivered(m, r).done = m.done \union {r}
           /\ Delivered(m, r).sent = {q \in m.sent : q.src # r.src} \union {r}
           /\ Delivered(m, r).counted = m.counted \union ({r.src[1]} \intersect Channel)
BY DEF Delivered, State

LEMMA HealedFields ==
    ASSUME NEW m \in State, NEW r \in Refs
    PROVE  /\ Healed(m, r) \in State
           /\ Healed(m, r).map = m.map /\ Healed(m, r).marked = m.marked
           /\ Healed(m, r).failed = {q \in m.failed : Logical(q) # Logical(r)}
           /\ Healed(m, r).rewrite = m.rewrite
           /\ Healed(m, r).next = m.next /\ Healed(m, r).done = m.done \union {r}
           /\ Healed(m, r).sent = {q \in m.sent : q.src # r.src} \union {r}
           /\ Healed(m, r).counted = m.counted \union ({r.src[1]} \intersect Channel)
<1> DEFINE d == Delivered(m, r)
<1>1. d \in State /\ d.failed = m.failed
  BY DeliveredFields
<1> HIDE DEF d
<1>2. Healed(m, r) = [d EXCEPT !.failed = {q \in @ : Logical(q) # Logical(r)}]
  BY DEF Healed, d
<1>3. /\ Healed(m, r) \in State
      /\ Healed(m, r).map = d.map /\ Healed(m, r).marked = d.marked
      /\ Healed(m, r).failed = {q \in d.failed : Logical(q) # Logical(r)}
      /\ Healed(m, r).rewrite = d.rewrite /\ Healed(m, r).counted = d.counted
      /\ Healed(m, r).next = d.next /\ Healed(m, r).done = d.done /\ Healed(m, r).sent = d.sent
  BY <1>1, <1>2 DEF State
<1> QED  BY <1>1, <1>3, DeliveredFields DEF d

LEMMA NotDeliveredFields ==
    ASSUME NEW m \in State, NEW r \in Refs
    PROVE  /\ NotDelivered(m, r) \in State
           /\ NotDelivered(m, r).map = m.map /\ NotDelivered(m, r).marked = m.marked
           /\ NotDelivered(m, r).failed = IF r.src[1] \in Channel THEN m.failed \union {r} ELSE m.failed
           /\ NotDelivered(m, r).rewrite = m.rewrite /\ NotDelivered(m, r).counted = m.counted
           /\ NotDelivered(m, r).next = m.next /\ NotDelivered(m, r).done = m.done
           /\ NotDelivered(m, r).sent = m.sent
BY DEF NotDelivered, State

\* What a new copy of a channel takes from the old one.
LEMMA ClearedFields ==
    ASSUME NEW m \in State, NEW c \in Channel, NEW n \in Nat
    PROVE  /\ ClearChannelState(m, c, n) \in State
           /\ ClearChannelState(m, c, n).map = m.map
           /\ ClearChannelState(m, c, n).marked = m.marked \ {c}
           /\ ClearChannelState(m, c, n).counted = m.counted \ {c}
           /\ ClearChannelState(m, c, n).sent = {r \in m.sent : r.src[1] # c}
           /\ ClearChannelState(m, c, n).failed =
                {IF r.src[1] = c /\ r.copy = m.map[c] THEN Ref(r.src, n, 0) ELSE r : r \in m.failed}
           /\ ClearChannelState(m, c, n).rewrite = m.rewrite
           /\ ClearChannelState(m, c, n).next = m.next /\ ClearChannelState(m, c, n).done = m.done
<1>1. {IF r.src[1] = c /\ r.copy = m.map[c] THEN Ref(r.src, n, 0) ELSE r : r \in m.failed} \subseteq Refs
  BY DEF State, Refs, Ref
<1> QED  BY <1>1 DEF ClearChannelState, State

\* A new id: the copy is mapped, a channel starts anew, an emoji is to be rewritten.
LEMMA WithNewIdFields ==
    ASSUME mem \in State, job \in Jobs, Kind \in Creating, NEW x \in Item, Thing = x, NEW n \in Nat
    PROVE  LET m == WithNewId(x, n)
           IN  /\ m \in State
               /\ m.map = [mem.map EXCEPT ![x] = n]
               /\ m.next = mem.next /\ m.done = mem.done
               /\ m.rewrite = IF Kind = "emoji" THEN mem.rewrite \union {x} ELSE mem.rewrite
               /\ Kind # "channel" => m.sent = mem.sent /\ m.failed = mem.failed /\ m.marked = mem.marked
                                      /\ m.counted = mem.counted
               /\ Kind = "channel" =>
                    /\ m.sent = {r \in mem.sent : r.src[1] # x} /\ m.marked = mem.marked \ {x}
                    /\ m.counted = mem.counted \ {x}
                    /\ m.failed = {IF r.src[1] = x /\ r.copy = mem.map[x] THEN Ref(r.src, n, 0) ELSE r
                                     : r \in mem.failed}
<1> DEFINE b == IF Kind = "channel" THEN ClearChannelState(mem, x, n) ELSE mem
           m == WithNewId(x, n)
<1>0. /\ Kind = "channel" => x \in Channel
      /\ Kind = "emoji" => x \in Emoji
  BY DEF Jobs, Kind, Thing
<1>1. /\ b \in State /\ b.map = mem.map /\ b.next = mem.next /\ b.done = mem.done /\ b.rewrite = mem.rewrite
  BY <1>0, ClearedFields
<1>2. /\ Kind # "channel" => b = mem
      /\ Kind = "channel" => b = ClearChannelState(mem, x, n)
  OBVIOUS
<1>3. m = [b EXCEPT !.map[x] = n, !.rewrite = IF Kind = "emoji" THEN @ \union {x} ELSE @]
  BY DEF WithNewId
<1> HIDE DEF b, m
<1>4. /\ m \in State /\ m.map = [b.map EXCEPT ![x] = n] /\ m.next = b.next /\ m.done = b.done
      /\ m.rewrite = (IF Kind = "emoji" THEN b.rewrite \union {x} ELSE b.rewrite)
      /\ m.sent = b.sent /\ m.failed = b.failed /\ m.marked = b.marked /\ m.counted = b.counted
  BY <1>0, <1>1, <1>3 DEF State
<1>5. Kind = "channel" => /\ b.sent = {r \in mem.sent : r.src[1] # x} /\ b.marked = mem.marked \ {x}
                          /\ b.counted = mem.counted \ {x}
                          /\ b.failed = {IF r.src[1] = x /\ r.copy = mem.map[x] THEN Ref(r.src, n, 0) ELSE r
                                           : r \in mem.failed}
  BY <1>0, <1>2, ClearedFields
<1> QED  BY <1>1, <1>2, <1>4, <1>5 DEF m

-----------------------------------------------------------------------------
(* What posts, receipts and a record say of each other.                    *)

Post == [ref : Refs, emo : Nat]
Rcpt == [ref : Refs, st : Statuses, emo : Nat]

LEMMA SameLogical ==
    ASSUME NEW r \in Refs, NEW q \in Refs
    PROVE  /\ Logical(r) = Logical(q) <=> r.src = q.src /\ r.copy = q.copy
           /\ r.src \in Source /\ r.copy \in Nat /\ r.gen \in Nat
BY DEF Logical, Refs

\* Posts that go, or are edited, take nothing away that matters.
LEMMA FewerPosts ==
    ASSUME NEW P \in SUBSET Post, NEW Q \in SUBSET Post, NEW R \in SUBSET Rcpt, NEW m \in State,
           Deliveries(P, R, m),
           \A q \in Q : \E p \in P : p.ref = q.ref,
           \A p, q \in Q : Logical(p.ref) = Logical(q.ref) => p = q
    PROVE  Deliveries(Q, R, m)
<1>1. CopyBounds(Q, R, m)
  BY DEF Deliveries, CopyBounds
<1>2. OneEach(Q, R, m)
  BY DEF Deliveries, OneEach
<1>3. Backed(Q, R, m)
  BY DEF Deliveries, Backed, Receipted
<1> QED  BY <1>1, <1>2, <1>3 DEF Deliveries

\* Only four fields of a record matter.
LEMMA SameRecord ==
    ASSUME NEW P, NEW R, NEW m, NEW n, Deliveries(P, R, m),
           n.map = m.map, n.sent = m.sent, n.next = m.next, n.done = m.done
    PROVE  Deliveries(P, R, n)
<1>1. CopyBounds(P, R, n)
  BY DEF Deliveries, CopyBounds
<1>2. OneEach(P, R, n)
  BY DEF Deliveries, OneEach
<1>3. Backed(P, R, n) /\ Owed(R, n)
  BY DEF Deliveries, Backed, Owed, Mapped
<1> QED  BY <1>1, <1>2, <1>3 DEF Deliveries, Mapped

\* A save retires the receipts of what was recorded.
LEMMA SaveDeliveries ==
    ASSUME NEW P \in SUBSET Post, NEW R \in SUBSET Rcpt, NEW m \in State, Deliveries(P, R, m)
    PROVE  Deliveries(P, {q \in R : q.ref \notin m.done}, Saved(m))
<1> DEFINE n == Saved(m)
           S == {q \in R : q.ref \notin m.done}
<1>1. n.map = m.map /\ n.sent = m.sent /\ n.next = m.next \ m.done /\ n.done = {}
  BY SavedFields
<1> HIDE DEF n
<1>2. CopyBounds(P, S, n)
  BY <1>1 DEF Deliveries, CopyBounds
<1>3. OneEach(P, S, n)
  BY <1>1 DEF Deliveries, OneEach
<1>4. Backed(P, S, n)
  <2> SUFFICES ASSUME NEW p \in P, Mapped(p.ref, n)
               PROVE  Receipted(p, S) \/ p.ref \in n.sent \ n.next
    BY DEF Backed
  <2>1. Receipted(p, R) \/ p.ref \in m.sent \ m.next
    BY <1>1 DEF Deliveries, Backed, Mapped
  <2>2. CASE p.ref \in m.done
    BY <1>1, <2>2 DEF Deliveries
  <2>3. CASE p.ref \notin m.done
    BY <1>1, <2>1, <2>3 DEF Receipted
  <2> QED  BY <2>2, <2>3
<1>5. Owed(S, n)
  BY <1>1 DEF Deliveries, Owed, Mapped
<1> QED  BY <1>1, <1>2, <1>3, <1>4, <1>5 DEF Deliveries, n

\* A new copy of a thing: no post and no receipt is in it yet.
LEMMA MapDeliveries ==
    ASSUME NEW P \in SUBSET Post, NEW R \in SUBSET Rcpt, NEW m \in State, NEW n \in State,
           Deliveries(P, R, m), m.done = {},
           NEW x \in Item, NEW k \in Nat, m.map[x] < k,
           n.map = [m.map EXCEPT ![x] = k], n.next = m.next, n.done = {},
           n.sent = m.sent \/ n.sent = {r \in m.sent : r.src[1] # x}
    PROVE  Deliveries(P, R, n)
<1>1. /\ n.map[x] = k /\ \A y \in Item : y # x => n.map[y] = m.map[y]
      /\ \A y \in Item : m.map[y] \in Nat /\ n.map[y] \in Nat
  BY DEF State
<1>2. \A r \in Refs : r.src[1] \in Item /\ r.copy \in Nat
  BY DEF Refs, Source, Text, Item
<1>3. /\ \A p \in P : p.ref \in Refs
      /\ \A q \in R : q.ref \in Refs
      /\ m.next \subseteq Refs
  BY DEF Post, Rcpt, State
<1>4. CopyBounds(P, R, n)
  <2>1. \A z \in P \union R : z.ref.copy <= n.map[z.ref.src[1]]
    <3> TAKE z \in P \union R
    <3>1. z.ref \in Refs /\ z.ref.copy <= m.map[z.ref.src[1]]
      BY <1>3 DEF Deliveries, CopyBounds
    <3>2. m.map[z.ref.src[1]] <= n.map[z.ref.src[1]]
      BY <1>1, <1>2, <3>1
    <3> QED  BY <1>1, <1>2, <3>1, <3>2
  <2>2. \A r \in n.next : r.copy <= n.map[r.src[1]]
    <3> TAKE r \in n.next
    <3>1. r \in Refs /\ r.copy <= m.map[r.src[1]]
      BY <1>3 DEF Deliveries, CopyBounds
    <3>2. m.map[r.src[1]] <= n.map[r.src[1]]
      BY <1>1, <1>2, <3>1
    <3> QED  BY <1>1, <1>2, <3>1, <3>2
  <2> QED  BY <2>1, <2>2 DEF CopyBounds
<1>5. OneEach(P, R, n)
  BY DEF Deliveries, OneEach
<1>6. \A z \in P \union R : Mapped(z.ref, n) => z.ref.src[1] # x /\ Mapped(z.ref, m)
  <2> SUFFICES ASSUME NEW z \in P \union R, Mapped(z.ref, n)
               PROVE  z.ref.src[1] # x /\ Mapped(z.ref, m)
    OBVIOUS
  <2>1. z.ref \in Refs /\ z.ref.copy <= m.map[z.ref.src[1]] /\ z.ref.copy = n.map[z.ref.src[1]]
    BY <1>3 DEF Deliveries, CopyBounds, Mapped
  <2>2. z.ref.src[1] # x
    BY <1>1, <2>1
  <2> QED  BY <1>1, <1>2, <2>1, <2>2 DEF Mapped
<1>7. Backed(P, R, n)
  <2> SUFFICES ASSUME NEW p \in P, Mapped(p.ref, n)
               PROVE  Receipted(p, R) \/ p.ref \in n.sent \ n.next
    BY DEF Backed
  <2>1. p.ref.src[1] # x /\ (Receipted(p, R) \/ p.ref \in m.sent \ m.next)
    BY <1>6 DEF Deliveries, Backed
  <2> QED  BY <2>1
<1>8. Owed(R, n)
  BY <1>6 DEF Deliveries, Owed
<1> QED  BY <1>4, <1>5, <1>7, <1>8 DEF Deliveries

\* An index's message is forgotten, its posts being of a replacement.
LEMMA ForgetDeliveries ==
    ASSUME NEW P \in SUBSET Post, NEW R \in SUBSET Rcpt, NEW m, NEW n,
           Deliveries(P, R, m), m.done = {}, NEW s,
           n.map = m.map, n.next = m.next, n.done = {}, n.sent = {r \in m.sent : r.src # s},
           \A p \in P : p.ref.src = s /\ Mapped(p.ref, m) => p.ref \in m.next
    PROVE  Deliveries(P, R, n)
<1>1. CopyBounds(P, R, n)
  BY DEF Deliveries, CopyBounds
<1>2. OneEach(P, R, n)
  BY DEF Deliveries, OneEach
<1>3. Backed(P, R, n)
  <2> SUFFICES ASSUME NEW p \in P, Mapped(p.ref, n)
               PROVE  Receipted(p, R) \/ p.ref \in n.sent \ n.next
    BY DEF Backed
  <2>1. Mapped(p.ref, m) /\ (Receipted(p, R) \/ p.ref \in m.sent \ m.next)
    BY DEF Deliveries, Backed, Mapped
  <2> QED  BY <2>1
<1>4. Owed(R, n)
  BY DEF Deliveries, Owed, Mapped
<1> QED  BY <1>1, <1>2, <1>3, <1>4 DEF Deliveries

\* A replacement begins where nothing stands.
LEMMA BeginDeliveries ==
    ASSUME NEW P \in SUBSET Post, NEW R \in SUBSET Rcpt, NEW m \in State, NEW n,
           Deliveries(P, R, m), NEW r \in Refs, Mapped(r, m),
           \A x \in P \union R \union {[ref |-> q] : q \in m.next} : Logical(x.ref) # Logical(r),
           n.map = m.map, n.next = m.next \union {r}, n.done = m.done, n.sent = m.sent
    PROVE  Deliveries(P, R, n)
<1>0. /\ \A x \in P \union R : Logical(x.ref) # Logical(r)
      /\ \A q \in m.next : Logical(q) # Logical(r)
  <2>1. \A q \in m.next : [ref |-> q] \in {[ref |-> z] : z \in m.next} /\ [ref |-> q].ref = q
    OBVIOUS
  <2> QED  BY <2>1
<1>1. CopyBounds(P, R, n)
  <2>1. r.copy <= m.map[r.src[1]]
    <3>1. r.copy \in Nat /\ r.copy = m.map[r.src[1]]
      BY DEF Refs, Mapped
    <3> QED  BY <3>1
  <2> QED  BY <2>1 DEF Deliveries, CopyBounds
<1>2. OneEach(P, R, n)
  BY <1>0 DEF Deliveries, OneEach
<1>3. Backed(P, R, n)
  <2> SUFFICES ASSUME NEW p \in P, Mapped(p.ref, n)
               PROVE  Receipted(p, R) \/ p.ref \in n.sent \ n.next
    BY DEF Backed
  <2>1. Receipted(p, R) \/ p.ref \in m.sent \ m.next
    BY DEF Deliveries, Backed, Mapped
  <2>2. p.ref # r
    BY <1>0
  <2> QED  BY <2>1, <2>2
<1>4. Owed(R, n)
  BY DEF Deliveries, Owed, Mapped
<1> QED  BY <1>1, <1>2, <1>3, <1>4 DEF Deliveries, Mapped

\* What an attempt at delivery r does: only a post and the receipt of r change; a new
\* post comes where none was, with a receipt that tells of it, and no receipt forgets one.
Attempt(P, R, Q, S, r) ==
    /\ P \subseteq Q /\ \A q \in Q \ P : q.ref = r
    /\ Q # P => (\A p \in P : Logical(p.ref) # Logical(r)) /\ \A p, q \in Q \ P : p = q
    /\ Q # P => \E q \in S : q.ref = r /\ q.st # "rejected"
    /\ \A q \in R : q.ref # r => q \in S
    /\ \A q \in S : q.ref # r => q \in R
    /\ \A p, q \in S : p.ref = r /\ q.ref = r => p = q
    /\ (\E q \in R : q.ref = r /\ q.st # "rejected") => \E q \in S : q.ref = r /\ q.st # "rejected"

\* May r be attempted: it is what stands at its message in its copy, begun or with a receipt.
Attempted(R, m, r) ==
    /\ Mapped(r, m)
    /\ \A q \in R : Logical(q.ref) = Logical(r) => q.ref = r
    /\ r \in m.next \/ (r.src[1] \in Channel /\ \A q \in m.sent : q.src # r.src)
    /\ \A q \in m.next : Logical(q) = Logical(r) => q = r

LEMMA AttemptDeliveries ==
    ASSUME NEW P \in SUBSET Post, NEW R \in SUBSET Rcpt, NEW Q \in SUBSET Post, NEW S \in SUBSET Rcpt,
           NEW m \in State, Deliveries(P, R, m), NEW r \in Refs, Attempt(P, R, Q, S, r), Attempted(R, m, r)
    PROVE  Deliveries(Q, S, m)
<1>0. /\ \A x \in P \union Q \union R \union S : x.ref \in Refs
      /\ m.next \subseteq Refs /\ m.sent \subseteq Refs
      /\ \A x \in Q \union S : x.ref = r \/ x \in P \union R
      /\ \A x \in Q : x.ref = r \/ x \in P
      /\ \A x \in S : x.ref = r \/ x \in R
  BY DEF Post, Rcpt, State, Attempt
<1>1. CopyBounds(Q, S, m)
  <2>1. r.copy <= m.map[r.src[1]]
    <3>1. r.copy \in Nat /\ r.copy = m.map[r.src[1]]
      BY DEF Refs, Mapped, Attempted
    <3> QED  BY <3>1
  <2> QED  BY <1>0, <2>1 DEF Deliveries, CopyBounds
<1>2. OneEach(Q, S, m)
  <2>1. \A p, q \in Q : Logical(p.ref) = Logical(q.ref) => p = q
    <3> SUFFICES ASSUME NEW p \in Q, NEW q \in Q, Logical(p.ref) = Logical(q.ref)
                 PROVE  p = q
      OBVIOUS
    <3>1. CASE p \in P /\ q \in P
      BY <3>1 DEF Deliveries, OneEach
    <3>2. CASE p \in P /\ q \notin P
      BY <3>2 DEF Attempt
    <3>3. CASE p \notin P /\ q \in P
      BY <3>3 DEF Attempt
    <3>4. CASE p \notin P /\ q \notin P
      BY <3>4 DEF Attempt
    <3> QED  BY <3>1, <3>2, <3>3, <3>4
  <2>2. \A p, q \in S : Logical(p.ref) = Logical(q.ref) => p = q
    <3> SUFFICES ASSUME NEW p \in S, NEW q \in S, Logical(p.ref) = Logical(q.ref)
                 PROVE  p = q
      OBVIOUS
    <3>1. CASE p.ref = r /\ q.ref = r
      BY <3>1 DEF Attempt
    <3>2. CASE p.ref # r /\ q.ref # r
      BY <3>2 DEF Deliveries, OneEach, Attempt
    <3>3. CASE p.ref = r /\ q.ref # r
      BY <1>0, <3>3 DEF Attempted
    <3>4. CASE p.ref # r /\ q.ref = r
      BY <1>0, <3>4 DEF Attempted
    <3> QED  BY <3>1, <3>2, <3>3, <3>4
  <2>3. \A x \in Q \union S : \A q \in m.next : Logical(x.ref) = Logical(q) => x.ref = q
    BY <1>0 DEF Deliveries, OneEach, Attempted
  <2> QED  BY <2>1, <2>2, <2>3 DEF Deliveries, OneEach
<1>3. Backed(Q, S, m)
  <2> SUFFICES ASSUME NEW p \in Q, Mapped(p.ref, m)
               PROVE  Receipted(p, S) \/ p.ref \in m.sent \ m.next
    BY DEF Backed
  <2>1. CASE p \in P
    <3>1. Receipted(p, R) \/ p.ref \in m.sent \ m.next
      BY <2>1 DEF Deliveries, Backed
    <3>2. ASSUME NEW q \in R, q.ref = p.ref, q.st # "rejected"
          PROVE  Receipted(p, S)
      <4>1. CASE q.ref = r
        BY <3>2, <4>1 DEF Attempt, Receipted
      <4>2. CASE q.ref # r
        BY <3>2, <4>2 DEF Attempt, Receipted
      <4> QED  BY <4>1, <4>2
    <3> QED  BY <3>1, <3>2 DEF Receipted
  <2>2. CASE p \notin P
    BY <2>2 DEF Attempt, Receipted
  <2> QED  BY <2>1, <2>2
<1>4. Owed(S, m)
  <2> SUFFICES ASSUME NEW q \in S, Mapped(q.ref, m)
               PROVE  \/ q.ref \in m.next \union m.done
                      \/ q.ref.src[1] \in Channel /\ \A z \in m.sent : z.src # q.ref.src
    BY DEF Owed
  <2>1. CASE q.ref = r
    BY <2>1 DEF Attempted
  <2>2. CASE q.ref # r
    BY <1>0, <2>2 DEF Deliveries, Owed
  <2> QED  BY <2>1, <2>2
<1> QED  BY <1>1, <1>2, <1>3, <1>4 DEF Deliveries

\* A delivery that was confirmed is recorded.
LEMMA RecordDeliveries ==
    ASSUME NEW P \in SUBSET Post, NEW R \in SUBSET Rcpt, NEW m \in State, NEW n \in State,
           Deliveries(P, R, m), NEW r \in Refs, Attempted(R, m, r),
           \E q \in R : q.ref = r /\ q.st # "rejected",
           \A q \in m.done : q.src # r.src,
           \A p \in P : Logical(p.ref) = Logical(r) => p.ref = r,
           n.map = m.map, n.next = m.next, n.done = m.done \union {r},
           n.sent = {q \in m.sent : q.src # r.src} \union {r}
    PROVE  Deliveries(P, R, n)
<1>0. /\ \A x \in P \union R : x.ref \in Refs
      /\ m.next \subseteq Refs /\ m.sent \subseteq Refs
  BY DEF Post, Rcpt, State
<1>1. CopyBounds(P, R, n)
  BY DEF Deliveries, CopyBounds
<1>2. OneEach(P, R, n)
  BY DEF Deliveries, OneEach
<1>3. Backed(P, R, n)
  <2> SUFFICES ASSUME NEW p \in P, Mapped(p.ref, n)
               PROVE  Receipted(p, R) \/ p.ref \in n.sent \ n.next
    BY DEF Backed
  <2>1. Mapped(p.ref, m) /\ (Receipted(p, R) \/ p.ref \in m.sent \ m.next)
    BY DEF Deliveries, Backed, Mapped
  <2>2. CASE p.ref.src # r.src
    BY <2>1, <2>2
  <2>3. CASE p.ref.src = r.src
    <3>1. Logical(p.ref) = Logical(r)
      BY <2>1, <2>3 DEF Mapped, Attempted, Logical
    <3>2. p.ref = r
      BY <3>1
    <3> QED  BY <3>2 DEF Receipted
  <2> QED  BY <2>2, <2>3
<1>4. Owed(R, n)
  <2> SUFFICES ASSUME NEW q \in R, Mapped(q.ref, n)
               PROVE  \/ q.ref \in n.next \union n.done
                      \/ q.ref.src[1] \in Channel /\ \A z \in n.sent : z.src # q.ref.src
    BY DEF Owed
  <2>1. Mapped(q.ref, m)
    BY DEF Mapped
  <2>2. CASE q.ref.src # r.src
    BY <2>1, <2>2 DEF Deliveries, Owed
  <2>3. CASE q.ref.src = r.src
    <3>1. Logical(q.ref) = Logical(r)
      BY <2>1, <2>3 DEF Mapped, Attempted, Logical
    <3> QED  BY <3>1 DEF Attempted
  <2> QED  BY <2>2, <2>3
<1>5. \A q \in n.done : q \in n.sent /\ Mapped(q, n)
  BY DEF Deliveries, Mapped, Attempted
<1> QED  BY <1>1, <1>2, <1>3, <1>4, <1>5 DEF Deliveries

-----------------------------------------------------------------------------
(* What a repair attempts.                                                 *)

\* The things and their messages.
LEMMA Things ==
    /\ \A c \in Channel : c \notin Index /\ Text(c) = {c} \X (1..Length[c]) /\ Last(c) \in Text(c)
    /\ \A i \in Index : i \notin Channel /\ Text(i) = {<<i, 0>>}
    /\ \A x \in Channel \union Index : Text(x) \subseteq Source /\ \A s \in Text(x) : s[1] = x
    /\ \A s \in Source : /\ s[1] \in Channel \union Index /\ s[1] \in Item /\ s[2] \in Nat /\ s \in Text(s[1])
                         /\ s = <<s[1], s[2]>>
    /\ \A c \in Channel : Length[c] \in Nat \ {0}
<1>1. \A c \in Channel : c \notin Index /\ Text(c) = {c} \X (1..Length[c]) /\ Length[c] \in Nat \ {0}
  BY RepairAssumption DEF Text
<1>2. \A c \in Channel : Last(c) \in Text(c)
  BY <1>1 DEF Last
<1>3. \A i \in Index : i \notin Channel /\ Text(i) = {<<i, 0>>}
  BY RepairAssumption DEF Text
<1>4. \A x \in Channel \union Index : Text(x) \subseteq Source /\ \A s \in Text(x) : s[1] = x
  BY <1>1, <1>3 DEF Source
<1>5. \A s \in Source : /\ s[1] \in Channel \union Index /\ s[1] \in Item /\ s[2] \in Nat /\ s \in Text(s[1])
                        /\ s = <<s[1], s[2]>>
  <2> TAKE s \in Source
  <2>1. PICK x \in Channel \union Index : s \in Text(x)
    BY DEF Source
  <2>2. CASE x \in Channel
    BY <1>1, <2>1, <2>2 DEF Item
  <2>3. CASE x \in Index
    BY <1>3, <2>1, <2>3 DEF Item
  <2> QED  BY <2>1, <2>2, <2>3
<1> QED  BY <1>1, <1>2, <1>3, <1>4, <1>5

LEMMA RefFacts ==
    ASSUME NEW r \in Refs
    PROVE  /\ r.src \in Source /\ r.src[1] \in Channel \union Index /\ r.src[1] \in Item
           /\ r.copy \in Nat /\ r.gen \in Nat
BY Things DEF Refs

\* A job's thing, by its kind.
LEMMA JobThing ==
    ASSUME NEW j \in Jobs
    PROVE  /\ j = <<j[1], j[2]>>
           /\ j[1] = "role" => j[2] \in Role
           /\ j[1] \in {"emoji", "resume"} => j[2] \in Emoji
           /\ j[1] \in {"channel", "tail"} => j[2] \in Channel
           /\ j[1] \in {"index", "rebuild"} => j[2] \in Index
           /\ j[1] = "category" => j[2] \in Category
           /\ j[1] \in {"role", "emoji", "resume", "channel", "tail", "index", "rebuild", "category"}
           /\ j[1] # "category" => j[2] \in Item
           /\ j[1] \in Sending => j[2] \in Channel \union Index
BY DEF Jobs, Item, Sending

\* The message at hand is one that is left.
LEMMA HereLeft ==
    ASSUME Shapes, step \in {"replace", "send"}, todo # {}
    PROVE  /\ Here \in todo /\ Here \in Source /\ Here[1] = Thing /\ Thing \in Channel \union Index
           /\ Here \in Text(Thing) /\ Kind \in Sending /\ job \in Jobs /\ Thing \in Item
<1>1. Working /\ job \in Jobs /\ Kind \in Kinds[step] /\ todo \subseteq Text(Thing)
  BY DEF Shapes, RunShapes, Working, Kinds
<1>2. Kind \in Sending
  BY <1>1 DEF Kinds, Sending
<1>3. Thing \in Channel \union Index /\ Thing \in Item
  BY <1>1, <1>2, JobThing DEF Kind, Thing, Item
<1>4. \A s \in todo : s \in Source /\ s[1] = Thing /\ s[2] \in Nat /\ s = <<s[1], s[2]>>
  BY <1>1, <1>3, Things
<1> DEFINE T == {s[2] : s \in todo}
<1>5. T \in SUBSET Nat /\ T # {}
  BY <1>4
<1>6. Min(T) \in T
  BY <1>5, LeastNumber
<1>7. PICK s \in todo : Min(T) = s[2]
  BY <1>6
<1>8. Here = s
  BY <1>4, <1>7 DEF Here, Current
<1> QED  BY <1>1, <1>2, <1>3, <1>4, <1>8

\* The delivery that is tried, or that a stop or a death may cut short.
Pending(r) ==
    \/ step = "send" /\ r \in Begun(Here)
    \/ step = "retry" /\ r \in todo /\ Retriable(r) /\ Logical(r) \notin resolved

LEMMA BegunFacts ==
    ASSUME Shapes, NEW s \in Source, NEW r \in Begun(s)
    PROVE  /\ r \in mem.next /\ r \in Refs /\ r.src = s /\ r.copy = mem.map[s[1]] /\ Mapped(r, mem)
           /\ Logical(r) = <<s, mem.map[s[1]]>>
<1>1. r \in mem.next /\ r \in Refs /\ Logical(r) = <<s, mem.map[s[1]]>>
  BY DEF Begun, Shapes, RunShapes, State
<1> QED  BY <1>1 DEF Logical, Mapped

LEMMA MayAttempt ==
    ASSUME Shapes, OneInv, NEW r, Pending(r)
    PROVE  /\ r \in Refs
           /\ Attempted(receipts, mem, r) /\ Attempted(receipts, disk, r)
           /\ \A p \in posts : Logical(p.ref) = Logical(r) => p.ref = r
           /\ Unsent(r) => \A p \in posts : Logical(p.ref) # Logical(r)
           /\ \A q \in mem.done : q.src # r.src
<1>0. /\ posts \subseteq Post /\ receipts \subseteq Rcpt /\ mem \in State /\ disk \in State
      /\ disk.map = mem.map /\ disk.next = mem.next /\ disk.done = {}
      /\ Deliveries(posts, receipts, mem) /\ Deliveries(posts, receipts, disk)
  BY DEF Shapes, WorldShapes, RunShapes, Post, Rcpt, OneInv, Synced
<1>1. CASE step = "send" /\ r \in Begun(Here)
  <2>1. /\ Here \in todo /\ Here \in Source
        /\ r \in mem.next /\ r \in Refs /\ r.src = Here /\ Mapped(r, mem)
    BY <1>1, HereLeft, BegunFacts DEF Shapes, RunShapes
  <2>2. Attempted(receipts, mem, r) /\ Attempted(receipts, disk, r)
    BY <1>0, <2>1 DEF Attempted, Deliveries, OneEach, Mapped
  <2>3. \A p \in posts : Logical(p.ref) = Logical(r) => p.ref = r
    BY <1>0, <2>1 DEF Deliveries, OneEach
  <2>4. ASSUME Unsent(r), NEW p \in posts, Logical(p.ref) = Logical(r)
        PROVE  FALSE
    <3>1. p.ref = r
      BY <2>3, <2>4
    <3>2. Receipted(p, receipts)
      BY <1>0, <2>1, <3>1 DEF Deliveries, Backed
    <3> QED  BY <2>4, <3>1, <3>2 DEF Receipted, Unsent, Receipt
  <2>5. \A q \in mem.done : q.src # r.src
    BY <1>1, <2>1 DEF OneInv, DoneInv
  <2> QED  BY <2>1, <2>2, <2>3, <2>4, <2>5
<1>2. CASE step = "retry" /\ r \in todo /\ Retriable(r) /\ Logical(r) \notin resolved
  <2>1. r \in Refs /\ Mapped(r, mem) /\ Mapped(r, disk)
    BY <1>0, <1>2 DEF Shapes, RunShapes, Retriable, Mapped
  <2>2. PICK z \in receipts : z.ref = r
    BY <1>2 DEF Retriable, Receipt
  <2>3. r \notin mem.done
    BY <1>2 DEF OneInv, DoneInv
  <2>4. /\ r \in mem.next \/ (r.src[1] \in Channel /\ \A q \in mem.sent : q.src # r.src)
        /\ r \in mem.next \/ (r.src[1] \in Channel /\ \A q \in disk.sent : q.src # r.src)
    BY <1>0, <2>1, <2>2, <2>3 DEF Deliveries, Owed
  <2>5. Attempted(receipts, mem, r) /\ Attempted(receipts, disk, r)
    <3>1. \A q \in receipts : Logical(q.ref) = Logical(r) => q.ref = r
      BY <1>0, <2>2 DEF Deliveries, OneEach
    <3>2. \A q \in mem.next : Logical(q) = Logical(r) => q = r
      BY <1>0, <2>2 DEF Deliveries, OneEach
    <3> QED  BY <1>0, <2>1, <2>4, <3>1, <3>2 DEF Attempted
  <2>6. ASSUME NEW p \in posts, Logical(p.ref) = Logical(r)
        PROVE  p.ref = r /\ ~Unsent(r)
    <3>1. p.ref \in Refs /\ p.ref.src = r.src /\ p.ref.copy = r.copy
      BY <1>0, <2>1, <2>6, SameLogical DEF Post
    <3>2. Mapped(p.ref, mem)
      BY <2>1, <3>1 DEF Mapped
    <3>3. ~ (p.ref \in mem.sent \ mem.next)
      <4>1. CASE r \in mem.next
        BY <1>0, <2>6, <4>1 DEF Deliveries, OneEach
      <4>2. CASE \A q \in mem.sent : q.src # r.src
        BY <3>1, <4>2
      <4> QED  BY <2>4, <4>1, <4>2
    <3>4. PICK q \in receipts : q.ref = p.ref /\ q.st # "rejected"
      BY <1>0, <3>2, <3>3 DEF Deliveries, Backed, Receipted
    <3>5. q.ref = r
      BY <2>5, <2>6, <3>4 DEF Attempted
    <3> QED  BY <3>4, <3>5 DEF Unsent, Receipt
  <2>7. \A q \in mem.done : q.src # r.src
    <3> SUFFICES ASSUME NEW q \in mem.done, q.src = r.src PROVE FALSE
      OBVIOUS
    <3>1. Mapped(q, mem) /\ Logical(q) \in resolved
      BY <1>0, <1>2 DEF Deliveries, OneInv, DoneInv
    <3>2. Logical(q) = Logical(r)
      BY <2>1, <3>1 DEF Mapped, Logical
    <3> QED  BY <1>2, <3>1, <3>2
  <2> QED  BY <2>1, <2>5, <2>6, <2>7
<1> QED  BY <1>1, <1>2 DEF Pending

\* The post and the receipt an attempt may leave.
Fresh(r) == [ref |-> r, emo |-> Shown(mem, r.src)]
Replaced(r, st) == (receipts \ Receipt(r)) \union {[ref |-> r, st |-> st, emo |-> Shown(mem, r.src)]}

LEMMA ShownNumber ==
    ASSUME Shapes, NEW s
    PROVE  /\ Shown(mem, s) \in Nat
           /\ s \in DOMAIN EmojiIn => EmojiIn[s] \in Emoji /\ EmojiIn[s] \in Item /\ Shown(mem, s) = mem.map[EmojiIn[s]]
<1>1. s \in DOMAIN EmojiIn => EmojiIn[s] \in Emoji /\ EmojiIn[s] \in Item
  BY RepairAssumption DEF Item
<1> QED  BY <1>1 DEF Shown, Shapes, RunShapes, State

LEMMA FreshShape ==
    ASSUME Shapes, NEW r \in Refs
    PROVE  Fresh(r) \in Post /\ Fresh(r).ref = r /\ Fresh(r).emo = Shown(mem, r.src)
BY ShownNumber DEF Fresh, Post

LEMMA ReplacedShape ==
    ASSUME Shapes, NEW r \in Refs, NEW st \in Statuses
    PROVE  /\ Replaced(r, st) \subseteq Rcpt
           /\ \A q \in Replaced(r, st) : q.ref # r => q \in receipts
           /\ \A q \in receipts : q.ref # r => q \in Replaced(r, st)
           /\ \A q \in Replaced(r, st) : q.ref = r => q.st = st /\ q.emo = Shown(mem, r.src)
           /\ \E q \in Replaced(r, st) : q.ref = r /\ q.st = st /\ q.emo = Shown(mem, r.src)
           /\ \A p, q \in Replaced(r, st) : p.ref = r /\ q.ref = r => p = q
<1> DEFINE z == [ref |-> r, st |-> st, emo |-> Shown(mem, r.src)]
<1>1. z \in Rcpt /\ z.ref = r /\ z.st = st /\ z.emo = Shown(mem, r.src)
  BY ShownNumber DEF Rcpt
<1>2. Replaced(r, st) = (receipts \ Receipt(r)) \union {z}
  BY DEF Replaced
<1> HIDE DEF z
<1>3. receipts \subseteq Rcpt
  BY DEF Shapes, WorldShapes, Rcpt
<1> QED  BY <1>1, <1>2, <1>3 DEF Receipt

\* A first attempt, and one after every earlier one was rejected.
LEMMA FirstAttempt ==
    ASSUME Shapes, OneInv, NEW r, Pending(r), Unsent(r), NEW st \in Statuses, NEW Q,
           Q = posts \/ (Q = posts \union {Fresh(r)} /\ st # "rejected")
    PROVE  Attempt(posts, receipts, Q, Replaced(r, st), r) /\ Q \subseteq Post /\ Replaced(r, st) \subseteq Rcpt
<1>1. r \in Refs /\ \A p \in posts : Logical(p.ref) # Logical(r)
  BY MayAttempt
<1>2. Fresh(r) \in Post /\ Fresh(r).ref = r
  BY <1>1, FreshShape
<1>3. posts \subseteq Post
  BY DEF Shapes, WorldShapes, Post
<1>4. /\ Replaced(r, st) \subseteq Rcpt
      /\ \A q \in Replaced(r, st) : q.ref # r => q \in receipts
      /\ \A q \in receipts : q.ref # r => q \in Replaced(r, st)
      /\ \E q \in Replaced(r, st) : q.ref = r /\ q.st = st
      /\ \A p, q \in Replaced(r, st) : p.ref = r /\ q.ref = r => p = q
  BY <1>1, ReplacedShape
<1>5. ~ \E q \in receipts : q.ref = r /\ q.st # "rejected"
  BY DEF Unsent, Receipt
<1>6. posts \subseteq Q /\ (\A q \in Q \ posts : q.ref = r) /\ \A p, q \in Q \ posts : p = q
  BY <1>2
<1>7. Q # posts => \E q \in Replaced(r, st) : q.ref = r /\ q.st # "rejected"
  BY <1>4
<1> QED  BY <1>1, <1>2, <1>3, <1>4, <1>5, <1>6, <1>7 DEF Attempt

\* What an attempt leaves beside it, in the words the other invariants need.
LEMMA DeliverOutcome ==
    ASSUME Shapes, OneInv, NEW r, Pending(r),
           NEW o \in Sends \union Breaks \union Settled(r, Shown(mem, r.src)), Deliver(r, o)
    PROVE  /\ Attempt(posts, receipts, posts', receipts', r) /\ posts' \subseteq Post /\ receipts' \subseteq Rcpt
           /\ posts' = posts \/ (posts' = posts \union {Fresh(r)} /\ Unsent(r))
           /\ \A q \in receipts' : q.ref = r =>
                 \/ Unsent(r) /\ q.emo = Shown(mem, r.src)
                 \/ ~Unsent(r) /\ \E z \in receipts : z.ref = r /\ z.emo = q.emo
           /\ \A q \in receipts' : q.ref = r /\ q.st = "acked" =>
                 o.ok \/ \E z \in receipts : z.ref = r /\ z.st = "acked"
           /\ o.ok => \E q \in receipts' : q.ref = r /\ q.st = "acked"
           /\ o.ok => \/ Fresh(r) \in posts'
                      \/ /\ posts' = posts
                         /\ \E q \in receipts : /\ q.ref = r /\ q.emo = Shown(mem, r.src)
                                                /\ q.st = "acked" \/ Live(r) # {}
           /\ faults' = faults \/ (faults' = faults + 1)
           /\ o.ok \in BOOLEAN
<1> DEFINE e == Shown(mem, r.src)
<1>0. r \in Refs /\ posts \subseteq Post /\ receipts \subseteq Rcpt /\ Attempted(receipts, mem, r)
  BY MayAttempt DEF Shapes, WorldShapes, Post, Rcpt
<1>1. CASE Unsent(r) /\ o \in Sends /\ NoFault
  <2>1. o.put = TRUE /\ o.st = "acked" /\ o.ok = TRUE
    BY <1>1 DEF Sends, Outcome
  <2>2. posts' = posts \union {Fresh(r)} /\ receipts' = Replaced(r, "acked")
    BY <1>1, <2>1 DEF Deliver, Fresh, Replaced
  <2>3. Attempt(posts, receipts, posts', receipts', r) /\ posts' \subseteq Post /\ receipts' \subseteq Rcpt
    <3>1. PICK Q : Q = posts \union {Fresh(r)}
      OBVIOUS
    <3>2. Attempt(posts, receipts, Q, Replaced(r, "acked"), r) /\ Q \subseteq Post /\ Replaced(r, "acked") \subseteq Rcpt
      BY <1>1, <3>1, FirstAttempt DEF Statuses
    <3> QED  BY <2>2, <3>1, <3>2
  <2>4. /\ \A q \in receipts' : q.ref = r => q.emo = e
        /\ \E q \in receipts' : q.ref = r /\ q.st = "acked"
    BY <1>0, <2>2, ReplacedShape DEF Statuses
  <2> QED  BY <1>1, <2>1, <2>2, <2>3, <2>4 DEF NoFault
<1>2. CASE Unsent(r) /\ o \in Breaks /\ Fault
  <2>1. /\ o.put \in BOOLEAN /\ o.st \in {"rejected", "unsure"} /\ o.ok = FALSE
        /\ o.put => o.st = "unsure"
    <3>1. CASE o = Outcome(FALSE, "rejected", FALSE)
      <4>1. o.put = FALSE /\ o.st = "rejected" /\ o.ok = FALSE
        BY <3>1 DEF Outcome
      <4> QED  BY <4>1
    <3>2. CASE o = Outcome(FALSE, "unsure", FALSE)
      <4>1. o.put = FALSE /\ o.st = "unsure" /\ o.ok = FALSE
        BY <3>2 DEF Outcome
      <4> QED  BY <4>1
    <3>3. CASE o = Outcome(TRUE, "unsure", FALSE)
      <4>1. o.put = TRUE /\ o.st = "unsure" /\ o.ok = FALSE
        BY <3>3 DEF Outcome
      <4> QED  BY <4>1
    <3> QED  BY <1>2, <3>1, <3>2, <3>3 DEF Breaks
  <2>2. posts' = (IF o.put THEN posts \union {Fresh(r)} ELSE posts) /\ receipts' = Replaced(r, o.st)
    BY <1>2 DEF Deliver, Fresh, Replaced
  <2>3. Attempt(posts, receipts, posts', receipts', r) /\ posts' \subseteq Post /\ receipts' \subseteq Rcpt
    <3>1. PICK Q : Q = (IF o.put THEN posts \union {Fresh(r)} ELSE posts)
      OBVIOUS
    <3>2. PICK st \in Statuses : st = o.st
      BY <2>1 DEF Statuses
    <3>3. Q = posts \/ (Q = posts \union {Fresh(r)} /\ st # "rejected")
      BY <2>1, <3>1, <3>2
    <3>4. Attempt(posts, receipts, Q, Replaced(r, st), r) /\ Q \subseteq Post /\ Replaced(r, st) \subseteq Rcpt
      BY <1>2, <3>3, FirstAttempt
    <3> QED  BY <2>2, <3>1, <3>2, <3>4
  <2>4. \A q \in receipts' : q.ref = r => q.emo = e /\ q.st = o.st
    <3>1. PICK st \in Statuses : st = o.st
      BY <2>1 DEF Statuses
    <3> QED  BY <1>0, <2>2, <3>1, ReplacedShape
  <2> QED  BY <1>2, <2>1, <2>2, <2>3, <2>4 DEF Fault
<1>3. CASE ~Unsent(r) /\ o \in Settled(r, e) /\ NoFault
  <2>1. PICK z \in receipts : /\ z.ref = r
                              /\ o = IF z.emo = e /\ (z.st = "acked" \/ Live(r) # {}) THEN Outcome(FALSE, "acked", TRUE)
                                     ELSE Outcome(FALSE, z.st, FALSE)
    BY <1>3 DEF Settled, Receipt
  <2>2. \A q \in receipts : q.ref = r => q = z
    BY <2>1 DEF OneInv, Deliveries, OneEach
  <2>3. z \in Rcpt /\ z.st # "rejected"
    BY <1>0, <1>3, <2>2 DEF Unsent, Receipt
  <2>4. /\ o.put = FALSE /\ o.st \in {"acked", z.st} /\ o.ok \in BOOLEAN
        /\ o.ok => o.st = "acked" /\ z.emo = e /\ (z.st = "acked" \/ Live(r) # {})
        /\ ~o.ok => o.st = z.st
    BY <2>1 DEF Outcome
  <2>5. posts' = posts /\ receipts' = {IF q.ref = r THEN [q EXCEPT !.st = o.st] ELSE q : q \in receipts}
    BY <1>3, <2>4 DEF Deliver
  <2> DEFINE w == [z EXCEPT !.st = o.st]
  <2>6. w \in Rcpt /\ w.ref = r /\ w.st = o.st /\ w.emo = z.emo
    BY <2>1, <2>3, <2>4 DEF Rcpt, Statuses
  <2>7. w.st # "rejected"
    BY <2>3, <2>4, <2>6
  <2>8. /\ w \in receipts'
        /\ \A q \in receipts' : q.ref # r => q \in receipts
        /\ \A q \in receipts' : q.ref = r => q = w
        /\ \A q \in receipts : q.ref # r => q \in receipts'
    <3> HIDE DEF w
    <3>1. \A q \in receipts : q.ref = r => (IF q.ref = r THEN [q EXCEPT !.st = o.st] ELSE q) = w
      BY <2>2 DEF w
    <3>2. \A q \in receipts : q.ref # r => (IF q.ref = r THEN [q EXCEPT !.st = o.st] ELSE q) = q
      OBVIOUS
    <3>3. receipts' = {q \in receipts : q.ref # r} \union {w}
      <4>1. \A x : x \in receipts' <=> \E q \in receipts : x = (IF q.ref = r THEN [q EXCEPT !.st = o.st] ELSE q)
        BY <2>5
      <4>2. \A x : x \in receipts' <=> x \in {q \in receipts : q.ref # r} \union {w}
        <5> TAKE x
        <5>1. ASSUME x \in receipts' PROVE x \in {q \in receipts : q.ref # r} \union {w}
          BY <3>1, <3>2, <4>1, <5>1
        <5>2. ASSUME x \in receipts, x.ref # r PROVE x \in receipts'
          BY <3>2, <4>1, <5>2
        <5>3. w \in receipts'
          BY <2>1, <3>1, <4>1
        <5> QED  BY <5>1, <5>2, <5>3
      <4> QED  BY <4>2
    <3> QED  BY <2>6, <3>3
  <2> HIDE DEF w
  <2>9. Attempt(posts, receipts, posts', receipts', r) /\ receipts' \subseteq Rcpt
    BY <1>0, <2>5, <2>6, <2>7, <2>8 DEF Attempt
  <2>10. \A q \in receipts' : q.ref = r => q.emo = z.emo /\ q.st = o.st
    BY <2>6, <2>8
  <2> QED  BY <1>0, <1>3, <2>1, <2>4, <2>5, <2>6, <2>8, <2>9, <2>10 DEF NoFault
<1> QED  BY <1>1, <1>2, <1>3 DEF Deliver

-----------------------------------------------------------------------------
(* Types.                                                                  *)

\* The kinds of each step, one by one.
LEMMA StepKinds ==
    /\ DOMAIN Kinds = {"make", "made", "dress", "patch", "clear", "replace", "send", "close", "edit"}
    /\ Kinds["make"] = Creating /\ Kinds["made"] = Creating
    /\ Kinds["dress"] = {"role", "channel", "index"} /\ Kinds["patch"] = {"category", "channel", "index"}
    /\ Kinds["clear"] = {"index", "rebuild"} /\ Kinds["replace"] = Sending /\ Kinds["send"] = Sending
    /\ Kinds["close"] = {"category", "channel", "index", "rebuild", "tail"} /\ Kinds["edit"] = {"emoji", "resume"}
BY DEF Kinds, Creating, Sending

\* Copies stay born.
LEMMA BornGrows ==
    ASSUME Shapes, NEW x \in Item, MakeCopy(x)
    PROVE  /\ made' \in [Item -> Nat \ {0}] /\ Born \subseteq Born' /\ alive' \subseteq Born'
           /\ made'[x] = made[x] + 1 /\ \A y \in Item : y # x => made'[y] = made[y]
           /\ \A y \in Item : mem.map[y] \in 1..made'[y]
           /\ <<x, made[x] + 1>> \notin Born
<1>1. made \in [Item -> Nat \ {0}] /\ alive \subseteq Born
  BY DEF Shapes, WorldShapes
<1>2. /\ made' \in [Item -> Nat \ {0}] /\ made'[x] = made[x] + 1
      /\ \A y \in Item : y # x => made'[y] = made[y]
  BY <1>1 DEF MakeCopy
<1>3. \A y \in Item : 1..made[y] \subseteq 1..made'[y]
  BY <1>1, <1>2
<1>4. Born \subseteq Born'
  <2> SUFFICES ASSUME NEW c \in Born PROVE c \in Born'
    OBVIOUS
  <2>1. c \in Copies /\ c[1] \in Item /\ c[2] \in 1..made[c[1]]
    BY DEF Born, Copies
  <2> QED  BY <1>3, <2>1 DEF Born
<1>5. <<x, made[x] + 1>> \in Born'
  <2>1. made[x] + 1 \in Nat /\ made[x] + 1 \in 1..made'[x]
    BY <1>1, <1>2
  <2> QED  BY <2>1 DEF Born, Copies
<1>6. alive' \subseteq Born'
  BY <1>1, <1>4, <1>5 DEF MakeCopy
<1>7. \A y \in Item : mem.map[y] \in 1..made'[y]
  BY <1>3 DEF Shapes, RunShapes
<1>8. <<x, made[x] + 1>> \notin Born
  BY <1>1 DEF Born
<1> QED  BY <1>1, <1>2, <1>4, <1>6, <1>7, <1>8

LEMMA CopyBorn ==
    ASSUME Shapes, NEW x \in Item
    PROVE  Copy(x) \in Born /\ mem.map[x] \in Nat \ {0} /\ disk.map[x] \in Nat /\ made[x] \in Nat \ {0}
<1>1. mem.map[x] \in 1..made[x] /\ made[x] \in Nat \ {0} /\ disk.map[x] \in Nat
  BY DEF Shapes, RunShapes, WorldShapes, State
<1> QED  BY <1>1 DEF Copy, Born, Copies

\* Messages of a channel or an index: the posts.
LEMMA RefShape ==
    ASSUME NEW s \in Source, NEW n \in Nat, NEW g \in Nat
    PROVE  Ref(s, n, g) \in Refs /\ Ref(s, n, g).src = s /\ Ref(s, n, g).copy = n /\ Ref(s, n, g).gen = g
           /\ Logical(Ref(s, n, g)) = <<s, n>>
BY DEF Ref, Refs, Logical

LEMMA MigratedShape ==
    ASSUME NEW b \in SUBSET Source
    PROVE  /\ Migrated(b) \in State /\ Migrated(b).map = [x \in Item |-> 1]
           /\ Migrated(b).sent = {Ref(s, 1, 0) : s \in Source \ b} /\ Migrated(b).failed = {Ref(s, 1, 0) : s \in b}
           /\ Migrated(b).next = {} /\ Migrated(b).done = {} /\ Migrated(b).rewrite = {}
           /\ Migrated(b).marked = Channel
           /\ Migrated(b).counted = {s[1] : s \in Source \ b} \intersect Channel
<1>1. {Ref(s, 1, 0) : s \in Source \ b} \subseteq Refs /\ {Ref(s, 1, 0) : s \in b} \subseteq Refs
  BY RefShape
<1>2. [x \in Item |-> 1] \in [Item -> Nat]
  OBVIOUS
<1> QED  BY <1>1, <1>2 DEF Migrated, State

\* At first there is one copy of everything, and at most one message is broken.
LEMMA InitShapes ==
    ASSUME Init
    PROVE  Shapes
<1>1. PICK b \in {{}} \union {{s} : s \in UNION {Text(c) : c \in Channel}} :
          /\ disk = Migrated(b)
          /\ posts = {[ref |-> Ref(s, 1, 0), emo |-> Shown(disk, s)] : s \in Source \ b}
          /\ receipts = {[ref |-> Ref(s, 1, 0), st |-> "rejected", emo |-> Shown(disk, s)] : s \in b}
  BY DEF Init
<1>2. b \in SUBSET Source
  BY <1>1 DEF Source
<1>3. disk \in State /\ mem = disk /\ mem.map = [x \in Item |-> 1] /\ made = [x \in Item |-> 1]
  BY <1>1, <1>2, MigratedShape DEF Init
<1>4. \A s : Shown(disk, s) \in Nat
  <2> SUFFICES ASSUME NEW s PROVE Shown(disk, s) \in Nat
    OBVIOUS
  <2>1. s \in DOMAIN EmojiIn => EmojiIn[s] \in Item
    BY RepairAssumption DEF Item
  <2> QED  BY <1>3, <2>1 DEF Shown
<1>5. posts \subseteq [ref : Refs, emo : Nat]
  BY <1>1, <1>4, RefShape
<1>6. receipts \subseteq [ref : Refs, st : Statuses, emo : Nat]
  BY <1>1, <1>2, <1>4, RefShape DEF Statuses
<1>7. \A x \in Item : <<x, 1>> \in Born
  BY <1>3 DEF Born, Copies
<1>8. alive \subseteq Born /\ dressed \subseteq Born /\ fresh \subseteq Born /\ unfinished \subseteq Born
  BY <1>7 DEF Init
<1>9. IsLists(lists) /\ IsLists(view)
  BY <1>7 DEF Init, IsLists, Item
<1>10. WorldShapes
  BY <1>3, <1>5, <1>6, <1>8, <1>9 DEF WorldShapes, Init
<1>11. RunShapes
  <2>1. step = "idle" /\ ~Working /\ flawed = FALSE /\ jobs = {}
    BY StepKinds DEF Init, Working
  <2>2. \A x \in Item : mem.map[x] \in 1..made[x]
    BY <1>3
  <2> QED  BY <1>3, <2>1, <2>2 DEF RunShapes, Steps
<1> QED  BY <1>10, <1>11 DEF Shapes

\* Steps that leave the world and the records as they are.
LEMMA CheckShapes ==
    ASSUME Shapes, Synced, Check PROVE Shapes'
<1>1. mem = disk /\ mem' = mem /\ step' = "classify" /\ jobs = {} /\ jobs' = {}
  BY DEF Check, Synced, Shapes, RunShapes, server, files
<1>2. WorldShapes'
  <2>1. {runs, losses, faults, deaths}' \subseteq Nat
    BY DEF Shapes, WorldShapes, Check
  <2> QED  BY <2>1 DEF Shapes, WorldShapes, Born, IsLists, Check, server, files, history
<1>3. ~Working'
  BY <1>1, StepKinds DEF Working
<1>4. RunShapes'
  BY <1>1, <1>3 DEF Shapes, RunShapes, Steps, Check, server, files
<1> QED  BY <1>2, <1>4 DEF Shapes

LEMMA ClassifyShapes ==
    ASSUME Shapes, Classify PROVE Shapes'
<1>1. step' = "prepare" /\ jobs' = Found
  BY DEF Classify
<1>2. WorldShapes'
  BY DEF Shapes, WorldShapes, Born, IsLists, Classify, server, files, history, bounds
<1>3. ~Working'
  BY <1>1, StepKinds DEF Working
<1>4. Found \subseteq Jobs
  BY DEF Found, Jobs, Missing, Shapes, RunShapes, State
<1>5. RunShapes'
  BY <1>1, <1>3, <1>4 DEF Shapes, RunShapes, Steps, Classify, server, files, history, bounds
<1> QED  BY <1>2, <1>5 DEF Shapes

LEMMA PrepareShapes ==
    ASSUME Shapes, Prepare PROVE Shapes'
<1>1. step' = "next" /\ view' = lists
  BY DEF Prepare
<1>2. dressed' \subseteq Born
  BY DEF Prepare, Present, Shapes, WorldShapes
<1>3. WorldShapes'
  BY <1>1, <1>2 DEF Shapes, WorldShapes, Born, IsLists, Prepare, files, history, bounds
<1>4. ~Working'
  BY <1>1, StepKinds DEF Working
<1>5. RunShapes'
  BY <1>1, <1>4 DEF Shapes, RunShapes, Steps, Prepare, files, history, bounds
<1> QED  BY <1>3, <1>5 DEF Shapes

\* The step a job starts with.
LEMMA FirstSteps ==
    ASSUME NEW j \in Jobs
    PROVE  /\ First[j[1]] \in DOMAIN Kinds /\ j[1] \in Kinds[First[j[1]]] /\ First[j[1]] \in Steps
           /\ First[j[1]] \in {"make", "edit", "patch", "clear", "replace"}
           /\ First[j[1]] = "replace" => j[1] = "tail"
           /\ First[j[1]] = "edit" => j[1] = "resume"
           /\ First[j[1]] = "make" => j[1] \in Creating
           /\ First[j[1]] = "patch" => j[1] = "category"
           /\ First[j[1]] = "clear" => j[1] = "rebuild"
BY JobThing, StepKinds DEF First, Steps, Creating, Sending

LEMMA TakeJobShapes ==
    ASSUME Shapes, TakeJob PROVE Shapes'
<1>1. PICK j \in jobs : /\ job' = j /\ jobs' = jobs \ {j} /\ step' = First[j[1]]
                        /\ todo' = CASE j[1] = "resume" -> Referencing(j[2])
                                     [] j[1] = "tail" -> {Last(j[2])}
                                     [] OTHER -> {}
                        /\ view' = lists \/ view' = view
  BY DEF TakeJob
<1>2. j \in Jobs
  BY DEF Shapes, RunShapes
<1>3. WorldShapes'
  BY <1>1 DEF Shapes, WorldShapes, Born, IsLists, TakeJob, server, files, history, bounds
<1>4. /\ step' \in Steps /\ Working' /\ job' \in Jobs /\ Kind' \in Kinds[step'] /\ job' \notin jobs'
      /\ step' \in {"make", "edit", "patch", "clear", "replace"}
  BY <1>1, <1>2, FirstSteps DEF Working, Kind
<1>5. step' = "replace" => todo' \subseteq Text(Thing')
  <2> SUFFICES ASSUME step' = "replace" PROVE todo' \subseteq Text(Thing')
    OBVIOUS
  <2>1. j[1] = "tail" /\ j[2] \in Channel /\ Thing' = j[2]
    BY <1>1, <1>2, FirstSteps, JobThing DEF Thing
  <2>2. todo' = {Last(j[2])}
    BY <1>1, <2>1
  <2> QED  BY <2>1, <2>2, Things
<1>6. step' = "edit" => todo' \subseteq Source
  <2> SUFFICES ASSUME step' = "edit" PROVE todo' \subseteq Source
    OBVIOUS
  <2>1. j[1] = "resume" /\ todo' = Referencing(j[2])
    BY <1>1, <1>2, FirstSteps
  <2>2. \A r \in mem.sent : r.src \in Source
    BY DEF Shapes, RunShapes, State, Refs
  <2> QED  BY <2>1, <2>2 DEF Referencing
<1>7. RunShapes'
  BY <1>1, <1>4, <1>5, <1>6 DEF Shapes, RunShapes, TakeJob, server, files, history, bounds
<1> QED  BY <1>3, <1>7 DEF Shapes

LEMMA TakeFailuresShapes ==
    ASSUME Shapes, TakeFailures PROVE Shapes'
<1>1. step' \in {"retry", "finish"} /\ todo' = mem.failed /\ jobs' = {} /\ mem.failed \subseteq Refs
  BY DEF TakeFailures, Shapes, RunShapes, State
<1>2. WorldShapes'
  BY DEF Shapes, WorldShapes, Born, IsLists, TakeFailures, server, files, history, bounds
<1>3. ~Working'
  BY <1>1, StepKinds DEF Working
<1>4. RunShapes'
  BY <1>1, <1>3 DEF Shapes, RunShapes, Steps, TakeFailures, server, files, history, bounds
<1> QED  BY <1>2, <1>4 DEF Shapes

\* What holds of a job at work.
LEMMA AtWork ==
    ASSUME Shapes, Working
    PROVE  /\ job \in Jobs /\ Kind \in Kinds[step] /\ job \notin jobs /\ job = <<Kind, Thing>>
           /\ Kind = "role" => Thing \in Role
           /\ Kind \in {"emoji", "resume"} => Thing \in Emoji
           /\ Kind \in {"channel", "tail"} => Thing \in Channel
           /\ Kind \in {"index", "rebuild"} => Thing \in Index
           /\ Kind = "category" => Thing \in Category
           /\ Kind # "category" => Thing \in Item
           /\ Kind \in Sending => Thing \in Channel \union Index
<1>1. job \in Jobs /\ Kind \in Kinds[step] /\ job \notin jobs
  BY DEF Shapes, RunShapes
<1> QED  BY <1>1, JobThing DEF Kind, Thing

\* What a step that changes neither memory nor the job needs to be well typed.
LEMMA QuietShapes ==
    ASSUME Shapes, UNCHANGED <<disk, mem, made, jobs, job>>, step' \in Steps, Working, Working',
           Kind \in Kinds[step'], flawed' \in BOOLEAN, step' \in {"replace"} => todo' \subseteq Text(Thing),
           step' # "send", step' # "edit"
    PROVE  RunShapes'
<1>1. step' \notin {"idle", "classify", "retry", "finish"} /\ Kind' = Kind /\ Thing' = Thing
  BY StepKinds DEF Working, Kind, Thing
<1>2. mem' \in State /\ disk' \in State /\ \A x \in Item : mem'.map[x] \in 1..made'[x]
  BY DEF Shapes, RunShapes
<1>3. job' \in Jobs /\ Kind' \in Kinds[step'] /\ job' \notin jobs' /\ jobs' \subseteq Jobs
  BY <1>1, AtWork DEF Shapes, RunShapes
<1> QED  BY <1>1, <1>2, <1>3 DEF RunShapes

LEMMA DeclineShapes ==
    ASSUME Shapes, Decline PROVE Shapes'
<1>1. WorldShapes'
  BY DEF Shapes, WorldShapes, Born, IsLists, Decline, server, files, history, bounds
<1>2. Working /\ Working' /\ step' = "close" /\ Kind \in {"category", "index"}
  BY StepKinds DEF Decline, Undone, Working
<1>3. RunShapes'
  BY <1>2, QuietShapes, StepKinds DEF Decline, Steps, server, files, Shapes, RunShapes
<1> QED  BY <1>1, <1>3 DEF Shapes

\* The lists that are written back.
LEMMA RebuiltLists ==
    ASSUME Shapes, NEW l, IsLists(l), NEW k \in Category
    PROVE  /\ IsLists(Rebuilt(l, k)) /\ DOMAIN Rebuilt(l, k) = DOMAIN l \union {k}
           /\ Rebuilt(l, k)[k] = Members(k)
           /\ \A j \in DOMAIN l : j # k => Rebuilt(l, k)[j] = l[j]
<1>1. Members(k) \subseteq Born
  BY CopyBorn DEF Members, Item
<1>2. IsLists(Rebuilt(l, k))
  BY <1>1 DEF Rebuilt, IsLists
<1> QED  BY <1>2 DEF Rebuilt

LEMMA AttachedLists ==
    ASSUME Shapes, NEW l, IsLists(l), NEW x \in Item
    PROVE  /\ IsLists(Attached(l, x)) /\ DOMAIN Attached(l, x) = DOMAIN l
           /\ CategoryOf[x] \in DOMAIN l => Attached(l, x)[CategoryOf[x]] = (l[CategoryOf[x]] \ OldCopies(x)) \union {Copy(x)}
           /\ \A j \in DOMAIN l : j # CategoryOf[x] => Attached(l, x)[j] = l[j]
BY CopyBorn DEF Attached, IsLists

LEMMA PatchShapes ==
    ASSUME Shapes, Patch PROVE Shapes'
<1>0. Working /\ Kind \in {"category", "channel", "index"} /\ step' \in {"clear", "close"} /\ Working'
      /\ (step' = "clear" => Kind = "index")
  BY AtWork, StepKinds DEF Patch, Working
<1>1. IsLists(view)
  BY DEF Shapes, WorldShapes
<1>4. IsLists(Patched)
  <2>1. CASE Kind = "category"
    BY <1>0, <1>1, <2>1, AtWork, RebuiltLists DEF Patched
  <2>2. CASE Kind # "category"
    BY <1>0, <1>1, <2>2, AtWork, AttachedLists DEF Patched
  <2> QED  BY <2>1, <2>2
<1>5. WorldShapes'
  BY <1>4 DEF Shapes, WorldShapes, Born, IsLists, Patch, files, history, bounds
<1>6. RunShapes'
  BY <1>0, QuietShapes, StepKinds DEF Patch, Steps, files, Shapes, RunShapes
<1> QED  BY <1>5, <1>6 DEF Shapes

LEMMA MakeShapes ==
    ASSUME Shapes, Make PROVE Shapes'
<1>1. Working /\ Working' /\ Kind \in Creating /\ Thing \in Item /\ step' = "made"
  <2>1. Working /\ Kind \in Creating /\ step' = "made" /\ Working'
    BY AtWork, StepKinds DEF Make, Working
  <2> QED  BY <2>1, AtWork DEF Creating
<1>2. /\ made' \in [Item -> Nat \ {0}] /\ Born \subseteq Born' /\ alive' \subseteq Born'
      /\ \A y \in Item : mem.map[y] \in 1..made'[y]
  BY <1>1, BornGrows DEF Make
<1>3. WorldShapes'
  <2>1. IsLists(lists)' /\ IsLists(view)'
    BY <1>2 DEF Shapes, WorldShapes, IsLists, Make
  <2>2. dressed' \subseteq Born' /\ fresh' \subseteq Born' /\ unfinished' \subseteq Born'
    BY <1>2 DEF Shapes, WorldShapes, Make, history
  <2> QED  BY <1>2, <2>1, <2>2 DEF Shapes, WorldShapes, Make, files, history, bounds
<1>4. RunShapes'
  <2>1. mem' \in State /\ disk' \in State /\ flawed' \in BOOLEAN /\ jobs' \subseteq Jobs
    BY DEF Make, files, Shapes, RunShapes
  <2>2. job' \in Jobs /\ Kind' \in Kinds[step'] /\ job' \notin jobs'
    BY <1>1, AtWork, StepKinds DEF Make, Kind
  <2>3. \A y \in Item : mem'.map[y] \in 1..made'[y]
    BY <1>2 DEF Make, files
  <2> QED  BY <1>1, <2>1, <2>2, <2>3 DEF RunShapes, Steps
<1> QED  BY <1>3, <1>4 DEF Shapes

\* A save, in its parts.
LEMMA SaveParts ==
    ASSUME NEW m \in State, Save(m)
    PROVE  /\ mem' = Saved(m) /\ disk' = Saved(m) /\ mem' \in State /\ disk' \in State
           /\ mem'.map = m.map /\ mem'.marked = m.marked /\ mem'.counted = m.counted /\ mem'.sent = m.sent
           /\ mem'.failed = m.failed /\ mem'.rewrite = m.rewrite
           /\ mem'.next = m.next \ m.done /\ mem'.done = {}
           /\ receipts' = {q \in receipts : q.ref \notin m.done} /\ receipts' \subseteq receipts
BY SavedFields DEF Save

LEMMA RecordFacts ==
    ASSUME Shapes, Record
    PROVE  /\ Working /\ Working' /\ Kind \in Creating /\ Thing \in Item /\ Kind' = Kind /\ Thing' = Thing
           /\ made[Thing] \in Nat /\ WithNewId(Thing, made[Thing]) \in State
           /\ mem' = Saved(WithNewId(Thing, made[Thing])) /\ disk' = mem' /\ mem' \in State
           /\ mem'.map = [mem.map EXCEPT ![Thing] = made[Thing]]
           /\ mem'.next = mem.next \ mem.done /\ mem'.done = {}
           /\ mem'.rewrite = IF Kind = "emoji" THEN mem.rewrite \union {Thing} ELSE mem.rewrite
           /\ Kind # "channel" => mem'.sent = mem.sent /\ mem'.failed = mem.failed /\ mem'.marked = mem.marked
                                  /\ mem'.counted = mem.counted
           /\ Kind = "channel" =>
                /\ mem'.sent = {r \in mem.sent : r.src[1] # Thing} /\ mem'.marked = mem.marked \ {Thing}
                /\ mem'.counted = mem.counted \ {Thing}
                /\ mem'.failed = {IF r.src[1] = Thing /\ r.copy = mem.map[Thing]
                                  THEN Ref(r.src, made[Thing], 0) ELSE r : r \in mem.failed}
           /\ receipts' = {q \in receipts : q.ref \notin mem.done} /\ receipts' \subseteq receipts
           /\ step' = IF Kind = "emoji" THEN "edit" ELSE "dress"
           /\ made' = made /\ alive' = alive
<1>1. Working /\ Kind \in Creating /\ job \in Jobs
  BY AtWork, StepKinds DEF Record, Working
<1>2. Thing \in Item
  BY <1>1, AtWork DEF Creating
<1>3. Kind' = Kind /\ Thing' = Thing /\ Working' /\ made' = made /\ alive' = alive
      /\ step' = (IF Kind = "emoji" THEN "edit" ELSE "dress")
  BY StepKinds DEF Record, Kind, Thing, Working, server
<1>4. made[Thing] \in Nat /\ mem \in State
  BY <1>2, CopyBorn DEF Shapes, RunShapes
<1>5. PICK x \in Item, n \in Nat : x = Thing /\ n = made[Thing]
  BY <1>2, <1>4
<1>6. PICK m : m = WithNewId(x, n)
  OBVIOUS
<1>7. /\ m \in State /\ m.map = [mem.map EXCEPT ![x] = n] /\ m.next = mem.next /\ m.done = mem.done
      /\ m.rewrite = (IF Kind = "emoji" THEN mem.rewrite \union {x} ELSE mem.rewrite)
      /\ Kind # "channel" => m.sent = mem.sent /\ m.failed = mem.failed /\ m.marked = mem.marked
                             /\ m.counted = mem.counted
      /\ Kind = "channel" =>
           /\ m.sent = {r \in mem.sent : r.src[1] # x} /\ m.marked = mem.marked \ {x}
           /\ m.counted = mem.counted \ {x}
           /\ m.failed = {IF r.src[1] = x /\ r.copy = mem.map[x] THEN Ref(r.src, n, 0) ELSE r : r \in mem.failed}
  BY <1>1, <1>4, <1>5, <1>6, WithNewIdFields
<1>8. Save(m)
  BY <1>5, <1>6 DEF Record
<1>9. /\ mem' = Saved(m) /\ disk' = Saved(m) /\ mem' \in State
      /\ mem'.map = m.map /\ mem'.marked = m.marked /\ mem'.counted = m.counted /\ mem'.sent = m.sent
      /\ mem'.failed = m.failed /\ mem'.rewrite = m.rewrite
      /\ mem'.next = m.next \ m.done /\ mem'.done = {}
      /\ receipts' = {q \in receipts : q.ref \notin m.done} /\ receipts' \subseteq receipts
  BY <1>7, <1>8, SaveParts
<1> QED  BY <1>1, <1>2, <1>3, <1>4, <1>5, <1>6, <1>7, <1>9

LEMMA RecordShapes ==
    ASSUME Shapes, Record PROVE Shapes'
<1>1. /\ Working' /\ Kind \in Creating /\ Thing \in Item /\ Kind' = Kind /\ disk' = mem' /\ mem' \in State
      /\ mem'.map = [mem.map EXCEPT ![Thing] = made[Thing]]
      /\ receipts' \subseteq receipts /\ made' = made
      /\ step' = IF Kind = "emoji" THEN "edit" ELSE "dress"
  BY RecordFacts
<1>2. <<Thing, made[Thing]>> \in Born /\ made[Thing] \in 1..made[Thing]
  BY <1>1, CopyBorn DEF Born, Copies
<1>3. WorldShapes'
  <2>1. fresh' \subseteq Born
    BY <1>2 DEF Record, Shapes, WorldShapes
  <2>2. receipts' \subseteq [ref : Refs, st : Statuses, emo : Nat]
    BY <1>1 DEF Shapes, WorldShapes
  <2>3. IsLists(lists)' /\ IsLists(view)' /\ Born' = Born
    BY <1>1 DEF Shapes, WorldShapes, IsLists, Born, Record, server
  <2> QED  BY <2>1, <2>2, <2>3 DEF Shapes, WorldShapes, Record, server, history, bounds
<1>4. RunShapes'
  <2>1. \A y \in Item : mem'.map[y] \in 1..made'[y]
    <3>1. mem.map \in [Item -> Nat] /\ \A y \in Item : mem.map[y] \in 1..made[y]
      BY DEF Shapes, RunShapes, State
    <3> QED  BY <1>1, <1>2, <3>1
  <2>2. todo' \subseteq Source
    <3>1. \A r \in mem.sent : r.src \in Source
      BY DEF Shapes, RunShapes, State, Refs
    <3> QED  BY <3>1 DEF Record, Referencing
  <2>3. job' \in Jobs /\ Kind' \in Kinds[step'] /\ job' \notin jobs'
    <3>1. Working
      BY RecordFacts
    <3> QED  BY <1>1, <3>1, AtWork, StepKinds DEF Record, Creating
  <2>4. jobs' \subseteq Jobs /\ flawed' \in BOOLEAN
    BY DEF Record, Shapes, RunShapes
  <2> QED  BY <1>1, <2>1, <2>2, <2>3, <2>4 DEF RunShapes, Steps
<1> QED  BY <1>3, <1>4 DEF Shapes

LEMMA DressShapes ==
    ASSUME Shapes, Dress PROVE Shapes'
<1>1. Working /\ Kind \in {"role", "channel", "index"} /\ Thing \in Item /\ Kind' = Kind /\ Thing' = Thing
      /\ job' = job
  <2>1. Working /\ Kind \in {"role", "channel", "index"}
    BY AtWork, StepKinds DEF Dress, Working
  <2> QED  BY <2>1, AtWork DEF Dress, Kind, Thing
<1>2. Copy(Thing) \in Born
  BY <1>1, CopyBorn
<1>3. dressed' \subseteq Born /\ fresh' \subseteq Born
  BY <1>2 DEF Dress, Dressing, Present, Shapes, WorldShapes
<1>4. WorldShapes'
  BY <1>3 DEF Shapes, WorldShapes, IsLists, Born, Dress, files, history, bounds
<1>5. step' \in {"next", "replace", "patch"} /\ (step' = "replace" => Kind = "channel" /\ todo' = Text(Thing))
      /\ (step' = "patch" => Kind = "index") /\ (Kind = "role" => step' = "next")
  BY <1>1 DEF Dress
<1>6. CASE step' = "next"
  <2>1. ~Working'
    BY <1>6, StepKinds DEF Working
  <2> QED  BY <1>4, <1>6, <2>1 DEF Shapes, RunShapes, Steps, Dress, files, history, bounds
<1>7. CASE step' # "next"
  <2>1. Working' /\ Kind \in Kinds[step'] /\ step' \in Steps
    BY <1>1, <1>5, <1>7, StepKinds DEF Working, Steps, Sending
  <2>2. RunShapes'
    BY <1>1, <1>5, <1>7, <2>1, QuietShapes DEF Dress, files, Shapes, RunShapes
  <2> QED  BY <1>4, <2>2 DEF Shapes
<1> QED  BY <1>6, <1>7

LEMMA ClearFacts ==
    ASSUME Shapes, Clear
    PROVE  /\ Working /\ Working' /\ Kind \in {"index", "rebuild"} /\ Thing \in Index /\ Kind' = Kind /\ Thing' = Thing
           /\ job' = job /\ mem' \in State /\ mem'.map = mem.map /\ mem'.marked = mem.marked
           /\ mem'.counted = mem.counted
           /\ mem'.sent = {r \in mem.sent : r.src # <<Thing, 0>>} /\ mem'.failed = mem.failed
           /\ mem'.next = mem.next /\ mem'.done = mem.done /\ mem'.rewrite = mem.rewrite
           /\ todo' = Text(Thing) /\ step' = "replace"
<1>1. Working /\ Working' /\ Kind \in {"index", "rebuild"}
  BY AtWork, StepKinds DEF Clear, Working
<1>2. mem \in State
  BY DEF Shapes, RunShapes
<1>3. /\ mem' \in State /\ mem'.map = mem.map /\ mem'.marked = mem.marked /\ mem'.counted = mem.counted
      /\ mem'.sent = {r \in mem.sent : r.src # <<Thing, 0>>} /\ mem'.failed = mem.failed
      /\ mem'.next = mem.next /\ mem'.done = mem.done /\ mem'.rewrite = mem.rewrite
  BY <1>2 DEF Clear, State
<1> QED  BY <1>1, <1>3, AtWork DEF Clear, Kind, Thing

LEMMA ClearShapes ==
    ASSUME Shapes, Clear PROVE Shapes'
<1>1. WorldShapes'
  BY DEF Shapes, WorldShapes, IsLists, Born, Clear, server, files, history, bounds
<1>2. job' \in Jobs /\ Kind' \in Kinds[step'] /\ job' \notin jobs' /\ todo' \subseteq Text(Thing')
  BY ClearFacts, AtWork, StepKinds DEF Clear, Sending
<1>3. disk' \in State /\ flawed' \in BOOLEAN /\ jobs' \subseteq Jobs /\ \A x \in Item : mem'.map[x] \in 1..made'[x]
  BY ClearFacts DEF Shapes, RunShapes, Clear, server, files
<1>4. RunShapes'
  BY <1>2, <1>3, ClearFacts DEF RunShapes, Steps
<1> QED  BY <1>1, <1>4 DEF Shapes

\* Beginning a replacement: what was begun already is taken up, or a new one is saved.
NewRef == Ref(Here, mem.map[Thing], uuid[Here] + 1)
LEMMA ReplaceFacts ==
    ASSUME Shapes, OneInv, Replace
    PROVE  /\ Working /\ Working' /\ Kind \in Sending /\ Kind' = Kind /\ Thing' = Thing /\ job' = job /\ todo' = todo
           /\ Here' = Here /\ step' = "send" /\ step = "replace" /\ todo # {}
           /\ Here \in todo /\ Here \in Source /\ Here[1] = Thing /\ Thing \in Item /\ Thing \in Channel \union Index
           /\ \/ Begun(Here) # {} /\ UNCHANGED <<receipts, uuid, disk, mem>>
              \/ /\ Begun(Here) = {}
                 /\ uuid' = [uuid EXCEPT ![Here] = @ + 1] /\ uuid[Here] \in Nat
                 /\ NewRef \in Refs /\ NewRef.src = Here /\ NewRef.copy = mem.map[Thing] /\ NewRef.gen = uuid[Here] + 1
                 /\ Logical(NewRef) = <<Here, mem.map[Thing]>>
                 /\ NewRef \notin mem.done
                 /\ mem' = Saved([mem EXCEPT !.next = @ \union {NewRef}]) /\ disk' = mem' /\ mem' \in State
                 /\ mem'.map = mem.map /\ mem'.marked = mem.marked /\ mem'.counted = mem.counted
                 /\ mem'.sent = mem.sent /\ mem'.failed = mem.failed /\ mem'.rewrite = mem.rewrite
                 /\ mem'.next = (mem.next \ mem.done) \union {NewRef} /\ mem'.done = {}
                 /\ receipts' = {q \in receipts : q.ref \notin mem.done} /\ receipts' \subseteq receipts
<1>1. step = "replace" /\ todo # {} /\ step' = "send" /\ Working /\ Working' /\ UNCHANGED <<job, todo>>
  BY StepKinds DEF Replace, Working
<1>2. /\ Here \in todo /\ Here \in Source /\ Here[1] = Thing /\ Thing \in Item /\ Kind \in Sending
      /\ Kind' = Kind /\ Thing' = Thing /\ Here' = Here /\ Thing \in Channel \union Index
  BY <1>1, HereLeft DEF Kind, Thing, Here, Current
<1>3. CASE Begun(Here) # {}
  BY <1>1, <1>2, <1>3 DEF Replace, files
<1>4. CASE Begun(Here) = {}
  <2>1. /\ uuid' = [uuid EXCEPT ![Here] = @ + 1]
        /\ Save([mem EXCEPT !.next = @ \union {NewRef}])
    BY <1>4 DEF Replace, NewRef
  <2>2. uuid[Here] \in Nat /\ mem.map[Thing] \in Nat /\ mem \in State
    BY <1>2, CopyBorn DEF Shapes, WorldShapes, RunShapes
  <2>3. /\ NewRef \in Refs /\ NewRef.src = Here /\ NewRef.copy = mem.map[Thing] /\ NewRef.gen = uuid[Here] + 1
        /\ Logical(NewRef) = <<Here, mem.map[Thing]>>
    <3>1. PICK g \in Nat : g = uuid[Here] + 1
      BY <2>2
    <3>2. PICK s \in Source, n \in Nat : s = Here /\ n = mem.map[Thing]
      BY <1>2, <2>2
    <3> QED  BY <3>1, <3>2, RefShape DEF NewRef
  <2>4. NewRef \notin mem.done
    BY <1>1, <1>2, <2>3 DEF OneInv, DoneInv
  <2>5. PICK r \in Refs : r = NewRef
    BY <2>3
  <2>6. PICK m : m = [mem EXCEPT !.next = @ \union {r}]
    OBVIOUS
  <2>7. /\ m \in State /\ m.map = mem.map /\ m.marked = mem.marked /\ m.counted = mem.counted
        /\ m.sent = mem.sent /\ m.failed = mem.failed /\ m.rewrite = mem.rewrite
        /\ m.next = mem.next \union {r} /\ m.done = mem.done
    BY <2>2, <2>6 DEF State
  <2>8. Save(m)
    BY <2>1, <2>5, <2>6
  <2>9. /\ mem' = Saved(m) /\ disk' = Saved(m) /\ mem' \in State
        /\ mem'.map = m.map /\ mem'.marked = m.marked /\ mem'.counted = m.counted /\ mem'.sent = m.sent
        /\ mem'.failed = m.failed /\ mem'.rewrite = m.rewrite
        /\ mem'.next = m.next \ m.done /\ mem'.done = {}
        /\ receipts' = {q \in receipts : q.ref \notin m.done} /\ receipts' \subseteq receipts
    BY <2>7, <2>8, SaveParts
  <2>10. mem'.next = (mem.next \ mem.done) \union {NewRef}
    BY <2>4, <2>5, <2>7, <2>9
  <2>11. mem' = Saved([mem EXCEPT !.next = @ \union {NewRef}])
    BY <2>5, <2>6, <2>9
  <2> QED  BY <1>1, <1>2, <1>4, <2>1, <2>2, <2>3, <2>4, <2>7, <2>9, <2>10, <2>11
<1> QED  BY <1>3, <1>4

LEMMA ReplaceShapes ==
    ASSUME Shapes, OneInv, Replace PROVE Shapes'
<1>1. WorldShapes'
  <2>1. uuid' \in [Source -> Nat]
    BY ReplaceFacts DEF Shapes, WorldShapes
  <2>2. receipts' \subseteq [ref : Refs, st : Statuses, emo : Nat]
    BY ReplaceFacts DEF Shapes, WorldShapes
  <2> QED  BY <2>1, <2>2 DEF Shapes, WorldShapes, IsLists, Born, Replace, server, history, bounds
<1>2. job' \in Jobs /\ Kind' \in Kinds[step'] /\ job' \notin jobs' /\ todo' \subseteq Text(Thing')
  <2>1. jobs' = jobs
    BY DEF Replace
  <2> QED  BY <2>1, ReplaceFacts, AtWork, StepKinds DEF Shapes, RunShapes
<1>3. disk' \in State /\ mem' \in State /\ flawed' \in BOOLEAN /\ jobs' \subseteq Jobs
  BY ReplaceFacts DEF Shapes, RunShapes, Replace
<1>4. \A x \in Item : mem'.map[x] \in 1..made'[x]
  BY ReplaceFacts DEF Shapes, RunShapes, Replace, server
<1>5. Begun(Here)' # {} /\ todo' # {}
  <2>1. /\ Here' = Here /\ Here[1] = Thing /\ todo' # {}
        /\ \/ Begun(Here) # {} /\ mem' = mem
           \/ NewRef \in mem'.next /\ mem'.map = mem.map /\ Logical(NewRef) = <<Here, mem.map[Thing]>>
    BY ReplaceFacts
  <2> QED  BY <2>1 DEF Begun
<1>6. RunShapes'
  BY <1>2, <1>3, <1>4, <1>5, ReplaceFacts DEF RunShapes, Steps
<1> QED  BY <1>1, <1>6 DEF Shapes

\* A send.
LEMMA SendFacts ==
    ASSUME Shapes, OneInv, Send
    PROVE  /\ step = "send" /\ Working /\ Working' /\ Kind \in Sending /\ Kind' = Kind /\ Thing' = Thing /\ job' = job
           /\ step' = "replace" /\ todo' = todo \ {Here} /\ Here \in todo /\ Here \in Source /\ Here[1] = Thing
           /\ Thing \in Item /\ Thing \in Channel \union Index
           /\ disk' = disk /\ uuid' = uuid
           /\ \E r \in Begun(Here) : \E o \in Sends \union Breaks \union Settled(r, Shown(mem, r.src)) :
                /\ Pending(r) /\ Deliver(r, o) /\ r \in Refs /\ r.src = Here /\ r.copy = mem.map[Thing]
                /\ mem' = IF o.ok THEN Healed(mem, r) ELSE NotDelivered(mem, r)
                /\ unfinished' = IF o.ok \/ Thing \in Channel THEN unfinished ELSE unfinished \union {Copy(Thing)}
                /\ mem' \in State /\ mem'.map = mem.map /\ mem'.marked = mem.marked /\ mem'.rewrite = mem.rewrite
                /\ mem'.next = mem.next
                /\ o.ok => /\ mem'.failed = {q \in mem.failed : Logical(q) # Logical(r)}
                           /\ mem'.done = mem.done \union {r}
                           /\ mem'.sent = {q \in mem.sent : q.src # r.src} \union {r}
                           /\ mem'.counted = mem.counted \union ({r.src[1]} \intersect Channel)
                /\ ~o.ok => /\ mem'.failed = IF r.src[1] \in Channel THEN mem.failed \union {r} ELSE mem.failed
                            /\ mem'.done = mem.done /\ mem'.sent = mem.sent /\ mem'.counted = mem.counted
<1>1. step = "send" /\ step' = "replace" /\ Working /\ Working' /\ job' = job /\ todo # {}
      /\ todo' = todo \ {Here} /\ disk' = disk /\ uuid' = uuid
  BY StepKinds DEF Send, Working, Shapes, RunShapes
<1>2. /\ Here \in todo /\ Here \in Source /\ Here[1] = Thing /\ Thing \in Item /\ Kind \in Sending
      /\ Kind' = Kind /\ Thing' = Thing /\ Thing \in Channel \union Index
  BY <1>1, HereLeft DEF Kind, Thing
<1>3. PICK r \in Begun(Here) : \E o \in Sends \union Breaks \union Settled(r, Shown(mem, r.src)) :
         /\ Deliver(r, o)
         /\ mem' = IF o.ok THEN Healed(mem, r) ELSE NotDelivered(mem, r)
         /\ unfinished' = IF o.ok \/ Thing \in Channel THEN unfinished ELSE unfinished \union {Copy(Thing)}
  BY DEF Send
<1>4. PICK o \in Sends \union Breaks \union Settled(r, Shown(mem, r.src)) :
         /\ Deliver(r, o)
         /\ mem' = IF o.ok THEN Healed(mem, r) ELSE NotDelivered(mem, r)
         /\ unfinished' = IF o.ok \/ Thing \in Channel THEN unfinished ELSE unfinished \union {Copy(Thing)}
  BY <1>3
<1>5. Pending(r) /\ r \in Refs /\ r.src = Here /\ r.copy = mem.map[Thing] /\ mem \in State
  BY <1>1, <1>2, BegunFacts DEF Pending, Shapes, RunShapes
<1>6. o.ok => /\ mem' = Healed(mem, r) /\ mem' \in State /\ mem'.map = mem.map /\ mem'.marked = mem.marked
              /\ mem'.rewrite = mem.rewrite /\ mem'.next = mem.next
              /\ mem'.failed = {q \in mem.failed : Logical(q) # Logical(r)}
              /\ mem'.done = mem.done \union {r}
              /\ mem'.sent = {q \in mem.sent : q.src # r.src} \union {r}
              /\ mem'.counted = mem.counted \union ({r.src[1]} \intersect Channel)
  BY <1>4, <1>5, HealedFields
<1>7. ~o.ok => /\ mem' = NotDelivered(mem, r) /\ mem' \in State /\ mem'.map = mem.map /\ mem'.marked = mem.marked
               /\ mem'.rewrite = mem.rewrite /\ mem'.next = mem.next
               /\ mem'.failed = (IF r.src[1] \in Channel THEN mem.failed \union {r} ELSE mem.failed)
               /\ mem'.done = mem.done /\ mem'.sent = mem.sent /\ mem'.counted = mem.counted
  BY <1>4, <1>5, NotDeliveredFields
<1> QED  BY <1>1, <1>2, <1>4, <1>5, <1>6, <1>7

\* What an attempt makes of the posts and the receipts is well typed; so are the counters.
LEMMA AttemptShapes ==
    ASSUME Shapes, OneInv, NEW r, Pending(r),
           NEW o \in Sends \union Breaks \union Settled(r, Shown(mem, r.src)), Deliver(r, o)
    PROVE  /\ posts' \subseteq [ref : Refs, emo : Nat] /\ receipts' \subseteq [ref : Refs, st : Statuses, emo : Nat]
           /\ faults' \in Nat
<1>1. posts' \subseteq Post /\ receipts' \subseteq Rcpt /\ (faults' = faults \/ faults' = faults + 1)
  BY DeliverOutcome
<1> QED  BY <1>1 DEF Post, Rcpt, Shapes, WorldShapes

LEMMA SendShapes ==
    ASSUME Shapes, OneInv, Send PROVE Shapes'
<1>1. PICK r \in Begun(Here) : \E o \in Sends \union Breaks \union Settled(r, Shown(mem, r.src)) :
         /\ Pending(r) /\ Deliver(r, o) /\ mem' \in State /\ mem'.map = mem.map
         /\ unfinished' = IF o.ok \/ Thing \in Channel THEN unfinished ELSE unfinished \union {Copy(Thing)}
  BY SendFacts
<1>2. /\ posts' \subseteq [ref : Refs, emo : Nat] /\ receipts' \subseteq [ref : Refs, st : Statuses, emo : Nat]
      /\ faults' \in Nat
  BY <1>1, AttemptShapes
<1>3. unfinished' \subseteq Born
  <2>1. Copy(Thing) \in Born /\ unfinished \subseteq Born
    BY SendFacts, CopyBorn DEF Shapes, WorldShapes
  <2> QED  BY <1>1, <2>1
<1>4. {runs, losses, faults, deaths}' \subseteq Nat
  BY <1>2 DEF Shapes, WorldShapes, Send
<1>5. WorldShapes'
  BY <1>2, <1>3, <1>4 DEF Shapes, WorldShapes, IsLists, Born, Send
<1>6. job' \in Jobs /\ Kind' \in Kinds[step'] /\ job' \notin jobs' /\ todo' \subseteq Text(Thing')
  <2>1. jobs' = jobs
    BY DEF Send
  <2> QED  BY <2>1, SendFacts, AtWork, StepKinds DEF Shapes, RunShapes
<1>7. disk' \in State /\ flawed' \in BOOLEAN /\ jobs' \subseteq Jobs /\ \A x \in Item : mem'.map[x] \in 1..made'[x]
  BY <1>1 DEF Shapes, RunShapes, Send
<1>8. RunShapes'
  BY <1>1, <1>6, <1>7, SendFacts DEF RunShapes, Steps
<1> QED  BY <1>5, <1>8 DEF Shapes

LEMMA AllSentFacts ==
    ASSUME Shapes, AllSent
    PROVE  /\ step = "replace" /\ todo = {} /\ Working /\ Working' /\ Kind \in Sending /\ Kind' = Kind /\ Thing' = Thing
           /\ job' = job /\ todo' = todo
           /\ step' = (IF Kind = "channel" THEN "patch" ELSE "close") /\ Kind \in Kinds[step']
           /\ mem' \in State /\ mem'.map = mem.map /\ mem'.counted = mem.counted /\ mem'.sent = mem.sent
           /\ mem'.failed = mem.failed /\ mem'.next = mem.next /\ mem'.done = mem.done /\ mem'.rewrite = mem.rewrite
           /\ mem'.marked = IF Kind = "channel" THEN mem.marked \union {Thing} ELSE mem.marked
<1>1. Working /\ Working' /\ Kind \in Sending /\ job' = job /\ step' = (IF Kind = "channel" THEN "patch" ELSE "close")
  BY AtWork, StepKinds DEF AllSent, Working
<1>2. Kind \in Kinds[step']
  BY <1>1, StepKinds DEF Sending
<1>3. Kind = "channel" => Thing \in Channel
  BY <1>1, AtWork
<1>4. /\ mem' \in State /\ mem'.map = mem.map /\ mem'.counted = mem.counted /\ mem'.sent = mem.sent
      /\ mem'.failed = mem.failed /\ mem'.next = mem.next /\ mem'.done = mem.done /\ mem'.rewrite = mem.rewrite
      /\ mem'.marked = IF Kind = "channel" THEN mem.marked \union {Thing} ELSE mem.marked
  BY <1>3 DEF AllSent, Shapes, RunShapes, State
<1> QED  BY <1>1, <1>2, <1>4 DEF AllSent, Kind, Thing

LEMMA AllSentShapes ==
    ASSUME Shapes, AllSent PROVE Shapes'
<1>1. WorldShapes'
  BY DEF Shapes, WorldShapes, IsLists, Born, AllSent, server, files, history, bounds
<1>2. job' \in Jobs /\ Kind' \in Kinds[step'] /\ job' \notin jobs' /\ step' \in {"patch", "close"}
  <2>1. jobs' = jobs
    BY DEF AllSent
  <2> QED  BY <2>1, AllSentFacts, AtWork
<1>3. disk' \in State /\ flawed' \in BOOLEAN /\ jobs' \subseteq Jobs /\ \A x \in Item : mem'.map[x] \in 1..made'[x]
  BY AllSentFacts DEF Shapes, RunShapes, AllSent, server, files
<1>4. RunShapes'
  BY <1>2, <1>3, AllSentFacts DEF RunShapes, Steps
<1> QED  BY <1>1, <1>4 DEF Shapes

\* Saves that change no more than they say.
LEMMA CloseFacts ==
    ASSUME Shapes, Close
    PROVE  /\ step = "close" /\ Working /\ step' = "next" /\ ~Working' /\ mem' \in State
           /\ disk' = mem' \/ (disk' = disk /\ mem' = mem /\ receipts' = receipts /\ Kind = "tail")
           /\ mem'.map = mem.map /\ mem'.marked = mem.marked /\ mem'.counted = mem.counted /\ mem'.sent = mem.sent
           /\ mem'.failed = mem.failed /\ mem'.rewrite = mem.rewrite /\ mem' = Saved(mem)
           /\ mem'.next = mem.next \ mem.done /\ mem'.done = {}
           /\ receipts' = {q \in receipts : q.ref \notin mem.done} /\ receipts' \subseteq receipts
<1>1. mem \in State /\ step = "close" /\ step' = "next" /\ Working /\ ~Working'
  BY StepKinds DEF Close, Shapes, RunShapes, Working
<1>2. CASE Save(mem)
  BY <1>1, <1>2, SaveParts
<1>3. CASE mem.done = {} /\ Kind = "tail" /\ UNCHANGED <<mem, disk, receipts>>
  <2>1. mem' = Saved(mem) /\ mem'.next = mem.next \ mem.done
    BY <1>1, <1>3 DEF Saved, State
  <2>2. receipts' = {q \in receipts : q.ref \notin mem.done}
    BY <1>3
  <2>3. /\ mem' = mem /\ disk' = disk /\ receipts' = receipts /\ mem'.done = {}
    BY <1>3
  <2>4. /\ mem'.map = mem.map /\ mem'.marked = mem.marked /\ mem'.counted = mem.counted /\ mem'.sent = mem.sent
        /\ mem'.failed = mem.failed /\ mem'.rewrite = mem.rewrite /\ mem' \in State
    BY <1>1, <2>3
  <2>5. receipts' \subseteq receipts
    BY <2>3
  <2> QED  BY ONLY <1>1, <1>3, <2>1, <2>2, <2>3, <2>4, <2>5
<1> QED  BY <1>2, <1>3 DEF Close

LEMMA CloseShapes ==
    ASSUME Shapes, Close PROVE Shapes'
<1>1. receipts' \subseteq [ref : Refs, st : Statuses, emo : Nat]
  BY CloseFacts DEF Shapes, WorldShapes
<1>2. WorldShapes'
  BY <1>1 DEF Shapes, WorldShapes, IsLists, Born, Close, server, history, bounds
<1>3. RunShapes'
  BY CloseFacts DEF Shapes, RunShapes, Steps, Close, server
<1> QED  BY <1>2, <1>3 DEF Shapes

LEMMA EditFacts ==
    ASSUME Shapes, NEW s \in Source, Edit(s)
    PROVE  /\ step = "edit" /\ s \in todo /\ todo' = todo \ {s} /\ step' = "edit" /\ Working /\ Working'
           /\ job' = job /\ Kind' = Kind /\ Thing' = Thing /\ Kind \in {"emoji", "resume"} /\ Thing \in Emoji
           /\ Thing \in Item /\ mem.map[Thing] \in Nat /\ flawed' \in BOOLEAN
           /\ LET old == {p \in posts : p.ref \in mem.sent /\ p.ref.src = s}
                  new == {[p EXCEPT !.emo = mem.map[Thing]] : p \in old}
              IN  /\ posts' = posts \/ posts' = (posts \ old) \union new
                  /\ ~flawed' => posts' = (posts \ old) \union new /\ ~flawed
                  /\ \A p \in new : p \in Post /\ p.emo = mem.map[Thing] /\ p.ref \in mem.sent /\ p.ref.src = s
                  /\ \A p \in new : \E q \in old : p.ref = q.ref
                  /\ \A q \in old : \E p \in new : p.ref = q.ref
           /\ faults' \in Nat
<1>1. step = "edit" /\ s \in todo /\ todo' = todo \ {s} /\ step' = "edit" /\ Working /\ Working' /\ job' = job
  BY StepKinds DEF Edit, Working
<1>2. Kind \in {"emoji", "resume"} /\ Thing \in Emoji
  BY <1>1, AtWork, StepKinds
<1>3. Thing \in Item /\ mem.map[Thing] \in Nat
  BY <1>2, CopyBorn DEF Item
<1> DEFINE old == {p \in posts : p.ref \in mem.sent /\ p.ref.src = s}
           new == {[p EXCEPT !.emo = mem.map[Thing]] : p \in old}
<1>4. \/ posts' = (posts \ old) \union new /\ faults' = faults /\ flawed' = flawed
      \/ posts' = posts /\ faults' = faults /\ flawed' = TRUE
      \/ faults' = faults + 1 /\ flawed' = TRUE /\ posts' \in {posts, (posts \ old) \union new}
  BY DEF Edit, NoFault, Fault
<1>5. \A q \in old : [q EXCEPT !.emo = mem.map[Thing]] \in Post /\ [q EXCEPT !.emo = mem.map[Thing]].ref = q.ref
                     /\ [q EXCEPT !.emo = mem.map[Thing]].emo = mem.map[Thing]
  BY <1>3 DEF Shapes, WorldShapes, Post
<1>6. /\ \A p \in new : p \in Post /\ p.emo = mem.map[Thing] /\ p.ref \in mem.sent /\ p.ref.src = s
      /\ \A p \in new : \E q \in old : p.ref = q.ref
      /\ \A q \in old : \E p \in new : p.ref = q.ref
  <2>1. ASSUME NEW p \in new
        PROVE  /\ p \in Post /\ p.emo = mem.map[Thing] /\ p.ref \in mem.sent /\ p.ref.src = s
               /\ \E q \in old : p.ref = q.ref
    <3>1. PICK q \in old : p = [q EXCEPT !.emo = mem.map[Thing]]
      BY <2>1
    <3>2. p \in Post /\ p.ref = q.ref /\ p.emo = mem.map[Thing]
      BY <1>5, <3>1
    <3> QED  BY <3>2
  <2>2. ASSUME NEW q \in old
        PROVE  \E p \in new : p.ref = q.ref
    <3>1. [q EXCEPT !.emo = mem.map[Thing]] \in new
      OBVIOUS
    <3> QED  BY <1>5, <3>1
  <2> HIDE DEF old, new
  <2> QED  BY <2>1, <2>2
<1>7. /\ posts' = posts \/ posts' = (posts \ old) \union new
      /\ ~flawed' => posts' = (posts \ old) \union new /\ ~flawed
      /\ flawed' \in BOOLEAN
  <2> HIDE DEF old, new
  <2>1. flawed \in BOOLEAN
    BY DEF Shapes, RunShapes
  <2>2. CASE posts' = (posts \ old) \union new /\ flawed' = flawed
    BY <2>1, <2>2
  <2>3. CASE flawed' = TRUE /\ posts' \in {posts, (posts \ old) \union new}
    <3>1. flawed'
      BY <2>3
    <3> QED  BY <2>3, <3>1
  <2> QED  BY <1>4, <2>2, <2>3
<1>8. faults' \in Nat
  <2>1. faults \in Nat
    BY DEF Shapes, WorldShapes
  <2> QED  BY <1>4, <2>1
<1>9. Kind' = Kind /\ Thing' = Thing
  BY <1>1 DEF Kind, Thing
<1> QED  BY <1>1, <1>2, <1>3, <1>6, <1>7, <1>8, <1>9

LEMMA EditShapes ==
    ASSUME Shapes, NEW s \in Source, Edit(s) PROVE Shapes'
<1>1. posts' \subseteq [ref : Refs, emo : Nat]
  <2>1. posts \subseteq Post
    BY DEF Shapes, WorldShapes, Post
  <2> QED  BY <2>1, EditFacts DEF Post
<1>2. {runs, losses, faults, deaths}' \subseteq Nat
  BY EditFacts DEF Shapes, WorldShapes, Edit
<1>3. WorldShapes'
  BY <1>1, <1>2 DEF Shapes, WorldShapes, IsLists, Born, Edit, files, history
<1>4. job' \in Jobs /\ Kind' \in Kinds[step'] /\ job' \notin jobs' /\ todo' \subseteq Source /\ jobs' \subseteq Jobs
  <2>1. jobs' = jobs /\ todo \subseteq Source
    BY EditFacts DEF Edit, Shapes, RunShapes
  <2> QED  BY <2>1, EditFacts, AtWork DEF Shapes, RunShapes
<1>5. RunShapes'
  BY <1>4, EditFacts DEF Shapes, RunShapes, Steps, Edit, files
<1> QED  BY <1>3, <1>5 DEF Shapes

LEMMA EndEditsFacts ==
    ASSUME Shapes, EndEdits
    PROVE  /\ step = "edit" /\ todo = {} /\ Working /\ step' = "next" /\ ~Working' /\ Kind \in {"emoji", "resume"}
           /\ Thing \in Emoji /\ mem' \in State
           /\ \/ flawed /\ UNCHANGED <<mem, disk, receipts>>
              \/ /\ ~flawed
                 /\ disk' = mem'
                 /\ mem'.map = mem.map /\ mem'.marked = mem.marked /\ mem'.counted = mem.counted
                 /\ mem'.sent = mem.sent /\ mem'.failed = mem.failed /\ mem'.rewrite = mem.rewrite \ {Thing}
                 /\ mem'.next = mem.next \ mem.done /\ mem'.done = {}
                 /\ receipts' = {q \in receipts : q.ref \notin mem.done} /\ receipts' \subseteq receipts
<1>1. step = "edit" /\ todo = {} /\ Working /\ step' = "next" /\ ~Working' /\ Kind \in {"emoji", "resume"} /\ Thing \in Emoji
  <2>1. step = "edit" /\ todo = {} /\ Working /\ step' = "next" /\ ~Working'
    BY StepKinds DEF EndEdits, Working
  <2> QED  BY <2>1, AtWork, StepKinds
<1>2. mem \in State
  BY DEF Shapes, RunShapes
<1>3. CASE flawed
  BY <1>1, <1>2, <1>3 DEF EndEdits, ForgetIfDone
<1>4. CASE ~flawed
  <2>1. PICK m : m = [mem EXCEPT !.rewrite = @ \ {Thing}]
    OBVIOUS
  <2>2. /\ m \in State /\ m.map = mem.map /\ m.marked = mem.marked /\ m.counted = mem.counted
        /\ m.sent = mem.sent /\ m.failed = mem.failed /\ m.rewrite = mem.rewrite \ {Thing}
        /\ m.next = mem.next /\ m.done = mem.done
    BY <1>2, <2>1 DEF State
  <2>3. Save(m)
    BY <1>4, <2>1 DEF EndEdits, ForgetIfDone, ForgetRewrite
  <2>4. /\ mem' = Saved(m) /\ disk' = Saved(m) /\ mem' \in State
        /\ mem'.map = m.map /\ mem'.marked = m.marked /\ mem'.counted = m.counted /\ mem'.sent = m.sent
        /\ mem'.failed = m.failed /\ mem'.rewrite = m.rewrite
        /\ mem'.next = m.next \ m.done /\ mem'.done = {}
        /\ receipts' = {q \in receipts : q.ref \notin m.done} /\ receipts' \subseteq receipts
    BY <2>2, <2>3, SaveParts
  <2> QED  BY <1>1, <1>4, <2>2, <2>4
<1> QED  BY <1>3, <1>4

LEMMA EndEditsShapes ==
    ASSUME Shapes, EndEdits PROVE Shapes'
<1>1. receipts' \subseteq [ref : Refs, st : Statuses, emo : Nat]
  BY EndEditsFacts DEF Shapes, WorldShapes
<1>2. WorldShapes'
  BY <1>1 DEF Shapes, WorldShapes, IsLists, Born, EndEdits, server, history, bounds
<1>3. disk' \in State /\ \A x \in Item : mem'.map[x] \in 1..made'[x]
  BY EndEditsFacts DEF Shapes, RunShapes, EndEdits, server
<1>4. RunShapes'
  BY <1>3, EndEditsFacts DEF Shapes, RunShapes, Steps, EndEdits
<1> QED  BY <1>2, <1>4 DEF Shapes

\* The retry of a recorded failure: skipped, or an attempt.
LEMMA RetryFacts ==
    ASSUME Shapes, OneInv, NEW r, RetryOne(r)
    PROVE  /\ step = "retry" /\ step' = "retry" /\ ~Working /\ ~Working' /\ r \in todo /\ todo' = todo \ {r} /\ r \in Refs
           /\ disk' = disk /\ uuid' = uuid /\ mem' \in State /\ mem'.map = mem.map /\ faults' \in Nat
           /\ mem'.failed = mem.failed /\ mem'.next = mem.next /\ mem'.marked = mem.marked /\ mem'.rewrite = mem.rewrite
           /\ \/ UNCHANGED <<posts, receipts, mem, resolved, faults>>
              \/ \E o \in Sends \union Breaks \union Settled(r, Shown(mem, r.src)) :
                   /\ Pending(r) /\ Deliver(r, o)
                   /\ mem' = IF o.ok THEN Delivered(mem, r) ELSE mem
                   /\ resolved' = IF o.ok THEN resolved \union {Logical(r)} ELSE resolved
                   /\ o.ok => /\ mem'.done = mem.done \union {r}
                              /\ mem'.sent = {q \in mem.sent : q.src # r.src} \union {r}
                              /\ mem'.counted = mem.counted \union ({r.src[1]} \intersect Channel)
<1>1. /\ step = "retry" /\ step' = "retry" /\ ~Working /\ ~Working' /\ r \in todo /\ todo' = todo \ {r} /\ r \in Refs
      /\ disk' = disk /\ uuid' = uuid /\ mem \in State /\ faults \in Nat
  BY StepKinds DEF RetryOne, Working, Shapes, RunShapes, WorldShapes
<1>2. CASE Logical(r) \in resolved \/ ~Retriable(r)
  BY <1>1, <1>2 DEF RetryOne
<1>3. CASE Logical(r) \notin resolved /\ Retriable(r)
  <2>1. PICK o \in Sends \union Breaks \union Settled(r, Shown(mem, r.src)) :
              /\ Deliver(r, o)
              /\ mem' = IF o.ok THEN Delivered(mem, r) ELSE mem
              /\ resolved' = IF o.ok THEN resolved \union {Logical(r)} ELSE resolved
    BY <1>3 DEF RetryOne
  <2>2. Pending(r)
    BY <1>1, <1>3 DEF Pending
  <2>3. faults' \in Nat
    BY <2>1, <2>2, AttemptShapes
  <2>4. o.ok => /\ mem' \in State /\ mem'.map = mem.map /\ mem'.done = mem.done \union {r}
                /\ mem'.sent = {q \in mem.sent : q.src # r.src} \union {r}
                /\ mem'.counted = mem.counted \union ({r.src[1]} \intersect Channel)
                /\ mem'.failed = mem.failed /\ mem'.next = mem.next /\ mem'.marked = mem.marked
                /\ mem'.rewrite = mem.rewrite
    BY <1>1, <2>1, DeliveredFields
  <2>5. ~o.ok => mem' = mem
    BY <2>1
  <2>6. mem' \in State /\ mem'.map = mem.map /\ mem'.failed = mem.failed /\ mem'.next = mem.next
        /\ mem'.marked = mem.marked /\ mem'.rewrite = mem.rewrite
    BY <1>1, <2>4, <2>5
  <2> QED  BY <1>1, <2>1, <2>2, <2>3, <2>4, <2>6
<1> QED  BY <1>2, <1>3

LEMMA RetryShapes ==
    ASSUME Shapes, OneInv, NEW r, RetryOne(r) PROVE Shapes'
<1>1. /\ posts' \subseteq [ref : Refs, emo : Nat] /\ receipts' \subseteq [ref : Refs, st : Statuses, emo : Nat]
  <2>1. CASE UNCHANGED <<posts, receipts, mem, resolved, faults>>
    BY <2>1 DEF Shapes, WorldShapes
  <2>2. CASE \E o \in Sends \union Breaks \union Settled(r, Shown(mem, r.src)) : Pending(r) /\ Deliver(r, o)
    BY <2>2, AttemptShapes
  <2> QED  BY <2>1, <2>2, RetryFacts
<1>2. {runs, losses, faults, deaths}' \subseteq Nat
  BY RetryFacts DEF Shapes, WorldShapes, RetryOne
<1>3. WorldShapes'
  BY <1>1, <1>2 DEF Shapes, WorldShapes, IsLists, Born, RetryOne, history
<1>4. RunShapes'
  BY RetryFacts DEF Shapes, RunShapes, Steps, RetryOne
<1> QED  BY <1>3, <1>4 DEF Shapes

LEMMA EndRetryFacts ==
    ASSUME Shapes, EndRetry
    PROVE  /\ step = "retry" /\ todo = {} /\ ~Working /\ step' = "finish" /\ ~Working' /\ disk' = mem' /\ mem' \in State
           /\ mem'.map = mem.map /\ mem'.marked = mem.marked /\ mem'.counted = mem.counted /\ mem'.sent = mem.sent
           /\ mem'.failed = {r \in mem.failed : Logical(r) \notin resolved} /\ mem'.rewrite = mem.rewrite
           /\ mem'.next = mem.next \ mem.done /\ mem'.done = {}
           /\ receipts' = {q \in receipts : q.ref \notin mem.done} /\ receipts' \subseteq receipts
<1>1. mem \in State
  BY DEF Shapes, RunShapes
<1>2. PICK m : m = [mem EXCEPT !.failed = {r \in @ : Logical(r) \notin resolved}]
  OBVIOUS
<1>3. /\ m \in State /\ m.map = mem.map /\ m.marked = mem.marked /\ m.counted = mem.counted
      /\ m.sent = mem.sent /\ m.failed = {r \in mem.failed : Logical(r) \notin resolved} /\ m.rewrite = mem.rewrite
      /\ m.next = mem.next /\ m.done = mem.done
  BY <1>1, <1>2 DEF State
<1>4. Save(m)
  BY <1>2 DEF EndRetry
<1>5. /\ mem' = Saved(m) /\ disk' = Saved(m) /\ mem' \in State
      /\ mem'.map = m.map /\ mem'.marked = m.marked /\ mem'.counted = m.counted /\ mem'.sent = m.sent
      /\ mem'.failed = m.failed /\ mem'.rewrite = m.rewrite
      /\ mem'.next = m.next \ m.done /\ mem'.done = {}
      /\ receipts' = {q \in receipts : q.ref \notin m.done} /\ receipts' \subseteq receipts
  BY <1>3, <1>4, SaveParts
<1> QED  BY <1>3, <1>5, StepKinds DEF EndRetry, Working

LEMMA EndRetryShapes ==
    ASSUME Shapes, EndRetry PROVE Shapes'
<1>1. receipts' \subseteq [ref : Refs, st : Statuses, emo : Nat]
  BY EndRetryFacts DEF Shapes, WorldShapes
<1>2. WorldShapes'
  BY <1>1 DEF Shapes, WorldShapes, IsLists, Born, EndRetry, server, history, bounds
<1>3. RunShapes'
  BY EndRetryFacts DEF Shapes, RunShapes, Steps, EndRetry, server
<1> QED  BY <1>2, <1>3 DEF Shapes

-----------------------------------------------------------------------------
(* The ways a repair is over.                                              *)

Halt == Finish \/ Stop \/ Refuse \/ Die

\* Posts and receipts when it is cut short: as they are, or with the delivery in flight.
CutOff(Q, S) ==
    \/ Q = posts /\ S = receipts
    \/ \E r : /\ Pending(r) /\ Unsent(r) /\ S = Replaced(r, "unsure")
              /\ Q = posts \/ Q = posts \union {Fresh(r)}

LEMMA InFlightPending ==
    ASSUME NEW r \in InFlight PROVE Pending(r)
BY DEF InFlight, Pending

LEMMA CutOffFacts ==
    ASSUME Shapes, OneInv, NEW Q, NEW S, CutOff(Q, S)
    PROVE  /\ Q \in SUBSET Post /\ S \in SUBSET Rcpt
           /\ Deliveries(Q, S, mem) /\ Deliveries(Q, S, disk)
           /\ posts \subseteq Q
<1>0. /\ posts \in SUBSET Post /\ receipts \in SUBSET Rcpt /\ mem \in State /\ disk \in State
      /\ Deliveries(posts, receipts, mem) /\ Deliveries(posts, receipts, disk)
  BY DEF Shapes, WorldShapes, RunShapes, Post, Rcpt, OneInv
<1>1. CASE Q = posts /\ S = receipts
  BY <1>0, <1>1
<1>2. CASE \E r : /\ Pending(r) /\ Unsent(r) /\ S = Replaced(r, "unsure")
                  /\ Q = posts \/ Q = posts \union {Fresh(r)}
  <2>1. PICK r : /\ Pending(r) /\ Unsent(r) /\ S = Replaced(r, "unsure")
                 /\ Q = posts \/ Q = posts \union {Fresh(r)}
    BY <1>2
  <2>2. /\ Attempt(posts, receipts, Q, S, r) /\ Q \subseteq Post /\ S \subseteq Rcpt
    BY <2>1, FirstAttempt DEF Statuses
  <2>3. r \in Refs /\ Attempted(receipts, mem, r) /\ Attempted(receipts, disk, r)
    BY <2>1, MayAttempt
  <2>4. Deliveries(Q, S, mem) /\ Deliveries(Q, S, disk)
    BY <1>0, <2>2, <2>3, AttemptDeliveries
  <2> QED  BY <2>2, <2>4 DEF Attempt
<1> QED  BY <1>1, <1>2 DEF CutOff

LEMMA HaltFacts ==
    ASSUME Shapes, OneInv, Halt
    PROVE  /\ step' = "idle" /\ jobs' = {} /\ todo' = {} /\ flawed' = FALSE /\ resolved' = {} /\ fresh' = {}
           /\ view' = lists /\ unfinished' = unfinished \union fresh /\ ~Working'
           /\ UNCHANGED <<lists, dressed, uuid, removed, runs, losses>>
           /\ \/ UNCHANGED <<made, alive>>
              \/ step = "make" /\ Working /\ Kind \in Creating /\ Thing \in Item /\ MakeCopy(Thing) /\ faults' = faults + 1
           /\ faults' \in {faults, faults + 1} /\ deaths' \in {deaths, deaths + 1}
           /\ faults' \in Nat /\ deaths' \in Nat
           /\ step = "made" => deaths' = deaths + 1
           /\ \E Q, S : /\ CutOff(Q, S) /\ posts' = Q
                        /\ \/ /\ mem' = Saved(mem) /\ disk' = Saved(mem)
                              /\ receipts' = {q \in S : q.ref \notin mem.done}
                           \/ mem' = disk /\ disk' = disk /\ receipts' = S /\ deaths' = deaths + 1
<1>0. faults \in Nat /\ deaths \in Nat /\ mem \in State
  BY DEF Shapes, WorldShapes, RunShapes
<1>1. CutOff(posts, receipts)
  BY DEF CutOff
<1>2. CASE Finish
  <2>1. /\ step = "finish" /\ Save(mem) /\ Ends /\ UNCHANGED <<made, alive, lists, dressed, posts, uuid, removed>>
        /\ UNCHANGED <<runs, losses, faults, deaths>>
    BY <1>2 DEF Finish, server, bounds
  <2>2. ~Working'
    BY <2>1, StepKinds DEF Ends, Working
  <2> QED  BY <1>0, <1>1, <2>1, <2>2 DEF Ends, Save
<1>3. CASE Stop
  <2>1. /\ step # "made" /\ faults' = faults + 1 /\ Ends
        /\ mem' = Saved(mem) /\ disk' = Saved(mem)
        /\ UNCHANGED <<lists, dressed, uuid, removed, runs, losses, deaths>>
        /\ (step = "make" /\ Kind \in {"role", "channel", "index"} /\ MakeCopy(Thing)) \/ UNCHANGED <<made, alive>>
        /\ \/ UNCHANGED posts /\ receipts' = {q \in receipts : q.ref \notin mem.done}
           \/ \E r \in InFlight : CutShort(r) /\ receipts' = {q \in Marked(r) : q.ref \notin mem.done}
    BY <1>3 DEF Stop, Fault
  <2>2. ~Working'
    BY <2>1, StepKinds DEF Ends, Working
  <2>3. step = "make" /\ Kind \in {"role", "channel", "index"} => Working /\ Kind \in Creating /\ Thing \in Item
    BY AtWork, StepKinds DEF Working, Creating
  <2>4. \E Q, S : CutOff(Q, S) /\ posts' = Q /\ receipts' = {q \in S : q.ref \notin mem.done}
    <3>1. CASE UNCHANGED posts /\ receipts' = {q \in receipts : q.ref \notin mem.done}
      BY <1>1, <3>1
    <3>2. CASE \E r \in InFlight : CutShort(r) /\ receipts' = {q \in Marked(r) : q.ref \notin mem.done}
      <4>1. PICK r \in InFlight : CutShort(r) /\ receipts' = {q \in Marked(r) : q.ref \notin mem.done}
        BY <3>2
      <4>2. Marked(r) = Replaced(r, "unsure")
        BY DEF Marked, Replaced
      <4>3. Unsent(r) /\ (posts' = posts \/ posts' = posts \union {Fresh(r)})
        BY <4>1 DEF CutShort, Fresh
      <4>4. Pending(r)
        BY <4>1, InFlightPending
      <4>5. PICK Q : Q = posts'
        OBVIOUS
      <4>6. CutOff(Q, Replaced(r, "unsure"))
        BY <4>3, <4>4, <4>5 DEF CutOff
      <4> QED  BY <4>1, <4>2, <4>5, <4>6
    <3> QED  BY <2>1, <3>1, <3>2
  <2> QED  BY <1>0, <2>1, <2>2, <2>3, <2>4 DEF Ends
<1>4. CASE Refuse
  <2>1. /\ step = "send" /\ Ends /\ UNCHANGED <<made, alive, lists, dressed, posts, uuid, removed>>
        /\ UNCHANGED <<runs, losses, faults, deaths>> /\ mem' = Saved(mem) /\ disk' = Saved(mem)
    BY <1>4 DEF Refuse, server, bounds
  <2>2. PICK r \in Begun(Here) : ~Admitted(r) /\ receipts' = {q \in Marked(r) : q.ref \notin mem.done}
    BY <1>4 DEF Refuse
  <2>3. ~Working'
    BY <2>1, StepKinds DEF Ends, Working
  <2>4. CutOff(posts, Replaced(r, "unsure")) /\ Marked(r) = Replaced(r, "unsure")
    BY <2>1, <2>2 DEF CutOff, Admitted, Pending, Marked, Replaced
  <2> QED  BY <1>0, <2>1, <2>2, <2>3, <2>4 DEF Ends
<1>5. CASE Die
  <2>1. /\ deaths' = deaths + 1 /\ Ends /\ mem' = disk
        /\ UNCHANGED <<made, alive, lists, dressed, uuid, disk, removed, runs, losses, faults>>
        /\ \/ UNCHANGED <<posts, receipts>>
           \/ \E r \in InFlight : CutShort(r) /\ receipts' = Marked(r)
    BY <1>5 DEF Die
  <2>2. ~Working'
    BY <2>1, StepKinds DEF Ends, Working
  <2>3. \E Q, S : CutOff(Q, S) /\ posts' = Q /\ receipts' = S
    <3>1. CASE UNCHANGED <<posts, receipts>>
      BY <1>1, <3>1
    <3>2. CASE \E r \in InFlight : CutShort(r) /\ receipts' = Marked(r)
      <4>1. PICK r \in InFlight : CutShort(r) /\ receipts' = Marked(r)
        BY <3>2
      <4>2. Marked(r) = Replaced(r, "unsure")
        BY DEF Marked, Replaced
      <4>3. Unsent(r) /\ (posts' = posts \/ posts' = posts \union {Fresh(r)})
        BY <4>1 DEF CutShort, Fresh
      <4>4. Pending(r)
        BY <4>1, InFlightPending
      <4>5. PICK Q : Q = posts'
        OBVIOUS
      <4>6. CutOff(Q, Replaced(r, "unsure"))
        BY <4>3, <4>4, <4>5 DEF CutOff
      <4> QED  BY <4>1, <4>2, <4>5, <4>6
    <3> QED  BY <2>1, <3>1, <3>2
  <2> QED  BY <1>0, <2>1, <2>2, <2>3 DEF Ends
<1> QED  BY <1>2, <1>3, <1>4, <1>5 DEF Halt

LEMMA HaltShapes ==
    ASSUME Shapes, OneInv, Halt PROVE Shapes'
<1>1. PICK Q, S : /\ CutOff(Q, S) /\ posts' = Q
                  /\ \/ /\ mem' = Saved(mem) /\ disk' = Saved(mem)
                        /\ receipts' = {q \in S : q.ref \notin mem.done}
                     \/ mem' = disk /\ disk' = disk /\ receipts' = S
  BY HaltFacts
<1>2. Q \in SUBSET Post /\ S \in SUBSET Rcpt
  BY <1>1, CutOffFacts
<1>3. /\ made' \in [Item -> Nat \ {0}] /\ Born \subseteq Born' /\ alive' \subseteq Born'
      /\ \A y \in Item : mem.map[y] \in 1..made'[y]
  <2>1. CASE UNCHANGED <<made, alive>>
    BY <2>1 DEF Shapes, WorldShapes, RunShapes, Born
  <2>2. CASE Thing \in Item /\ MakeCopy(Thing)
    BY <2>2, BornGrows
  <2> QED  BY <2>1, <2>2, HaltFacts
<1>4. fresh' \subseteq Born' /\ dressed' \subseteq Born' /\ unfinished' \subseteq Born'
  BY <1>3, HaltFacts DEF Shapes, WorldShapes
<1>5. IsLists(lists)' /\ IsLists(view)'
  BY <1>3, HaltFacts DEF Shapes, WorldShapes, IsLists
<1>6. {runs, losses, faults, deaths}' \subseteq Nat
  BY HaltFacts DEF Shapes, WorldShapes
<1>7. posts' \subseteq [ref : Refs, emo : Nat] /\ receipts' \subseteq [ref : Refs, st : Statuses, emo : Nat]
  BY <1>1, <1>2 DEF Post, Rcpt
<1>8. WorldShapes'
  BY <1>3, <1>4, <1>5, <1>6, <1>7, HaltFacts DEF Shapes, WorldShapes
<1>9. mem' \in State /\ disk' \in State /\ mem'.map = mem.map
  <2>1. mem \in State /\ disk \in State /\ disk.map = mem.map
    BY DEF Shapes, RunShapes, OneInv, Synced
  <2> QED  BY <1>1, <2>1, SavedFields
<1>10. RunShapes'
  BY <1>3, <1>9, HaltFacts DEF RunShapes, Steps
<1> QED  BY <1>8, <1>10 DEF Shapes

\* What people take away.
LEMMA PeopleFacts ==
    ASSUME Shapes, People
    PROVE  /\ step = "idle" /\ step' = "idle" /\ ~Working /\ ~Working' /\ jobs' = jobs /\ jobs = {} /\ jobs' = {}
           /\ UNCHANGED <<made, files, mem, work, unfinished, runs, faults, deaths, job, todo>> /\ losses' = losses + 1
           /\ alive' \subseteq alive /\ dressed' \subseteq dressed /\ posts' \subseteq posts
           /\ DOMAIN lists' \subseteq DOMAIN lists /\ \A k \in DOMAIN lists' : lists'[k] = lists[k]
           /\ \/ \E x \in Item : LoseItem(x)
              \/ \E k \in Category : LoseCategory(k)
              \/ \E p \in posts : LosePost(p)
<1>1. CASE \E x \in Item : LoseItem(x)
  BY <1>1, StepKinds DEF LoseItem, Losing, work, history, Working, Shapes, RunShapes
<1>2. CASE \E k \in Category : LoseCategory(k)
  BY <1>2, StepKinds DEF LoseCategory, Losing, work, history, Working, Shapes, RunShapes, Restrict
<1>3. CASE \E p \in posts : LosePost(p)
  BY <1>3, StepKinds DEF LosePost, Losing, work, Working, Shapes, RunShapes
<1> QED  BY <1>1, <1>2, <1>3 DEF People

LEMMA PeopleShapes ==
    ASSUME Shapes, People PROVE Shapes'
<1>1. {runs, losses, faults, deaths}' \subseteq Nat
  BY PeopleFacts DEF Shapes, WorldShapes
<1>2. IsLists(lists)' /\ IsLists(view)'
  BY PeopleFacts DEF Shapes, WorldShapes, IsLists, Born, work
<1>3. WorldShapes'
  BY <1>1, <1>2, PeopleFacts DEF Shapes, WorldShapes, Born, files, work
<1>4. RunShapes'
  BY PeopleFacts DEF Shapes, RunShapes, files, work
<1> QED  BY <1>3, <1>4 DEF Shapes

-----------------------------------------------------------------------------
(* One post of a message in a copy of its channel.                         *)

\* What every proof below needs of the state.
LEMMA Basics ==
    ASSUME Shapes, OneInv
    PROVE  /\ posts \in SUBSET Post /\ receipts \in SUBSET Rcpt /\ mem \in State /\ disk \in State
           /\ disk.map = mem.map /\ disk.next = mem.next /\ disk.rewrite = mem.rewrite /\ disk.done = {}
           /\ Deliveries(posts, receipts, mem) /\ Deliveries(posts, receipts, disk)
           /\ \A x \in Item : mem.map[x] \in Nat
           /\ jobs \subseteq Jobs
BY DEF Shapes, WorldShapes, RunShapes, Post, Rcpt, OneInv, Synced, State

\* What is ahead is a message of a channel or an index.
LEMMA AheadThings ==
    ASSUME Shapes, NEW s \in Ahead
    PROVE  /\ s \in Source
           /\ \/ s \in UnderWay /\ Working /\ Kind \in Sending /\ s[1] = Thing
              \/ \E j \in jobs : j[1] \in {"tail", "rebuild"} /\ s[1] = j[2]
<1>1. CASE s \in UnderWay
  <2>1. CASE step \in {"replace", "send"}
    <3>1. Working /\ Kind \in Sending /\ todo \subseteq Text(Thing) /\ s \in todo
      BY <1>1, <2>1, StepKinds DEF UnderWay, Shapes, RunShapes, Working
    <3> QED  BY <1>1, <3>1, AtWork, Things
  <2>2. CASE step \notin {"replace", "send"}
    <3>1. /\ step \in {"dress", "clear", "patch"} /\ s \in Text(Thing)
          /\ Kind \in {"index", "rebuild"} \/ <<step, Kind>> = <<"dress", "channel">>
      BY <1>1, <2>2 DEF UnderWay
    <3>2. Working /\ Kind \in Sending
      BY <3>1, StepKinds DEF Working, Sending
    <3> QED  BY <1>1, <3>1, <3>2, AtWork, Things
  <2> QED  BY <2>1, <2>2
<1>2. CASE \E j \in jobs : j[1] = "tail" /\ s = Last(j[2])
  <2>1. PICK j \in jobs : j[1] = "tail" /\ s = Last(j[2])
    BY <1>2
  <2>2. j[2] \in Channel
    BY <2>1, JobThing DEF Shapes, RunShapes
  <2> QED  BY <2>1, <2>2, Things
<1>3. CASE \E j \in jobs : j[1] = "rebuild" /\ s = <<j[2], 0>>
  <2>1. PICK j \in jobs : j[1] = "rebuild" /\ s = <<j[2], 0>>
    BY <1>3
  <2>2. j[2] \in Index
    BY <2>1, JobThing DEF Shapes, RunShapes
  <2> QED  BY <2>1, <2>2, Things
<1> QED  BY <1>1, <1>2, <1>3 DEF Ahead

\* What is ahead stays clear while nothing new comes and nothing begun there is retired.
LEMMA AheadKept ==
    ASSUME AheadClear, Ahead' \subseteq Ahead,
           \A s \in Ahead' : mem'.map[s[1]] = mem.map[s[1]],
           \A x \in posts' \union receipts' : x.ref.src \in Ahead' =>
               \E y \in posts \union receipts : y.ref = x.ref,
           \A r \in mem.next : r.src \in Ahead' => r \in mem'.next
    PROVE  AheadClear'
<1> SUFFICES ASSUME NEW s \in Ahead', NEW x \in posts' \union receipts', Logical(x.ref) = <<s, mem'.map[s[1]]>>
             PROVE  x.ref \in mem'.next
  BY DEF AheadClear
<1>1. x.ref.src = s
  BY DEF Logical
<1>2. PICK y \in posts \union receipts : y.ref = x.ref
  BY <1>1
<1>3. y.ref \in mem.next
  BY <1>2 DEF AheadClear
<1> QED  BY <1>1, <1>2, <1>3

\* Fewer jobs, and the same work.
LEMMA JobsKept ==
    ASSUME JobsApart, jobs' \subseteq jobs,
           Working' /\ Kind' \in Sending => Working /\ Kind' = Kind /\ Thing' = Thing
    PROVE  JobsApart'
BY DEF JobsApart

\* A step that leaves messages and records alone.
LEMMA SameDeliveries ==
    ASSUME OneInv, UNCHANGED <<posts, receipts, mem, disk>>
    PROVE  Deliveries(posts, receipts, mem)' /\ Deliveries(posts, receipts, disk)'
BY DEF OneInv

LEMMA SameSynced ==
    ASSUME OneInv, UNCHANGED <<mem, disk>>, step' \notin {"idle", "classify"}
    PROVE  Synced'
BY DEF OneInv, Synced

LEMMA CheckOne ==
    ASSUME Shapes, OneInv, Check PROVE OneInv'
<1>1. /\ UNCHANGED <<posts, receipts, mem, disk>> /\ step = "idle" /\ step' = "classify" /\ jobs' = jobs /\ jobs = {}
      /\ mem = disk
  BY DEF Check, OneInv, Synced, server, files, Shapes, RunShapes
<1>2. ~Working'
  BY <1>1, StepKinds DEF Working
<1>3. Synced'
  BY <1>1 DEF OneInv, Synced
<1>4. DoneInv' /\ JobsApart'
  BY <1>1, <1>2 DEF OneInv, DoneInv, JobsApart
<1>5. Ahead' = {}
  BY <1>1 DEF Ahead, UnderWay
<1>6. AheadClear'
  BY <1>5 DEF AheadClear
<1> QED  BY <1>1, <1>3, <1>4, <1>6, SameDeliveries DEF OneInv

\* Where the last message or the forum index is not found, nothing of it stands.
LEMMA AbsentClear ==
    ASSUME Shapes, OneInv, step = "classify", NEW x \in Channel \union Index, TailAbsent(x),
           NEW s, s = IF x \in Channel THEN Last(x) ELSE <<x, 0>>,
           NEW z \in posts \union receipts, Logical(z.ref) = <<s, mem.map[x]>>
    PROVE  z.ref \in mem.next
<1>1. /\ s \in Source /\ s[1] = x /\ z.ref \in Refs /\ z.ref.src = s /\ z.ref.copy = mem.map[x]
      /\ Mapped(z.ref, mem) /\ mem.done = {}
  BY Basics, Things DEF Logical, Mapped, Post, Rcpt, OneInv, DoneInv
<1>2. PICK e \in mem.sent : e.src = s /\ (x \in Channel => x \in mem.marked)
  BY Things DEF TailAbsent, Expected
<1>3. ASSUME NEW q \in receipts, q.ref = z.ref
      PROVE  q.ref \in mem.next
  BY <1>1, <1>2, <1>3, Basics DEF Deliveries, Owed
<1>4. CASE z \in posts
  <2>1. z.ref \in Window(x)
    BY <1>1, <1>4 DEF Window
  <2>2. z.ref \notin mem.sent
    BY <1>1, <1>2, <2>1 DEF TailAbsent, Expected
  <2>3. PICK q \in receipts : q.ref = z.ref
    BY <1>1, <1>4, <2>2, Basics DEF Deliveries, Backed, Receipted
  <2> QED  BY <1>3, <2>3
<1> QED  BY <1>3, <1>4

LEMMA ClassifyOne ==
    ASSUME Shapes, OneInv, Classify PROVE OneInv'
<1>1. /\ UNCHANGED <<posts, receipts, mem, disk>> /\ step = "classify" /\ step' = "prepare" /\ jobs' = Found
  BY DEF Classify, server, files
<1>2. ~Working' /\ Synced'
  BY <1>1, StepKinds, SameSynced DEF Working
<1>3. DoneInv'
  BY <1>1 DEF OneInv, DoneInv
<1>4. JobsApart'
  <2>1. \A j \in Found : j[1] \in Sending =>
          /\ j[1] \in {"channel", "tail"} => j[2] \in Channel
          /\ j[1] \in {"index", "rebuild"} => j[2] \in Index
          /\ j[1] \in {"channel", "index"} <=> Copy(j[2]) \notin alive
          /\ j = <<j[1], j[2]>>
    BY DEF Found, Sending, Missing, TailAbsent
  <2> QED  BY <1>1, <1>2, <2>1, RepairAssumption DEF JobsApart, Sending
<1>5. ASSUME NEW s \in Ahead', NEW z \in posts \union receipts, Logical(z.ref) = <<s, mem.map[s[1]]>>
      PROVE  z.ref \in mem.next
  <2>1. UnderWay' = {}
    BY <1>1 DEF UnderWay
  <2>2. CASE \E j \in Found : j[1] = "tail" /\ s = Last(j[2])
    <3>1. PICK j \in Found : j[1] = "tail" /\ s = Last(j[2])
      BY <2>2
    <3>2. PICK x : x = j[2] /\ x \in Channel /\ TailAbsent(x)
      BY <3>1 DEF Found
    <3>3. s = Last(x) /\ s[1] = x
      BY <3>1, <3>2, Things
    <3> QED  BY <1>1, <1>5, <3>2, <3>3, AbsentClear
  <2>3. CASE \E j \in Found : j[1] = "rebuild" /\ s = <<j[2], 0>>
    <3>1. PICK j \in Found : j[1] = "rebuild" /\ s = <<j[2], 0>>
      BY <2>3
    <3>2. PICK x : x = j[2] /\ x \in Index /\ TailAbsent(x)
      BY <3>1 DEF Found
    <3>3. s = <<x, 0>> /\ s[1] = x /\ x \notin Channel
      BY <3>1, <3>2, Things
    <3> QED  BY <1>1, <1>5, <3>2, <3>3, AbsentClear
  <2> QED  BY <1>1, <1>5, <2>1, <2>2, <2>3 DEF Ahead
<1>6. AheadClear'
  BY <1>1, <1>5 DEF AheadClear
<1> QED  BY <1>1, <1>2, <1>3, <1>4, <1>6, SameDeliveries DEF OneInv

\* A step that leaves messages and records alone and takes nothing up.
LEMMA QuietOne ==
    ASSUME Shapes, OneInv, UNCHANGED <<posts, receipts, mem, disk>>,
           step' \notin {"idle", "classify"}, DoneInv', JobsApart', Ahead' \subseteq Ahead,
           step' = "made" => mem.map[Thing'] < made'[Thing']
    PROVE  OneInv'
<1>1. AheadClear'
  BY AheadKept DEF OneInv
<1> QED  BY <1>1, SameDeliveries, SameSynced DEF OneInv

LEMMA PrepareOne ==
    ASSUME Shapes, OneInv, Prepare PROVE OneInv'
<1>1. /\ UNCHANGED <<posts, receipts, mem, disk>> /\ step = "prepare" /\ step' = "next" /\ jobs' = jobs
  BY DEF Prepare, files
<1>2. ~Working'
  BY <1>1, StepKinds DEF Working
<1>3. DoneInv' /\ JobsApart' /\ Ahead' \subseteq Ahead
  BY <1>1, <1>2, JobsKept DEF OneInv, DoneInv, Ahead, UnderWay
<1> QED  BY <1>1, <1>3, QuietOne

LEMMA TakeJobOne ==
    ASSUME Shapes, OneInv, TakeJob PROVE OneInv'
<1>1. PICK j \in jobs : /\ job' = j /\ jobs' = jobs \ {j} /\ step' = First[j[1]]
                        /\ todo' = CASE j[1] = "resume" -> Referencing(j[2])
                                     [] j[1] = "tail" -> {Last(j[2])}
                                     [] OTHER -> {}
  BY DEF TakeJob
<1>2. UNCHANGED <<posts, receipts, mem, disk>> /\ step = "next" /\ mem.done = {}
  BY DEF TakeJob, server, files, OneInv, DoneInv
<1>3. /\ j \in Jobs /\ step' \in {"make", "edit", "patch", "clear", "replace"}
      /\ step' = "clear" => j[1] = "rebuild"
      /\ step' = "replace" => j[1] = "tail"
      /\ step' = "patch" => j[1] = "category"
  BY <1>1, FirstSteps DEF Shapes, RunShapes
<1>4. DoneInv'
  BY <1>2, <1>3 DEF DoneInv
<1>5. JobsApart'
  <2>1. \A i \in jobs' : i[1] \in Sending /\ j[1] \in Sending => i[2] # j[2]
    BY <1>1 DEF OneInv, JobsApart
  <2> QED  BY <1>1, <2>1 DEF OneInv, JobsApart, Kind, Thing
<1>6. UnderWay' \subseteq Ahead
  <2>1. CASE step' = "replace"
    BY <1>1, <1>3, <2>1 DEF UnderWay, Ahead
  <2>2. CASE step' = "clear"
    <3>1. j[1] = "rebuild" /\ j[2] \in Index /\ Thing' = j[2]
      BY <1>1, <1>3, <2>2, JobThing DEF Thing
    <3>2. UnderWay' \subseteq {<<j[2], 0>>}
      BY <2>2, <3>1, Things DEF UnderWay
    <3> QED  BY <3>1, <3>2 DEF Ahead
  <2>3. CASE step' = "patch"
    BY <1>1, <1>3, <2>3 DEF UnderWay, Kind
  <2>4. CASE step' \in {"make", "edit"}
    BY <2>4 DEF UnderWay
  <2> QED  BY <1>3, <2>1, <2>2, <2>3, <2>4
<1>7. Ahead' \subseteq Ahead
  BY <1>1, <1>6 DEF Ahead
<1> QED  BY <1>2, <1>3, <1>4, <1>5, <1>7, QuietOne

LEMMA TakeFailuresOne ==
    ASSUME Shapes, OneInv, TakeFailures PROVE OneInv'
<1>1. /\ UNCHANGED <<posts, receipts, mem, disk>> /\ step = "next" /\ step' \in {"retry", "finish"} /\ jobs' = jobs
  BY DEF TakeFailures, server, files
<1>2. ~Working' /\ mem.done = {}
  BY <1>1, StepKinds DEF Working, OneInv, DoneInv
<1>3. DoneInv' /\ JobsApart' /\ Ahead' \subseteq Ahead
  BY <1>1, <1>2, JobsKept DEF OneInv, DoneInv, Ahead, UnderWay
<1> QED  BY <1>1, <1>3, QuietOne

LEMMA DeclineOne ==
    ASSUME Shapes, OneInv, Decline PROVE OneInv'
<1>1. /\ UNCHANGED <<posts, receipts, mem, disk>> /\ step \in {"make", "patch"} /\ step' = "close" /\ jobs' = jobs
      /\ Kind' = Kind /\ Thing' = Thing
  BY DEF Decline, server, files, Kind, Thing
<1>2. Working
  BY <1>1, StepKinds DEF Working
<1>3. mem.done = {}
  BY <1>1 DEF Decline, Undone, OneInv, DoneInv
<1>4. DoneInv' /\ JobsApart'
  BY <1>1, <1>2, <1>3, JobsKept DEF OneInv, DoneInv
<1>5. Ahead' \subseteq Ahead
  BY <1>1 DEF Ahead, UnderWay
<1> QED  BY <1>1, <1>4, <1>5, QuietOne

LEMMA MakeOne ==
    ASSUME Shapes, OneInv, Make PROVE OneInv'
<1>1. /\ UNCHANGED <<posts, receipts, mem, disk>> /\ step = "make" /\ step' = "made" /\ jobs' = jobs /\ MakeCopy(Thing)
      /\ Kind' = Kind /\ Thing' = Thing
  BY DEF Make, files, Kind, Thing
<1>2. Working /\ Kind \in Creating
  BY <1>1, StepKinds, AtWork DEF Working
<1>3. DoneInv' /\ JobsApart'
  BY <1>1, <1>2, JobsKept DEF OneInv, DoneInv
<1>4. Ahead' \subseteq Ahead
  BY <1>1 DEF Ahead, UnderWay
<1>5. mem.map[Thing'] < made'[Thing']
  <2>1. Thing \in Item
    BY <1>2, AtWork DEF Creating
  <2>2. mem.map[Thing] \in 1..made[Thing] /\ made[Thing] \in Nat /\ made'[Thing] = made[Thing] + 1
    BY <1>1, <2>1, BornGrows DEF Shapes, RunShapes, WorldShapes
  <2> QED  BY <1>1, <2>2
<1> QED  BY <1>1, <1>3, <1>4, <1>5, QuietOne

LEMMA DressOne ==
    ASSUME Shapes, OneInv, Dress PROVE OneInv'
<1>1. /\ UNCHANGED <<posts, receipts, mem, disk>> /\ step = "dress" /\ jobs' = jobs
      /\ Kind' = Kind /\ Thing' = Thing /\ job' = job
  BY DEF Dress, files, Kind, Thing
<1>2. Working /\ Kind \in {"role", "channel", "index"} /\ mem.done = {}
  BY <1>1, StepKinds, AtWork DEF Working, OneInv, DoneInv
<1>3. /\ Kind = "role" => step' = "next"
      /\ Kind = "channel" => step' = "replace" /\ todo' = Text(Thing)
      /\ Kind = "index" => step' = "patch"
  BY <1>1 DEF Dress
<1>4. DoneInv' /\ JobsApart'
  BY <1>1, <1>2, JobsKept DEF OneInv, DoneInv
<1>5. Ahead' \subseteq Ahead
  <2>1. UnderWay' \subseteq UnderWay
    BY <1>1, <1>2, <1>3 DEF UnderWay
  <2> QED  BY <1>1, <2>1 DEF Ahead
<1> QED  BY <1>1, <1>2, <1>3, <1>4, <1>5, QuietOne

LEMMA PatchOne ==
    ASSUME Shapes, OneInv, Patch PROVE OneInv'
<1>1. /\ UNCHANGED <<posts, receipts, mem, disk>> /\ step = "patch" /\ jobs' = jobs
      /\ Kind' = Kind /\ Thing' = Thing /\ job' = job
      /\ step' = IF Kind = "index" THEN "clear" ELSE "close"
  BY DEF Patch, files, Kind, Thing
<1>2. Working
  BY <1>1, StepKinds DEF Working
<1>3. Kind = "index" => mem.done = {}
  BY <1>1, <1>2 DEF OneInv, DoneInv
<1>4. DoneInv' /\ JobsApart'
  BY <1>1, <1>2, <1>3, JobsKept DEF OneInv, DoneInv, Sending
<1>5. Ahead' \subseteq Ahead
  <2>1. UnderWay' \subseteq UnderWay
    BY <1>1, <1>2 DEF UnderWay
  <2> QED  BY <1>1, <2>1 DEF Ahead
<1> QED  BY <1>1, <1>2, <1>3, <1>4, <1>5, QuietOne

LEMMA RecordOne ==
    ASSUME Shapes, OneInv, Record PROVE OneInv'
<1>1. /\ step = "made" /\ mem.done = {} /\ mem.map[Thing] < made[Thing] /\ posts' = posts /\ jobs' = jobs
      /\ job' = job
  BY DEF Record, OneInv, DoneInv, server
<1>2. receipts' = receipts
  BY <1>1, RecordFacts
<1>3. Deliveries(posts', receipts', mem')
  <2> DEFINE n == WithNewId(Thing, made[Thing])
  <2>1. PICK x \in Item, k \in Nat : x = Thing /\ k = made[Thing]
    BY RecordFacts
  <2>2. /\ mem' \in State /\ mem.map[x] < k /\ mem'.map = [mem.map EXCEPT ![x] = k]
        /\ mem'.next = mem.next /\ mem'.done = {}
        /\ mem'.sent = mem.sent \/ mem'.sent = {r \in mem.sent : r.src[1] # x}
    BY <1>1, <2>1, RecordFacts
  <2>3. Deliveries(posts, receipts, mem')
    BY <1>1, <2>2, Basics, MapDeliveries
  <2> QED  BY <1>1, <1>2, <2>3
<1>4. Synced'
  BY RecordFacts DEF Synced
<1>5. DoneInv' /\ JobsApart'
  BY <1>1, RecordFacts, JobsKept DEF OneInv, DoneInv
<1>6. AheadClear'
  <2> SUFFICES ASSUME NEW s \in Ahead', NEW x \in posts \union receipts, Logical(x.ref) = <<s, mem'.map[s[1]]>>
               PROVE  x.ref \in mem.next
    BY <1>1, <1>2, RecordFacts DEF AheadClear
  <2>1. x.ref.src = s /\ x.ref.copy = mem'.map[s[1]] /\ x.ref \in Refs
    BY Basics DEF Logical, Post, Rcpt
  <2>2. CASE s[1] = Thing
    <3>1. mem'.map[s[1]] = made[Thing]
      BY <2>2, Basics, RecordFacts DEF State
    <3>2. x.ref.copy <= mem.map[Thing]
      BY <2>1, <2>2, Basics DEF Deliveries, CopyBounds
    <3>3. mem.map[Thing] \in Nat /\ made[Thing] \in Nat
      BY Basics, RecordFacts
    <3> QED  BY <1>1, <2>1, <3>1, <3>2, <3>3
  <2>3. CASE s[1] # Thing
    <3>1. s[1] \in Item
      BY <2>1, RefFacts
    <3>2. mem'.map[s[1]] = mem.map[s[1]]
      BY <2>3, <3>1, Basics, RecordFacts DEF State
    <3>3. s \in Ahead
      <4>1. s \notin UnderWay'
        <5>1. UnderWay' \subseteq (IF Kind \in {"channel", "index"} THEN Text(Thing) ELSE {})
          BY RecordFacts DEF UnderWay, Creating
        <5> QED  BY <2>3, <5>1, RecordFacts, AtWork, Things
      <4> QED  BY <1>1, <4>1 DEF Ahead
    <3> QED  BY <2>1, <3>2, <3>3 DEF OneInv, AheadClear, Logical
  <2> QED  BY <2>2, <2>3
<1>7. step' # "made"
  BY RecordFacts
<1>8. disk' = mem'
  BY RecordFacts
<1> QED  BY <1>3, <1>4, <1>5, <1>6, <1>7, <1>8 DEF OneInv

LEMMA ClearOne ==
    ASSUME Shapes, OneInv, Clear PROVE OneInv'
<1>1. /\ step = "clear" /\ mem.done = {} /\ UNCHANGED <<posts, receipts, disk, jobs>>
  BY DEF Clear, OneInv, DoneInv, server, files
<1>2. /\ Working /\ Working' /\ Kind \in {"index", "rebuild"} /\ Thing \in Index /\ Kind' = Kind /\ Thing' = Thing
      /\ mem' \in State /\ mem'.map = mem.map
      /\ mem'.sent = {r \in mem.sent : r.src # <<Thing, 0>>}
      /\ mem'.next = mem.next /\ mem'.done = mem.done /\ mem'.rewrite = mem.rewrite
      /\ todo' = Text(Thing) /\ step' = "replace"
  BY ClearFacts
<1>3. Ahead' \subseteq Ahead /\ <<Thing, 0>> \in Ahead
  BY <1>1, <1>2, Things DEF Ahead, UnderWay
<1>4. Deliveries(posts, receipts, mem')
  <2>1. ASSUME NEW p \in posts, p.ref.src = <<Thing, 0>>, Mapped(p.ref, mem)
        PROVE  p.ref \in mem.next
    BY <1>3, <2>1 DEF OneInv, AheadClear, Mapped, Logical
  <2>2. PICK s : s = <<Thing, 0>>
    OBVIOUS
  <2> QED  BY <1>1, <1>2, <2>1, <2>2, Basics, ForgetDeliveries
<1>5. Synced'
  BY <1>1, <1>2, Basics DEF Synced
<1>6. DoneInv' /\ JobsApart'
  BY <1>1, <1>2, JobsKept DEF OneInv, DoneInv
<1>7. AheadClear'
  BY <1>1, <1>2, <1>3, AheadKept DEF OneInv
<1> QED  BY <1>1, <1>2, <1>4, <1>5, <1>6, <1>7 DEF OneInv

LEMMA ReplaceOne ==
    ASSUME Shapes, OneInv, Replace PROVE OneInv'
<1>1. posts' = posts /\ jobs' = jobs
  BY DEF Replace, server
<1>2. /\ Working /\ Working' /\ Kind \in Sending /\ Kind' = Kind /\ Thing' = Thing /\ job' = job /\ todo' = todo
      /\ step' = "send" /\ step = "replace" /\ todo # {}
      /\ Here \in todo /\ Here \in Source /\ Here[1] = Thing /\ Thing \in Item /\ Thing \in Channel \union Index
  BY ReplaceFacts
<1>3. JobsApart' /\ Ahead' = Ahead /\ Here \in Ahead
  BY <1>1, <1>2, JobsKept DEF OneInv, Ahead, UnderWay
<1>4. CASE UNCHANGED <<receipts, uuid, disk, mem>>
  <2>1. DoneInv'
    BY <1>2, <1>4 DEF OneInv, DoneInv
  <2>2. AheadClear'
    BY <1>1, <1>3, <1>4, AheadKept DEF OneInv
  <2> QED  BY <1>1, <1>2, <1>3, <1>4, <2>1, <2>2, SameDeliveries, SameSynced DEF OneInv
<1>5. CASE /\ Begun(Here) = {}
           /\ NewRef \in Refs /\ NewRef.src = Here /\ NewRef.copy = mem.map[Thing]
           /\ Logical(NewRef) = <<Here, mem.map[Thing]>>
           /\ NewRef \notin mem.done
           /\ mem' = Saved([mem EXCEPT !.next = @ \union {NewRef}]) /\ disk' = mem' /\ mem' \in State
           /\ mem'.map = mem.map
           /\ mem'.next = (mem.next \ mem.done) \union {NewRef} /\ mem'.done = {}
           /\ receipts' = {q \in receipts : q.ref \notin mem.done} /\ receipts' \subseteq receipts
  <2> DEFINE n == [mem EXCEPT !.next = @ \union {NewRef}]
  <2>1. PICK e \in Refs : e = NewRef
    BY <1>5
  <2>2. PICK b \in State : b = [mem EXCEPT !.next = @ \union {e}]
    BY Basics DEF State
  <2>3. b.map = mem.map /\ b.next = mem.next \union {e} /\ b.done = mem.done /\ b.sent = mem.sent
    BY <2>2, Basics DEF State
  <2>4. \A x \in posts \union receipts \union {[ref |-> q] : q \in mem.next} : Logical(x.ref) # Logical(e)
    <3>1. ASSUME NEW q \in mem.next, Logical(q) = Logical(e)
          PROVE  FALSE
      BY <1>2, <1>5, <2>1, <3>1 DEF Begun
    <3>2. ASSUME NEW x \in posts \union receipts, Logical(x.ref) = Logical(e)
          PROVE  FALSE
      <4>1. x.ref \in mem.next
        BY <1>2, <1>3, <1>5, <2>1, <3>2 DEF OneInv, AheadClear
      <4> QED  BY <3>1, <3>2, <4>1
    <3> QED  BY <3>1, <3>2
  <2>5. Mapped(e, mem)
    BY <1>2, <1>5, <2>1 DEF Mapped
  <2>6. Deliveries(posts, receipts, b)
    BY <2>3, <2>4, <2>5, Basics, BeginDeliveries
  <2>7. Deliveries(posts, receipts', mem')
    BY <1>5, <2>1, <2>2, <2>3, <2>6, Basics, SaveDeliveries
  <2>8. DoneInv' /\ Synced'
    BY <1>2, <1>5 DEF DoneInv, Synced
  <2>9. AheadClear'
    <3>1. ASSUME NEW r \in mem.next, r.src \in Ahead, r \in mem.done
          PROVE  FALSE
      <4>1. r.src[1] = Thing /\ r.src \notin todo
        BY <1>2, <3>1 DEF OneInv, DoneInv
      <4>2. r.src \notin UnderWay
        BY <1>2, <4>1 DEF UnderWay
      <4>3. PICK j \in jobs : j[1] \in {"tail", "rebuild"} /\ r.src[1] = j[2]
        BY <3>1, <4>2, AheadThings
      <4> QED  BY <1>2, <4>1, <4>3 DEF OneInv, JobsApart, Sending
    <3>2. \A r \in mem.next : r.src \in Ahead' => r \in mem'.next
      BY <1>3, <1>5, <3>1
    <3> QED  BY <1>1, <1>3, <1>5, <3>2, AheadKept DEF OneInv
  <2> QED  BY <1>1, <1>2, <1>3, <1>5, <2>7, <2>8, <2>9 DEF OneInv
<1> QED  BY <1>4, <1>5, ReplaceFacts

LEMMA AllSentOne ==
    ASSUME Shapes, OneInv, AllSent PROVE OneInv'
<1>1. UNCHANGED <<posts, receipts, disk, jobs>>
  BY DEF AllSent, server, files
<1>2. /\ step = "replace" /\ Working /\ Kind \in Sending /\ Kind' = Kind /\ Thing' = Thing
      /\ step' = (IF Kind = "channel" THEN "patch" ELSE "close")
      /\ mem' \in State /\ mem'.map = mem.map /\ mem'.sent = mem.sent
      /\ mem'.next = mem.next /\ mem'.done = mem.done /\ mem'.rewrite = mem.rewrite
  BY AllSentFacts
<1>3. Deliveries(posts, receipts, mem')
  BY <1>2, Basics, SameRecord
<1>4. DoneInv' /\ JobsApart'
  BY <1>1, <1>2, JobsKept DEF OneInv, DoneInv
<1>5. Synced'
  BY <1>1, <1>2, Basics DEF Synced
<1>6. Ahead' \subseteq Ahead
  BY <1>1, <1>2 DEF Ahead, UnderWay
<1>7. AheadClear'
  BY <1>1, <1>2, <1>6, AheadKept DEF OneInv
<1> QED  BY <1>1, <1>2, <1>3, <1>4, <1>5, <1>7 DEF OneInv

LEMMA CloseOne ==
    ASSUME Shapes, OneInv, Close PROVE OneInv'
<1>1. UNCHANGED <<posts, jobs>>
  BY DEF Close, server
<1>2. /\ step = "close" /\ Working /\ step' = "next" /\ ~Working' /\ mem' \in State
      /\ disk' = mem' \/ (disk' = disk /\ mem' = mem /\ receipts' = receipts)
      /\ mem'.map = mem.map /\ mem' = Saved(mem)
      /\ mem'.next = mem.next \ mem.done /\ mem'.done = {}
      /\ receipts' = {q \in receipts : q.ref \notin mem.done} /\ receipts' \subseteq receipts
  BY CloseFacts
<1>3. Deliveries(posts, receipts', mem') /\ Deliveries(posts, receipts', disk')
  BY <1>2, Basics, SaveDeliveries DEF OneInv
<1>4. DoneInv' /\ JobsApart' /\ Synced'
  BY <1>1, <1>2, JobsKept DEF OneInv, DoneInv, Synced
<1>5. Ahead' \subseteq Ahead
  BY <1>1, <1>2 DEF Ahead, UnderWay
<1>6. ASSUME NEW r \in mem.next, r.src \in Ahead, r \in mem.done
      PROVE  FALSE
  <2>1. r.src[1] = Thing /\ Kind \in Sending /\ UnderWay = {}
    BY <1>2, <1>6 DEF OneInv, DoneInv, UnderWay
  <2>2. PICK j \in jobs : j[1] \in {"tail", "rebuild"} /\ r.src[1] = j[2]
    BY <1>6, <2>1, AheadThings
  <2> QED  BY <1>2, <2>1, <2>2 DEF OneInv, JobsApart, Sending
<1>7. AheadClear'
  BY <1>1, <1>2, <1>5, <1>6, AheadKept DEF OneInv
<1> QED  BY <1>1, <1>2, <1>3, <1>4, <1>7 DEF OneInv

\* An attempt, with or without the record of a delivery.
LEMMA AttemptOne ==
    ASSUME Shapes, OneInv, NEW r, Pending(r),
           NEW o \in Sends \union Breaks \union Settled(r, Shown(mem, r.src)), Deliver(r, o),
           mem' \in State, mem'.map = mem.map, mem'.next = mem.next,
           o.ok => mem'.done = mem.done \union {r} /\ mem'.sent = {q \in mem.sent : q.src # r.src} \union {r},
           ~o.ok => mem'.done = mem.done /\ mem'.sent = mem.sent
    PROVE  /\ Deliveries(posts', receipts', mem') /\ Deliveries(posts', receipts', disk)
           /\ \A x \in posts' \union receipts' : x.ref # r => \E y \in posts \union receipts : y.ref = x.ref
<1>1. /\ Attempt(posts, receipts, posts', receipts', r) /\ posts' \subseteq Post /\ receipts' \subseteq Rcpt
      /\ o.ok => \E q \in receipts' : q.ref = r /\ q.st = "acked"
  BY DeliverOutcome
<1>2. o.ok \in BOOLEAN
  BY DeliverOutcome
<1>3. /\ r \in Refs /\ Attempted(receipts, mem, r) /\ Attempted(receipts, disk, r)
      /\ \A p \in posts : Logical(p.ref) = Logical(r) => p.ref = r
      /\ \A q \in mem.done : q.src # r.src
  BY MayAttempt
<1>4. PICK Q \in SUBSET Post, S \in SUBSET Rcpt : Q = posts' /\ S = receipts'
  BY <1>1
<1>5. Deliveries(Q, S, mem) /\ Deliveries(Q, S, disk)
  BY <1>1, <1>3, <1>4, Basics, AttemptDeliveries
<1>6. \A x \in Q \union S : x.ref # r => \E y \in posts \union receipts : y.ref = x.ref
  BY <1>1, <1>4 DEF Attempt
<1>7. Deliveries(Q, S, mem')
  <2>1. CASE o.ok
    <3>1. PICK z \in S : z.ref = r /\ z.st = "acked"
      BY <1>1, <1>4, <2>1
    <3>2. \A q \in S : Logical(q.ref) = Logical(r) => q.ref = r
      BY <1>5, <3>1 DEF Deliveries, OneEach
    <3>3. Attempted(S, mem, r)
      BY <1>3, <3>2 DEF Attempted
    <3>4. \A p \in Q : Logical(p.ref) = Logical(r) => p.ref = r
      BY <1>1, <1>3, <1>4 DEF Attempt
    <3>5. \E q \in S : q.ref = r /\ q.st # "rejected"
      BY <3>1
    <3>6. PICK n \in State : n = mem'
      OBVIOUS
    <3>7. /\ n.map = mem.map /\ n.next = mem.next /\ n.done = mem.done \union {r}
          /\ n.sent = {q \in mem.sent : q.src # r.src} \union {r}
      BY <2>1, <3>6
    <3>8. Deliveries(Q, S, n)
      BY <1>3, <1>5, <3>3, <3>4, <3>5, <3>7, Basics, RecordDeliveries
    <3> QED  BY <3>6, <3>8
  <2>2. CASE ~o.ok
    BY <1>5, <2>2, SameRecord
  <2> QED  BY <1>2, <2>1, <2>2
<1> QED  BY <1>4, <1>5, <1>6, <1>7

LEMMA SendOne ==
    ASSUME Shapes, OneInv, Send PROVE OneInv'
<1>1. jobs' = jobs
  BY DEF Send
<1>2. /\ step = "send" /\ Working /\ Working' /\ Kind \in Sending /\ Kind' = Kind /\ Thing' = Thing
      /\ step' = "replace" /\ todo' = todo \ {Here} /\ Here \in todo /\ Here[1] = Thing
      /\ Thing \in Channel \union Index /\ disk' = disk
  BY SendFacts
<1>3. PICK r \in Begun(Here) : \E o \in Sends \union Breaks \union Settled(r, Shown(mem, r.src)) :
          /\ Pending(r) /\ Deliver(r, o) /\ r \in Refs /\ r.src = Here
          /\ mem' \in State /\ mem'.map = mem.map /\ mem'.next = mem.next /\ mem'.rewrite = mem.rewrite
          /\ o.ok => mem'.done = mem.done \union {r} /\ mem'.sent = {q \in mem.sent : q.src # r.src} \union {r}
          /\ ~o.ok => mem'.done = mem.done /\ mem'.sent = mem.sent
  BY SendFacts
<1>4. PICK o \in Sends \union Breaks \union Settled(r, Shown(mem, r.src)) :
          /\ Pending(r) /\ Deliver(r, o) /\ r \in Refs /\ r.src = Here
          /\ mem' \in State /\ mem'.map = mem.map /\ mem'.next = mem.next /\ mem'.rewrite = mem.rewrite
          /\ o.ok => mem'.done = mem.done \union {r} /\ mem'.sent = {q \in mem.sent : q.src # r.src} \union {r}
          /\ ~o.ok => mem'.done = mem.done /\ mem'.sent = mem.sent
  BY <1>3
<1>5. /\ Deliveries(posts', receipts', mem') /\ Deliveries(posts', receipts', disk)
      /\ \A x \in posts' \union receipts' : x.ref # r => \E y \in posts \union receipts : y.ref = x.ref
  BY <1>4, AttemptOne
<1>6. o.ok \in BOOLEAN
  BY <1>4, DeliverOutcome
<1>7. mem'.done \subseteq mem.done \union {r}
  BY <1>4, <1>6
<1>8. DoneInv' /\ JobsApart'
  BY <1>1, <1>2, <1>4, <1>7, JobsKept DEF OneInv, DoneInv
<1>9. Synced'
  BY <1>2, <1>4, Basics DEF Synced
<1>10. Ahead' \subseteq Ahead /\ Here \notin Ahead'
  <2>1. Ahead' \subseteq Ahead /\ Here \notin UnderWay'
    BY <1>1, <1>2 DEF Ahead, UnderWay
  <2>2. ASSUME NEW j \in jobs, j[1] \in {"tail", "rebuild"}, Here[1] = j[2]
        PROVE  FALSE
    BY <1>2, <2>2 DEF OneInv, JobsApart, Sending
  <2>3. \A j \in jobs : /\ j[1] = "tail" => Here # Last(j[2])
                        /\ j[1] = "rebuild" => Here # <<j[2], 0>>
    BY <2>2 DEF Last
  <2> QED  BY <1>1, <2>1, <2>3 DEF Ahead
<1>11. \A x \in posts' \union receipts' : x.ref.src \in Ahead' => \E y \in posts \union receipts : y.ref = x.ref
  BY <1>4, <1>5, <1>10
<1>12. AheadClear'
  BY <1>4, <1>10, <1>11, AheadKept DEF OneInv
<1> QED  BY <1>2, <1>5, <1>8, <1>9, <1>12 DEF OneInv

LEMMA EditOne ==
    ASSUME Shapes, OneInv, NEW s \in Source, Edit(s) PROVE OneInv'
<1>1. UNCHANGED <<receipts, mem, disk, jobs>>
  BY DEF Edit, files
<1>2. step = "edit" /\ step' = "edit" /\ Working /\ Kind' = Kind /\ Thing' = Thing /\ mem.done = {}
  BY EditFacts DEF OneInv, DoneInv
<1> DEFINE old == {p \in posts : p.ref \in mem.sent /\ p.ref.src = s}
           new == {[p EXCEPT !.emo = mem.map[Thing]] : p \in old}
<1>3. /\ posts' = posts \/ posts' = (posts \ old) \union new
      /\ \A p \in new : p \in Post /\ \E q \in old : p.ref = q.ref
  BY EditFacts
<1>4. /\ posts' \in SUBSET Post
      /\ \A p \in posts' : \E q \in posts : q.ref = p.ref
  BY <1>3, Basics
<1>5. \A p, q \in posts' : Logical(p.ref) = Logical(q.ref) => p = q
  <2>1. \A p, q \in posts : Logical(p.ref) = Logical(q.ref) => p = q
    BY Basics DEF Deliveries, OneEach
  <2>2. CASE posts' = posts
    BY <2>1, <2>2
  <2>3. CASE posts' = (posts \ old) \union new
    <3> SUFFICES ASSUME NEW p \in posts', NEW q \in posts', Logical(p.ref) = Logical(q.ref) PROVE p = q
      OBVIOUS
    <3>0. \A y \in old : [y EXCEPT !.emo = mem.map[Thing]].ref = y.ref
      BY Basics DEF Post
    <3>1. \A z \in new : \E y \in old : y.ref = z.ref /\ z = [y EXCEPT !.emo = mem.map[Thing]]
      BY <3>0
    <3>2. CASE p \in new
      <4>1. PICK y \in old : y.ref = p.ref /\ p = [y EXCEPT !.emo = mem.map[Thing]]
        BY <3>1, <3>2
      <4>2. q \in new
        BY <2>1, <2>3, <4>1
      <4>3. PICK z \in old : z.ref = q.ref /\ q = [z EXCEPT !.emo = mem.map[Thing]]
        BY <3>1, <4>2
      <4> QED  BY <2>1, <4>1, <4>3
    <3>3. CASE p \notin new
      <4>1. p \in posts \ old
        BY <2>3, <3>3
      <4>2. q \notin new
        BY <2>1, <3>1, <4>1
      <4> QED  BY <2>1, <2>3, <4>1, <4>2
    <3> QED  BY <3>2, <3>3
  <2> QED  BY <1>3, <2>2, <2>3
<1>6. Deliveries(posts', receipts, mem) /\ Deliveries(posts', receipts, disk)
  <2>1. PICK Q \in SUBSET Post : Q = posts'
    BY <1>4
  <2>2. \A q \in Q : \E p \in posts : p.ref = q.ref
    BY <1>4, <2>1
  <2>3. \A p, q \in Q : Logical(p.ref) = Logical(q.ref) => p = q
    BY <1>5, <2>1
  <2> QED  BY <2>1, <2>2, <2>3, Basics, FewerPosts
<1>7. Synced' /\ DoneInv' /\ JobsApart'
  BY <1>1, <1>2, JobsKept, SameSynced DEF OneInv, DoneInv
<1>8. Ahead' \subseteq Ahead
  BY <1>1, <1>2 DEF Ahead, UnderWay
<1>9. AheadClear'
  BY <1>1, <1>4, <1>8, AheadKept DEF OneInv
<1> QED  BY <1>1, <1>2, <1>6, <1>7, <1>9 DEF OneInv

LEMMA EndEditsOne ==
    ASSUME Shapes, OneInv, EndEdits PROVE OneInv'
<1>1. posts' = posts /\ jobs' = jobs /\ step = "edit" /\ step' = "next" /\ ~Working' /\ mem.done = {} /\ mem' \in State
  BY EndEditsFacts DEF EndEdits, server, OneInv, DoneInv
<1>2. Ahead' \subseteq Ahead
  BY <1>1 DEF Ahead, UnderWay
<1>3. mem'.map = mem.map /\ mem'.sent = mem.sent /\ mem'.next = mem.next /\ mem'.done = mem.done /\ receipts' = receipts
  BY <1>1, EndEditsFacts
<1>4. Deliveries(posts, receipts, mem')
  BY <1>3, Basics, SameRecord
<1>5. (disk' = disk /\ mem' = mem) \/ disk' = mem'
  BY EndEditsFacts
<1>6. Deliveries(posts, receipts, disk')
  BY <1>4, <1>5, Basics
<1>7. Synced'
  BY <1>1, <1>3, <1>5, Basics DEF Synced
<1>8. DoneInv' /\ JobsApart'
  BY <1>1, <1>3, JobsKept DEF OneInv, DoneInv
<1>9. AheadClear'
  BY <1>1, <1>2, <1>3, AheadKept DEF OneInv
<1> QED  BY <1>1, <1>3, <1>4, <1>6, <1>7, <1>8, <1>9 DEF OneInv

\* Without a job nothing is ahead.
LEMMA NothingAhead ==
    ASSUME jobs = {}, ~Working PROVE Ahead = {}
BY StepKinds DEF Ahead, UnderWay, Working

LEMMA RetryOneOne ==
    ASSUME Shapes, OneInv, NEW r, RetryOne(r) PROVE OneInv'
<1>1. /\ step = "retry" /\ step' = "retry" /\ ~Working' /\ disk' = disk /\ mem' \in State /\ mem'.map = mem.map
      /\ mem'.next = mem.next /\ mem'.rewrite = mem.rewrite
  BY RetryFacts
<1>2. jobs' = {} /\ jobs = {}
  BY <1>1 DEF RetryOne, Shapes, RunShapes
<1>3. Ahead' = {}
  BY <1>1, <1>2 DEF Ahead, UnderWay
<1>4. Synced' /\ JobsApart' /\ AheadClear'
  BY <1>1, <1>2, <1>3, Basics DEF Synced, JobsApart, AheadClear
<1>5. CASE UNCHANGED <<posts, receipts, mem, resolved, faults>>
  <2>1. DoneInv'
    BY <1>1, <1>5 DEF OneInv, DoneInv
  <2> QED  BY <1>1, <1>4, <1>5, <2>1, SameDeliveries DEF OneInv
<1>6. CASE \E o \in Sends \union Breaks \union Settled(r, Shown(mem, r.src)) :
             /\ Pending(r) /\ Deliver(r, o)
             /\ mem' = IF o.ok THEN Delivered(mem, r) ELSE mem
             /\ resolved' = IF o.ok THEN resolved \union {Logical(r)} ELSE resolved
             /\ o.ok => /\ mem'.done = mem.done \union {r}
                        /\ mem'.sent = {q \in mem.sent : q.src # r.src} \union {r}
  <2>1. PICK o \in Sends \union Breaks \union Settled(r, Shown(mem, r.src)) :
             /\ Pending(r) /\ Deliver(r, o)
             /\ mem' = IF o.ok THEN Delivered(mem, r) ELSE mem
             /\ resolved' = IF o.ok THEN resolved \union {Logical(r)} ELSE resolved
             /\ o.ok => /\ mem'.done = mem.done \union {r}
                        /\ mem'.sent = {q \in mem.sent : q.src # r.src} \union {r}
    BY <1>6
  <2>2. o.ok \in BOOLEAN
    BY <2>1, DeliverOutcome
  <2>3. ~o.ok => mem'.done = mem.done /\ mem'.sent = mem.sent
    BY <2>1
  <2>4. Deliveries(posts', receipts', mem') /\ Deliveries(posts', receipts', disk)
    BY <1>1, <2>1, <2>3, AttemptOne
  <2>5. \A q \in mem'.done : Logical(q) \in resolved'
    <3>1. \A q \in mem.done : Logical(q) \in resolved
      BY <1>1 DEF OneInv, DoneInv
    <3>2. CASE o.ok
      BY <2>1, <3>1, <3>2
    <3>3. CASE ~o.ok
      BY <2>1, <3>1, <3>3
    <3> QED  BY <2>2, <3>2, <3>3
  <2>6. DoneInv'
    BY <1>1, <2>5 DEF DoneInv
  <2> QED  BY <1>1, <1>4, <2>4, <2>6 DEF OneInv
<1> QED  BY <1>5, <1>6, RetryFacts

LEMMA EndRetryOne ==
    ASSUME Shapes, OneInv, EndRetry PROVE OneInv'
<1>1. posts' = posts /\ jobs' = jobs /\ jobs = {} /\ step = "retry" /\ step' = "finish" /\ ~Working'
  BY EndRetryFacts DEF EndRetry, server, Shapes, RunShapes
<1>2. /\ mem' \in State /\ disk' = mem' /\ mem'.map = mem.map /\ mem'.sent = mem.sent /\ mem'.done = {}
      /\ mem'.next = mem.next \ mem.done /\ receipts' = {q \in receipts : q.ref \notin mem.done}
  BY EndRetryFacts
<1>3. Deliveries(posts, receipts', mem')
  <2>1. Deliveries(posts, receipts', Saved(mem))
    BY <1>2, Basics, SaveDeliveries
  <2>2. /\ mem'.map = Saved(mem).map /\ mem'.sent = Saved(mem).sent /\ mem'.next = Saved(mem).next
        /\ mem'.done = Saved(mem).done
    BY <1>2, Basics, SavedFields
  <2> QED  BY <2>1, <2>2, SameRecord
<1>4. Ahead' = {}
  BY <1>1, NothingAhead DEF Ahead, UnderWay
<1>5. Synced' /\ DoneInv' /\ JobsApart' /\ AheadClear'
  BY <1>1, <1>2, <1>4 DEF Synced, DoneInv, JobsApart, AheadClear
<1> QED  BY <1>1, <1>2, <1>3, <1>5 DEF OneInv

LEMMA HaltOne ==
    ASSUME Shapes, OneInv, Halt PROVE OneInv'
<1>1. step' = "idle" /\ jobs' = {} /\ ~Working'
  BY HaltFacts
<1>2. PICK Q, S : /\ CutOff(Q, S) /\ posts' = Q
                  /\ \/ /\ mem' = Saved(mem) /\ disk' = Saved(mem)
                        /\ receipts' = {q \in S : q.ref \notin mem.done}
                     \/ mem' = disk /\ disk' = disk /\ receipts' = S
  BY HaltFacts
<1>3. Q \in SUBSET Post /\ S \in SUBSET Rcpt /\ Deliveries(Q, S, mem) /\ Deliveries(Q, S, disk)
  BY <1>2, CutOffFacts
<1>4. Deliveries(Q, {q \in S : q.ref \notin mem.done}, Saved(mem))
  BY <1>3, Basics, SaveDeliveries
<1>5. Deliveries(posts', receipts', mem') /\ mem' = disk' /\ mem'.done = {}
  BY <1>2, <1>3, <1>4, Basics, SavedFields
<1>6. Ahead' = {}
  BY <1>1 DEF Ahead, UnderWay
<1>7. Synced' /\ DoneInv' /\ JobsApart' /\ AheadClear'
  BY <1>1, <1>5, <1>6 DEF Synced, DoneInv, JobsApart, AheadClear
<1> QED  BY <1>1, <1>5, <1>7 DEF OneInv

LEMMA PeopleOne ==
    ASSUME Shapes, OneInv, People PROVE OneInv'
<1>1. /\ step = "idle" /\ step' = "idle" /\ ~Working' /\ jobs' = {}
      /\ UNCHANGED <<receipts, mem, disk>> /\ posts' \subseteq posts /\ mem = disk
  BY PeopleFacts DEF files, work, OneInv, Synced
<1>2. Deliveries(posts', receipts, mem)
  <2>1. PICK Q \in SUBSET Post : Q = posts'
    BY <1>1, Basics
  <2>2. \A p, q \in Q : Logical(p.ref) = Logical(q.ref) => p = q
    BY <1>1, <2>1, Basics DEF Deliveries, OneEach
  <2>3. \A q \in Q : \E p \in posts : p.ref = q.ref
    BY <1>1, <2>1
  <2> QED  BY <2>1, <2>2, <2>3, Basics, FewerPosts
<1>3. Ahead' = {}
  BY <1>1 DEF Ahead, UnderWay
<1>4. Synced' /\ DoneInv' /\ JobsApart' /\ AheadClear'
  BY <1>1, <1>3 DEF OneInv, Synced, DoneInv, JobsApart, AheadClear
<1> QED  BY <1>1, <1>2, <1>4 DEF OneInv

LEMMA InitOne ==
    ASSUME Init PROVE OneInv
<1>1. PICK b \in {{}} \union {{s} : s \in UNION {Text(c) : c \in Channel}} :
          /\ disk = Migrated(b)
          /\ posts = {[ref |-> Ref(s, 1, 0), emo |-> Shown(disk, s)] : s \in Source \ b}
          /\ receipts = {[ref |-> Ref(s, 1, 0), st |-> "rejected", emo |-> Shown(disk, s)] : s \in b}
  BY DEF Init
<1>2. b \in SUBSET Source /\ \A s \in b : s[1] \in Channel
  BY <1>1, Things DEF Source
<1>3. /\ disk \in State /\ mem = disk /\ mem.map = [x \in Item |-> 1] /\ mem.next = {} /\ mem.done = {}
      /\ mem.sent = {Ref(s, 1, 0) : s \in Source \ b} /\ step = "idle" /\ jobs = {} /\ ~Working
  BY <1>1, <1>2, MigratedShape, StepKinds DEF Init, Working
<1>4. \A p \in posts : \E s \in Source \ b : p.ref = Ref(s, 1, 0) /\ p.emo = Shown(disk, s)
  BY <1>1
<1>5. \A q \in receipts : \E s \in b : q = [ref |-> Ref(s, 1, 0), st |-> "rejected", emo |-> Shown(disk, s)]
  BY <1>1
<1>6. \A s \in Source : /\ Ref(s, 1, 0) \in Refs /\ Ref(s, 1, 0).src = s /\ Ref(s, 1, 0).copy = 1
                        /\ Logical(Ref(s, 1, 0)) = <<s, 1>> /\ s[1] \in Item
  <2>1. \A s \in Source : s[1] \in Item
    BY Things
  <2>2. \A s \in Source : Ref(s, 1, 0) \in Refs /\ Ref(s, 1, 0).src = s /\ Ref(s, 1, 0).copy = 1
    BY DEF Ref, Refs
  <2>3. \A s \in Source : Logical(Ref(s, 1, 0)) = <<s, 1>>
    BY <2>2 DEF Logical
  <2> QED  BY <2>1, <2>2, <2>3
<1>7. CopyBounds(posts, receipts, mem)
  <2>1. \A x \in posts \union receipts : x.ref.copy <= mem.map[x.ref.src[1]]
    BY <1>2, <1>3, <1>4, <1>5, <1>6
  <2> QED  BY <1>3, <2>1 DEF CopyBounds
<1>8. OneEach(posts, receipts, mem)
  <2>1. \A p, q \in posts : Logical(p.ref) = Logical(q.ref) => p = q
    <3> SUFFICES ASSUME NEW p \in posts, NEW q \in posts, Logical(p.ref) = Logical(q.ref) PROVE p = q
      OBVIOUS
    <3>1. PICK s \in Source \ b : p = [ref |-> Ref(s, 1, 0), emo |-> Shown(disk, s)]
      BY <1>1
    <3>2. PICK z \in Source \ b : q = [ref |-> Ref(z, 1, 0), emo |-> Shown(disk, z)]
      BY <1>1
    <3>3. p.ref = Ref(s, 1, 0) /\ q.ref = Ref(z, 1, 0)
      BY <3>1, <3>2
    <3>4. s = z
      BY <1>6, <3>3
    <3> QED  BY <3>1, <3>2, <3>4
  <2>2. \A p, q \in receipts : Logical(p.ref) = Logical(q.ref) => p = q
    <3> SUFFICES ASSUME NEW p \in receipts, NEW q \in receipts, Logical(p.ref) = Logical(q.ref) PROVE p = q
      OBVIOUS
    <3>1. PICK s \in b : p = [ref |-> Ref(s, 1, 0), st |-> "rejected", emo |-> Shown(disk, s)]
      BY <1>5
    <3>2. PICK z \in b : q = [ref |-> Ref(z, 1, 0), st |-> "rejected", emo |-> Shown(disk, z)]
      BY <1>5
    <3>3. p.ref = Ref(s, 1, 0) /\ q.ref = Ref(z, 1, 0)
      BY <3>1, <3>2
    <3>4. s = z
      BY <1>2, <1>6, <3>3
    <3> QED  BY <3>1, <3>2, <3>4
  <2>3. \A r, q \in mem.sent : r.src = q.src => r = q
    BY <1>3, <1>6
  <2> QED  BY <1>3, <2>1, <2>2, <2>3 DEF OneEach
<1>9. Backed(posts, receipts, mem)
  BY <1>3, <1>4 DEF Backed
<1>10. Owed(receipts, mem)
  <2> SUFFICES ASSUME NEW q \in receipts
               PROVE  q.ref.src[1] \in Channel /\ \A r \in mem.sent : r.src # q.ref.src
    BY DEF Owed
  <2>1. PICK s \in b : q.ref = Ref(s, 1, 0)
    BY <1>5
  <2> QED  BY <1>2, <1>3, <1>6, <2>1
<1>11. Deliveries(posts, receipts, mem)
  BY <1>3, <1>7, <1>8, <1>9, <1>10 DEF Deliveries
<1>12. Ahead = {}
  BY <1>3, NothingAhead
<1> QED  BY <1>3, <1>11, <1>12 DEF OneInv, Synced, DoneInv, JobsApart, AheadClear

-----------------------------------------------------------------------------
(* What the records hold.                                                  *)

LEMMA SaveSound ==
    ASSUME NEW m \in State, NEW u, Sound(m, u)
    PROVE  Sound(Saved(m), u)
<1>1. /\ Saved(m).map = m.map /\ Saved(m).sent = m.sent /\ Saved(m).failed = m.failed
      /\ Saved(m).next = m.next \ m.done
  BY SavedFields
<1> QED  BY <1>1 DEF Sound, Mapped

\* A record that names no more of a message than another did.
LEMMA LessSound ==
    ASSUME NEW m, NEW n, NEW u, Sound(m, u),
           n.sent \subseteq m.sent, n.failed \subseteq m.failed, n.next \subseteq m.next, n.map = m.map,
           n.sent \intersect n.next \intersect m.done \subseteq n.done
    PROVE  Sound(n, u)
BY DEF Sound, Mapped

LEMMA QuietRecords ==
    ASSUME OneInv, RecordsInv, UNCHANGED <<mem, disk, uuid, resolved>>,
           step' = "retry" => todo' \subseteq mem.failed, step' \notin {"retry", "finish"} => resolved = {}
    PROVE  RecordsInv'
BY DEF RecordsInv

LEMMA ReadingRecords ==
    ASSUME Shapes, OneInv, RecordsInv,
           Check \/ Classify \/ Prepare \/ TakeJob \/ Decline \/ Make \/ Dress \/ Patch \/ (\E s \in Source : Edit(s))
    PROVE  RecordsInv'
<1>1. CASE Check
  BY <1>1, QuietRecords DEF Check, server, files, OneInv, Synced, RecordsInv
<1>2. CASE Classify
  BY <1>2, QuietRecords DEF Classify, server, files, RecordsInv
<1>3. CASE Prepare
  BY <1>3, QuietRecords DEF Prepare, files, RecordsInv
<1>4. CASE TakeJob
  <2>1. step = "next" /\ step' \in {"make", "edit", "patch", "clear", "replace"} /\ UNCHANGED <<mem, disk, uuid, resolved>>
    BY <1>4, FirstSteps DEF TakeJob, files, Shapes, RunShapes
  <2> QED  BY <2>1, QuietRecords DEF RecordsInv
<1>5. CASE Decline
  BY <1>5, QuietRecords DEF Decline, files, RecordsInv
<1>6. CASE Make
  BY <1>6, QuietRecords DEF Make, files, RecordsInv
<1>7. CASE Dress
  <2>1. step = "dress" /\ UNCHANGED <<mem, disk, uuid, resolved>>
    BY <1>7 DEF Dress, files
  <2>2. step' \in {"next", "replace", "patch"}
    BY <1>7, <2>1, AtWork, StepKinds DEF Dress, Working
  <2> QED  BY <2>1, <2>2, QuietRecords DEF RecordsInv
<1>8. CASE Patch
  BY <1>8, QuietRecords DEF Patch, files, RecordsInv
<1>9. CASE \E s \in Source : Edit(s)
  BY <1>9, QuietRecords DEF Edit, files, RecordsInv
<1> QED  BY <1>1, <1>2, <1>3, <1>4, <1>5, <1>6, <1>7, <1>8, <1>9

LEMMA TakeFailuresRecords ==
    ASSUME RecordsInv, TakeFailures PROVE RecordsInv'
BY DEF TakeFailures, files, RecordsInv

LEMMA RecordRecords ==
    ASSUME Shapes, OneInv, RecordsInv, Record PROVE RecordsInv'
<1>1. step = "made" /\ mem.done = {} /\ uuid' = uuid /\ resolved' = resolved
  BY DEF Record, OneInv, DoneInv
<1>2. mem \in State /\ mem' \in State /\ made[Thing] \in Nat /\ Thing \in Item
  BY Basics, RecordFacts
<1>3. \A y \in Item : y # Thing => mem'.map[y] = mem.map[y]
  BY <1>2, RecordFacts DEF State
<1>4. mem'.sent \subseteq mem.sent /\ \A r \in mem'.sent : r.src[1] \in Channel => r.src[1] # Thing
  BY RecordFacts, RepairAssumption, AtWork DEF Creating
<1>5. \A r \in mem'.failed : r \in mem.failed \/ \E q \in mem.failed : r = Ref(q.src, made[Thing], 0)
  <2>1. CASE Kind = "channel"
    BY <2>1, RecordFacts
  <2>2. CASE Kind # "channel"
    BY <2>2, RecordFacts
  <2> QED  BY <2>1, <2>2
<1>6. \A s \in Source : uuid[s] \in Nat
  BY DEF Shapes, WorldShapes
<1>7. Sound(mem', uuid)
  <2>1. \A r \in mem'.sent : r.src[1] \in Channel => Mapped(r, mem')
    BY <1>2, <1>3, <1>4, RefFacts DEF State, RecordsInv, Sound, Mapped
  <2>2. ASSUME NEW r \in mem'.failed
        PROVE  r.src[1] \in Channel /\ r.gen <= uuid[r.src]
    <3>1. CASE r \in mem.failed
      BY <3>1 DEF RecordsInv, Sound
    <3>2. CASE \E q \in mem.failed : r = Ref(q.src, made[Thing], 0)
      <4>1. PICK q \in mem.failed : r = Ref(q.src, made[Thing], 0)
        BY <3>2
      <4>2. q.src \in Source /\ q.src[1] \in Channel
        BY <1>2 DEF State, Refs, RecordsInv, Sound
      <4>3. r.src = q.src /\ r.gen = 0
        BY <4>1 DEF Ref
      <4> QED  BY <1>6, <4>2, <4>3
    <3> QED  BY <1>5, <3>1, <3>2
  <2>3. \A r \in mem'.sent \union mem'.next : r.gen <= uuid[r.src]
    BY <1>1, <1>4, RecordFacts DEF RecordsInv, Sound
  <2>4. mem'.sent \intersect mem'.next \subseteq mem'.done
    BY <1>1, <1>4, RecordFacts DEF RecordsInv, Sound
  <2> QED  BY <2>1, <2>2, <2>3, <2>4 DEF Sound
<1>8. disk' = mem' /\ step' \notin {"retry", "finish"}
  BY RecordFacts
<1> QED  BY <1>1, <1>7, <1>8 DEF RecordsInv

LEMMA ClearRecords ==
    ASSUME Shapes, OneInv, RecordsInv, Clear PROVE RecordsInv'
<1>1. UNCHANGED <<disk, uuid, resolved>> /\ step = "clear"
  BY DEF Clear, files
<1>2. Sound(mem', uuid)
  BY ClearFacts, LessSound DEF RecordsInv
<1> QED  BY <1>1, <1>2, ClearFacts DEF RecordsInv

LEMMA ReplaceRecords ==
    ASSUME Shapes, OneInv, RecordsInv, Replace PROVE RecordsInv'
<1>1. resolved' = resolved /\ step = "replace" /\ step' = "send"
  BY DEF Replace
<1>2. CASE UNCHANGED <<receipts, uuid, disk, mem>>
  BY <1>1, <1>2 DEF RecordsInv
<1>3. CASE /\ uuid' = [uuid EXCEPT ![Here] = @ + 1] /\ uuid[Here] \in Nat
           /\ NewRef \in Refs /\ NewRef.src = Here /\ NewRef.gen = uuid[Here] + 1
           /\ NewRef \notin mem.done
           /\ disk' = mem' /\ mem' \in State
           /\ mem'.map = mem.map /\ mem'.sent = mem.sent /\ mem'.failed = mem.failed
           /\ mem'.next = (mem.next \ mem.done) \union {NewRef} /\ mem'.done = {}
  <2>1. uuid \in [Source -> Nat] /\ Here \in Source
    BY ReplaceFacts DEF Shapes, WorldShapes
  <2>2. \A s \in Source : uuid[s] <= uuid'[s] /\ uuid[s] \in Nat /\ uuid'[s] \in Nat
    BY <1>3, <2>1
  <2>3. \A r \in mem.sent \union mem.failed \union mem.next : r \in Refs /\ r.gen <= uuid[r.src]
    BY Basics DEF RecordsInv, Sound, State
  <2>4. \A r \in mem.sent \union mem.failed \union mem.next : r.gen <= uuid'[r.src]
    <3> SUFFICES ASSUME NEW r \in mem.sent \union mem.failed \union mem.next PROVE r.gen <= uuid'[r.src]
      OBVIOUS
    <3>1. r.src \in Source /\ r.gen \in Nat /\ r.gen <= uuid[r.src]
      BY <2>3, RefFacts
    <3> QED  BY <2>2, <3>1
  <2>5. NewRef.gen <= uuid'[NewRef.src]
    BY <1>3, <2>1
  <2>6. NewRef \notin mem.sent
    BY <1>3, <2>3
  <2>7. Sound(mem', uuid')
    <3>1. \A r \in mem'.sent \union mem'.failed \union mem'.next : r.gen <= uuid'[r.src]
      BY <1>3, <2>4, <2>5
    <3>2. mem'.sent \intersect mem'.next \subseteq mem'.done
      BY <1>3, <2>6 DEF RecordsInv, Sound
    <3> QED  BY <1>3, <3>1, <3>2 DEF RecordsInv, Sound, Mapped
  <2> QED  BY <1>1, <1>3, <2>7 DEF RecordsInv
<1> QED  BY <1>2, <1>3, ReplaceFacts

LEMMA SendRecords ==
    ASSUME Shapes, OneInv, RecordsInv, Send PROVE RecordsInv'
<1>1. UNCHANGED <<disk, uuid, resolved>> /\ step = "send" /\ step' = "replace"
  BY DEF Send
<1>2. PICK r \in Begun(Here) : \E o \in Sends \union Breaks \union Settled(r, Shown(mem, r.src)) :
                /\ Pending(r) /\ Deliver(r, o) /\ r \in Refs
                /\ mem' \in State /\ mem'.map = mem.map /\ mem'.next = mem.next
                /\ o.ok => /\ mem'.failed = {q \in mem.failed : Logical(q) # Logical(r)}
                           /\ mem'.done = mem.done \union {r}
                           /\ mem'.sent = {q \in mem.sent : q.src # r.src} \union {r}
                /\ ~o.ok => /\ mem'.failed = IF r.src[1] \in Channel THEN mem.failed \union {r} ELSE mem.failed
                            /\ mem'.done = mem.done /\ mem'.sent = mem.sent
  BY SendFacts
<1>3. PICK o \in Sends \union Breaks \union Settled(r, Shown(mem, r.src)) :
                /\ Pending(r) /\ Deliver(r, o) /\ r \in Refs
                /\ mem' \in State /\ mem'.map = mem.map /\ mem'.next = mem.next
                /\ o.ok => /\ mem'.failed = {q \in mem.failed : Logical(q) # Logical(r)}
                           /\ mem'.done = mem.done \union {r}
                           /\ mem'.sent = {q \in mem.sent : q.src # r.src} \union {r}
                /\ ~o.ok => /\ mem'.failed = IF r.src[1] \in Channel THEN mem.failed \union {r} ELSE mem.failed
                            /\ mem'.done = mem.done /\ mem'.sent = mem.sent
  BY <1>2
<1>4. Mapped(r, mem) /\ r \in mem.next
  BY <1>2, HereLeft, <1>1, BegunFacts DEF Shapes, RunShapes
<1>5. o.ok \in BOOLEAN
  BY <1>3, DeliverOutcome
<1>6. Sound(mem', uuid)
  BY <1>3, <1>4, <1>5 DEF RecordsInv, Sound, Mapped
<1> QED  BY <1>1, <1>6 DEF RecordsInv

LEMMA AllSentRecords ==
    ASSUME Shapes, OneInv, RecordsInv, AllSent PROVE RecordsInv'
<1>1. UNCHANGED <<disk, uuid, resolved>> /\ step = "replace" /\ step' \in {"patch", "close"}
  BY DEF AllSent, files
<1>2. Sound(mem', uuid)
  BY AllSentFacts, LessSound DEF RecordsInv
<1> QED  BY <1>1, <1>2 DEF RecordsInv

LEMMA CloseRecords ==
    ASSUME Shapes, OneInv, RecordsInv, Close PROVE RecordsInv'
<1>1. UNCHANGED <<uuid, resolved>> /\ step = "close" /\ step' = "next" /\ mem' = Saved(mem) /\ disk' \in {mem', disk}
  BY CloseFacts DEF Close
<1>2. Sound(mem', uuid) /\ Sound(disk, uuid)
  BY <1>1, Basics, SaveSound DEF RecordsInv
<1> QED  BY <1>1, <1>2 DEF RecordsInv

LEMMA EndEditsRecords ==
    ASSUME Shapes, OneInv, RecordsInv, EndEdits PROVE RecordsInv'
<1>1. UNCHANGED <<uuid, resolved>> /\ step = "edit" /\ step' = "next" /\ mem.done = {}
  BY DEF EndEdits, OneInv, DoneInv
<1>2. Sound(mem', uuid)
  BY <1>1, EndEditsFacts, LessSound DEF RecordsInv
<1>3. disk' = disk \/ disk' = mem'
  BY EndEditsFacts
<1> QED  BY <1>1, <1>2, <1>3 DEF RecordsInv

LEMMA RetryRecords ==
    ASSUME Shapes, OneInv, RecordsInv, NEW r, RetryOne(r) PROVE RecordsInv'
<1>1. /\ step = "retry" /\ step' = "retry" /\ r \in todo /\ todo' = todo \ {r} /\ disk' = disk /\ uuid' = uuid
      /\ mem' \in State /\ mem'.map = mem.map /\ mem'.failed = mem.failed /\ mem'.next = mem.next
  BY RetryFacts
<1>2. todo' \subseteq mem'.failed
  BY <1>1 DEF RecordsInv
<1>3. CASE UNCHANGED <<posts, receipts, mem, resolved, faults>>
  BY <1>1, <1>2, <1>3 DEF RecordsInv
<1>4. CASE \E o \in Sends \union Breaks \union Settled(r, Shown(mem, r.src)) :
                   /\ Pending(r) /\ Deliver(r, o)
                   /\ mem' = IF o.ok THEN Delivered(mem, r) ELSE mem
                   /\ o.ok => /\ mem'.done = mem.done \union {r}
                              /\ mem'.sent = {q \in mem.sent : q.src # r.src} \union {r}
  <2>1. PICK o \in Sends \union Breaks \union Settled(r, Shown(mem, r.src)) :
                   /\ Pending(r) /\ Deliver(r, o)
                   /\ mem' = IF o.ok THEN Delivered(mem, r) ELSE mem
                   /\ o.ok => /\ mem'.done = mem.done \union {r}
                              /\ mem'.sent = {q \in mem.sent : q.src # r.src} \union {r}
    BY <1>4
  <2>2. Mapped(r, mem) /\ r \in mem.failed
    BY <1>1, <2>1, MayAttempt DEF Attempted, RecordsInv
  <2>3. o.ok \in BOOLEAN
    BY <2>1, DeliverOutcome
  <2>4. CASE o.ok
    BY <1>1, <1>2, <2>1, <2>2, <2>4 DEF RecordsInv, Sound, Mapped
  <2>5. CASE ~o.ok
    <3>1. mem' = mem
      BY <2>1, <2>5
    <3> QED  BY <1>1, <1>2, <3>1 DEF RecordsInv
  <2> QED  BY <2>3, <2>4, <2>5
<1> QED  BY <1>3, <1>4, RetryFacts

LEMMA EndRetryRecords ==
    ASSUME Shapes, OneInv, RecordsInv, EndRetry PROVE RecordsInv'
<1>1. uuid' = uuid /\ step' = "finish" /\ disk' = mem'
  BY EndRetryFacts DEF EndRetry
<1>2. Sound(mem', uuid)
  BY EndRetryFacts DEF RecordsInv, Sound, Mapped
<1> QED  BY <1>1, <1>2 DEF RecordsInv

LEMMA HaltRecords ==
    ASSUME Shapes, OneInv, RecordsInv, Halt PROVE RecordsInv'
<1>1. uuid' = uuid /\ step' = "idle" /\ resolved' = {}
  BY HaltFacts
<1>2. PICK Q, S : /\ CutOff(Q, S) /\ posts' = Q
                  /\ \/ /\ mem' = Saved(mem) /\ disk' = Saved(mem)
                        /\ receipts' = {q \in S : q.ref \notin mem.done}
                     \/ mem' = disk /\ disk' = disk /\ receipts' = S
  BY HaltFacts
<1>3. Sound(Saved(mem), uuid)
  BY Basics, SaveSound DEF RecordsInv
<1> QED  BY <1>1, <1>2, <1>3 DEF RecordsInv

LEMMA PeopleRecords ==
    ASSUME Shapes, RecordsInv, People PROVE RecordsInv'
BY PeopleFacts DEF RecordsInv, files, work

LEMMA InitRecords ==
    ASSUME Init PROVE RecordsInv
<1>1. PICK b \in {{}} \union {{s} : s \in UNION {Text(c) : c \in Channel}} : disk = Migrated(b)
  BY DEF Init
<1>2. b \in SUBSET Source /\ \A s \in b : s[1] \in Channel
  BY <1>1, Things DEF Source
<1>3. /\ mem = disk /\ mem.map = [x \in Item |-> 1] /\ mem.next = {} /\ mem.sent = {Ref(s, 1, 0) : s \in Source \ b}
      /\ mem.failed = {Ref(s, 1, 0) : s \in b} /\ uuid = [s \in Source |-> 0] /\ step = "idle" /\ resolved = {}
  BY <1>1, <1>2, MigratedShape DEF Init
<1>4. \A s \in Source : /\ Ref(s, 1, 0).src = s /\ Ref(s, 1, 0).copy = 1 /\ Ref(s, 1, 0).gen = 0 /\ s[1] \in Item
  BY Things DEF Ref
<1>5. Sound(mem, uuid)
  <2>1. \A r \in mem.sent : r.src[1] \in Channel => Mapped(r, mem)
    BY <1>3, <1>4 DEF Mapped
  <2>2. \A r \in mem.failed : r.src[1] \in Channel
    BY <1>2, <1>3, <1>4
  <2>3. \A r \in mem.sent \union mem.failed : r.gen <= uuid[r.src]
    BY <1>2, <1>3, <1>4
  <2> QED  BY <1>3, <2>1, <2>2, <2>3 DEF Sound
<1> QED  BY <1>3, <1>5 DEF RecordsInv

-----------------------------------------------------------------------------
(* Which copies exist.                                                     *)

\* Copies that state.json does not know, bounded by what explains them.
Explained == deaths + faults + (IF step = "made" THEN 1 ELSE 0)

LEMMA OrphanCount ==
    ASSUME Shapes, CopiesInv
    PROVE  IsFiniteSet(Orphans) /\ Cardinality(Orphans) \in Nat /\ Cardinality(Orphans) <= Explained
           /\ deaths \in Nat /\ faults \in Nat /\ Explained \in Nat
<1>1. Orphans \subseteq alive /\ IsFiniteSet(alive)
  BY DEF Orphans, CopiesInv
<1>2. IsFiniteSet(Orphans)
  BY <1>1, FS_Subset
<1>3. Cardinality(Orphans) \in Nat
  BY <1>2, FS_CardinalityType
<1>4. deaths \in Nat /\ faults \in Nat
  BY DEF Shapes, WorldShapes
<1>5. Explained \in Nat
  BY <1>4 DEF Explained
<1>6. Cardinality(Orphans) <= Explained
  BY DEF CopiesInv, OrphansExplained, Explained
<1> QED  BY <1>2, <1>3, <1>4, <1>5, <1>6

LEMMA FewerOrphans ==
    ASSUME Shapes, CopiesInv, alive' \subseteq alive, \A x \in Item : disk'.map[x] = disk.map[x],
           Explained <= Explained', Explained' \in Nat
    PROVE  IsFiniteSet(alive') /\ OrphansExplained'
<1>1. IsFiniteSet(alive')
  BY FS_Subset DEF CopiesInv
<1>2. Orphans' \subseteq Orphans
  <2>1. \A c \in alive : c[1] \in Item
    BY DEF Shapes, WorldShapes, Born, Copies
  <2> QED  BY <2>1 DEF Orphans
<1>3. Cardinality(Orphans') <= Cardinality(Orphans) /\ Cardinality(Orphans') \in Nat
  BY <1>2, OrphanCount, FS_Subset, FS_CardinalityType
<1>4. Cardinality(Orphans') <= Explained'
  BY <1>3, OrphanCount
<1> QED  BY <1>1, <1>4 DEF OrphansExplained, Explained

\* A new copy is one orphan more.
LEMMA OneOrphan ==
    ASSUME Shapes, CopiesInv, NEW x \in Item, MakeCopy(x), \A y \in Item : disk'.map[y] = disk.map[y],
           Explained + 1 <= Explained', Explained' \in Nat
    PROVE  IsFiniteSet(alive') /\ OrphansExplained'
<1>1. PICK c : c = <<x, made[x] + 1>>
  OBVIOUS
<1>2. alive' = alive \union {c}
  BY <1>1 DEF MakeCopy
<1>3. IsFiniteSet(alive')
  BY <1>2, FS_AddElement DEF CopiesInv
<1>4. Orphans' \subseteq Orphans \union {c}
  <2>1. \A b \in alive : b[1] \in Item
    BY DEF Shapes, WorldShapes, Born, Copies
  <2> QED  BY <1>2, <2>1 DEF Orphans
<1>5. IsFiniteSet(Orphans \union {c}) /\ Cardinality(Orphans \union {c}) <= Cardinality(Orphans) + 1
  <2>1. IsFiniteSet(Orphans) /\ Cardinality(Orphans) \in Nat
    BY OrphanCount
  <2>2. /\ IsFiniteSet(Orphans \union {c})
        /\ Cardinality(Orphans \union {c}) = IF c \in Orphans THEN Cardinality(Orphans) ELSE Cardinality(Orphans) + 1
    BY <2>1, FS_AddElement
  <2> QED  BY <2>1, <2>2
<1>6. Cardinality(Orphans') <= Cardinality(Orphans) + 1
  <2>1. /\ Cardinality(Orphans') <= Cardinality(Orphans \union {c}) /\ Cardinality(Orphans') \in Nat
        /\ Cardinality(Orphans \union {c}) \in Nat
    BY <1>4, <1>5, FS_Subset, FS_CardinalityType
  <2> QED  BY <1>5, <2>1, OrphanCount
<1>7. Cardinality(Orphans') \in Nat
  BY <1>4, <1>5, FS_Subset, FS_CardinalityType
<1>8. Cardinality(Orphans') <= Explained'
  BY <1>6, <1>7, OrphanCount
<1> QED  BY <1>3, <1>8 DEF OrphansExplained, Explained

\* Steps of a classified repair that make no copy, record none and take up no job.
LEMMA CopiesKept ==
    ASSUME Shapes, CopiesInv, Classified, step \notin {"make", "made"}, step' \notin {"make", "made"},
           jobs' = jobs, alive' = alive, mem'.map = mem.map, disk'.map = disk.map,
           deaths' = deaths, faults' \in {faults, faults + 1},
           \A p \in posts' : (\E q \in posts : q.ref = p.ref) \/ <<p.ref.src[1], p.ref.copy>> \in alive,
           step' \in {"dress", "patch", "clear", "replace", "send"} =>
               step \in {"dress", "patch", "clear", "replace", "send"} /\ job' = job
    PROVE  CopiesInv'
<1>1. Explained <= Explained' /\ Explained' \in Nat
  BY OrphanCount DEF Explained
<1>2. IsFiniteSet(alive') /\ OrphansExplained'
  BY <1>1, FewerOrphans
<1>3. Making = {} /\ Making' = {}
  BY DEF Making
<1>4. \A p \in posts' : <<p.ref.src[1], p.ref.copy>> \in alive'
  BY DEF CopiesInv
<1> QED  BY <1>2, <1>3, <1>4 DEF CopiesInv, Copy, Kind, Thing, Classified

LEMMA CheckCopies ==
    ASSUME Shapes, OneInv, CopiesInv, Check PROVE CopiesInv'
<1>1. /\ step = "idle" /\ step' = "classify" /\ UNCHANGED <<alive, posts, jobs, mem, disk, deaths, faults>>
      /\ jobs = {}
  BY DEF Check, server, files, OneInv, Synced, Shapes, RunShapes
<1>2. Explained <= Explained' /\ Explained' \in Nat
  BY <1>1, OrphanCount DEF Explained
<1>3. IsFiniteSet(alive') /\ OrphansExplained'
  BY <1>1, <1>2, FewerOrphans
<1> QED  BY <1>1, <1>3 DEF CopiesInv, Copy, Classified

LEMMA ClassifyCopies ==
    ASSUME Shapes, CopiesInv, Classify PROVE CopiesInv'
<1>1. /\ step = "classify" /\ step' = "prepare" /\ UNCHANGED <<alive, posts, mem, disk, deaths, faults>>
      /\ jobs' = Found
  BY DEF Classify, server, files, bounds
<1>2. Explained <= Explained' /\ Explained' \in Nat
  BY <1>1, OrphanCount DEF Explained
<1>3. IsFiniteSet(alive') /\ OrphansExplained'
  BY <1>1, <1>2, FewerOrphans
<1>4. \A j \in Found : /\ j[1] \in Creating => Copy(j[2]) \notin alive
                       /\ j[1] \in {"tail", "rebuild"} => Copy(j[2]) \in alive
  BY DEF Found, Creating, Missing, TailAbsent
<1>5. \A x \in Role \union Channel \union Emoji :
         Copy(x) \in alive \/ \E j \in Found : j[1] \in Creating /\ j[2] = x
  <2> SUFFICES ASSUME NEW x \in Role \union Channel \union Emoji, Copy(x) \notin alive
               PROVE  \E j \in Found : j[1] \in Creating /\ j[2] = x
    OBVIOUS
  <2>1. CASE x \in Role
    <3>1. <<"role", x>> \in Found
      BY <2>1 DEF Found, Missing
    <3> QED  BY <3>1 DEF Creating
  <2>2. CASE x \in Channel
    <3>1. <<"channel", x>> \in Found
      BY <2>2 DEF Found, Missing
    <3> QED  BY <3>1 DEF Creating
  <2>3. CASE x \in Emoji
    <3>1. <<"emoji", x>> \in Found
      BY <2>3 DEF Found, Missing
    <3> QED  BY <3>1 DEF Creating
  <2> QED  BY <2>1, <2>2, <2>3
<1>6. Making' = {} /\ \A x : Copy(x)' = Copy(x)
  BY <1>1 DEF Making, Copy
<1> QED  BY <1>1, <1>3, <1>4, <1>5, <1>6 DEF CopiesInv, Copy

LEMMA TakeJobCopies ==
    ASSUME Shapes, CopiesInv, TakeJob PROVE CopiesInv'
<1>1. PICK j \in jobs : job' = j /\ jobs' = jobs \ {j} /\ step' = First[j[1]]
  BY DEF TakeJob
<1>2. step = "next" /\ UNCHANGED <<alive, posts, mem, disk, deaths, faults>>
  BY DEF TakeJob, server, files, bounds
<1>3. /\ j \in Jobs /\ step' \in {"make", "edit", "patch", "clear", "replace"}
      /\ step' = "clear" => j[1] = "rebuild"
      /\ step' = "replace" => j[1] = "tail"
      /\ step' = "patch" => j[1] = "category"
      /\ step' = "make" => j[1] \in Creating
      /\ step' # "make" => j[1] \notin Creating
  BY <1>1, FirstSteps, JobThing DEF Shapes, RunShapes, First, Creating
<1>4. Explained <= Explained' /\ Explained' \in Nat
  BY <1>2, <1>3, OrphanCount DEF Explained
<1>5. IsFiniteSet(alive') /\ OrphansExplained'
  BY <1>2, <1>4, FewerOrphans
<1>6. \A x : Copy(x)' = Copy(x)
  BY <1>2 DEF Copy
<1>7. Making = {} /\ (step' = "make" => Making' = {j})
  BY <1>1, <1>2 DEF Making
<1>8. \A x \in Role \union Channel \union Emoji :
         Copy(x) \in alive \/ \E i \in jobs' \union Making' : i[1] \in Creating /\ i[2] = x
  <2>1. \A x \in Role \union Channel \union Emoji :
         Copy(x) \in alive \/ \E i \in jobs : i[1] \in Creating /\ i[2] = x
    BY <1>2, <1>7 DEF CopiesInv, Classified
  <2>2. \A i \in jobs : i[1] \in Creating => i \in jobs' \union Making'
    BY <1>1, <1>3, <1>7
  <2> QED  BY <2>1, <2>2
<1>9. /\ step' = "make" => Copy(j[2]) \notin alive
      /\ step' \in {"clear", "replace"} => Copy(j[2]) \in alive
      /\ step' = "patch" => j[1] \notin Sending
  BY <1>1, <1>3 DEF CopiesInv, Sending
<1>10. Kind' = j[1] /\ Thing' = j[2]
  BY <1>1 DEF Kind, Thing
<1>11. step' \in {"make", "made"} => Copy(Thing)' \notin alive'
  <2>1. Copy(Thing)' = Copy(Thing')
    BY <1>2 DEF Copy
  <2> QED  BY <1>2, <1>3, <1>9, <1>10, <2>1
<1>12. step' \in {"dress", "patch", "clear", "replace", "send"} /\ Kind' \in Sending => Copy(Thing)' \in alive'
  <2>1. Copy(Thing)' = Copy(Thing')
    BY <1>2 DEF Copy
  <2> QED  BY <1>2, <1>3, <1>9, <1>10, <2>1
<1>13. \A i \in jobs' : /\ i[1] \in Creating => Copy(i[2])' \notin alive'
                        /\ i[1] \in {"tail", "rebuild"} => Copy(i[2])' \in alive'
  BY <1>1, <1>2, <1>6 DEF CopiesInv
<1>14. step' # "made"
  BY <1>3
<1>15. \A p \in posts' : <<p.ref.src[1], p.ref.copy>> \in alive'
  BY <1>2 DEF CopiesInv
<1>16. \A x \in Role \union Channel \union Emoji :
         Copy(x)' \in alive' \/ \E i \in jobs' \union Making' : i[1] \in Creating /\ i[2] = x
  BY <1>2, <1>6, <1>8
<1> QED  BY <1>5, <1>11, <1>12, <1>13, <1>14, <1>15, <1>16 DEF CopiesInv

LEMMA DeclineCopies ==
    ASSUME Shapes, CopiesInv, Decline PROVE CopiesInv'
<1>1. /\ step \in {"make", "patch"} /\ step' = "close" /\ UNCHANGED <<alive, posts, mem, disk, jobs, deaths, faults>>
      /\ Kind \in {"category", "index"}
  BY DEF Decline, server, files, bounds, Undone
<1>2. Explained <= Explained' /\ Explained' \in Nat
  BY <1>1, OrphanCount DEF Explained
<1>3. IsFiniteSet(alive') /\ OrphansExplained'
  BY <1>1, <1>2, FewerOrphans
<1>4. Working
  BY <1>1, StepKinds DEF Working
<1>5. \A x \in Role \union Channel \union Emoji : job[1] \in Creating => job[2] # x
  BY <1>1, <1>4, AtWork, RepairAssumption DEF Kind, Thing, Creating
<1>6. Making' = {} /\ Making \subseteq {job} /\ \A x : Copy(x)' = Copy(x)
  BY <1>1 DEF Making, Copy
<1>7. \A x \in Role \union Channel \union Emoji :
         Copy(x) \in alive \/ \E j \in jobs : j[1] \in Creating /\ j[2] = x
  BY <1>1, <1>5, <1>6 DEF CopiesInv, Classified
<1> QED  BY <1>1, <1>3, <1>6, <1>7 DEF CopiesInv

LEMMA MakeCopies ==
    ASSUME Shapes, CopiesInv, Make PROVE CopiesInv'
<1>1. /\ step = "make" /\ step' = "made" /\ MakeCopy(Thing) /\ UNCHANGED <<posts, mem, disk, jobs, job, deaths, faults>>
  BY DEF Make, files, bounds
<1>2. Working /\ Kind \in Creating /\ Thing \in Item
  BY <1>1, StepKinds, AtWork DEF Working, Creating
<1>3. Explained + 1 <= Explained' /\ Explained' \in Nat
  BY <1>1, OrphanCount DEF Explained
<1>4. PICK x \in Item : x = Thing
  BY <1>2
<1>5. IsFiniteSet(alive') /\ OrphansExplained'
  BY <1>1, <1>3, <1>4, OneOrphan
<1>6. alive' = alive \union {<<x, made[x] + 1>>} /\ <<x, made[x] + 1>> \notin Born /\ made'[x] = made[x] + 1
  BY <1>1, <1>4, BornGrows DEF MakeCopy
<1>7. \A y : Copy(y)' = Copy(y)
  BY <1>1 DEF Copy
<1>8. \A y \in Item : Copy(y) \in alive' => Copy(y) \in alive
  BY <1>6, CopyBorn
<1>9. \A j \in jobs : /\ j[1] \in Creating => Copy(j[2]) \notin alive'
                      /\ j[1] \in {"tail", "rebuild"} => Copy(j[2]) \in alive'
  <2>1. \A j \in jobs : j[1] \in Creating => j[2] \in Item
    BY JobThing DEF Shapes, RunShapes, Creating
  <2> QED  BY <1>6, <1>8, <2>1 DEF CopiesInv
<1>10. Copy(Thing) \notin alive' /\ <<Thing, made'[Thing]>> \in alive'
  BY <1>1, <1>2, <1>4, <1>6, <1>8 DEF CopiesInv
<1>11. Making' = Making
  BY <1>1 DEF Making
<1>12. Classified' => Classified
  BY <1>1 DEF Classified
<1>13. \A y \in Role \union Channel \union Emoji :
          Copy(y) \in alive' \/ \E j \in jobs \union Making : j[1] \in Creating /\ j[2] = y
  BY <1>1, <1>6 DEF CopiesInv, Classified
<1>14. \A p \in posts' : <<p.ref.src[1], p.ref.copy>> \in alive'
  BY <1>1, <1>6 DEF CopiesInv
<1>15. Thing' = Thing
  BY <1>1 DEF Thing
<1>16. \A j \in jobs' : /\ j[1] \in Creating => Copy(j[2])' \notin alive'
                        /\ j[1] \in {"tail", "rebuild"} => Copy(j[2])' \in alive'
  BY <1>1, <1>7, <1>9
<1>17. Copy(Thing)' = Copy(Thing)
  BY <1>1, <1>15 DEF Copy
<1>18. \A y \in Role \union Channel \union Emoji :
          Copy(y)' \in alive' \/ \E j \in jobs' \union Making' : j[1] \in Creating /\ j[2] = y
  BY <1>1, <1>7, <1>11, <1>13
<1> QED  BY <1>1, <1>5, <1>10, <1>14, <1>15, <1>16, <1>17, <1>18 DEF CopiesInv

LEMMA RecordCopies ==
    ASSUME Shapes, OneInv, CopiesInv, Record PROVE CopiesInv'
<1>1. /\ step = "made" /\ UNCHANGED <<alive, posts, jobs, job, deaths, faults, made>> /\ step' \in {"edit", "dress"}
      /\ Thing \in Item /\ Kind \in Creating /\ Thing' = Thing /\ Kind' = Kind /\ disk' = mem'
      /\ mem.map[Thing] < made[Thing] /\ job \notin jobs /\ job = <<Kind, Thing>> /\ job \in Jobs
  BY RecordFacts, AtWork DEF Record, server, bounds, OneInv
<1>2. mem \in State /\ disk.map = mem.map /\ mem'.map = [mem.map EXCEPT ![Thing] = made[Thing]]
  BY Basics, RecordFacts
<1>3. mem'.map[Thing] = made[Thing] /\ \A y \in Item : y # Thing => mem'.map[y] = mem.map[y]
  BY <1>1, <1>2 DEF State
<1>4. PICK c : c = <<Thing, made[Thing]>>
  OBVIOUS
<1>5. c \in Orphans
  <2>1. made[Thing] # disk.map[Thing]
    BY <1>1, <1>2, CopyBorn
  <2> QED  BY <1>1, <1>4, <2>1 DEF CopiesInv, Orphans
<1>6. Orphans' \subseteq Orphans \ {c}
  <2> SUFFICES ASSUME NEW a \in alive, a[2] # mem'.map[a[1]]
               PROVE  a \in Orphans /\ a # c
    BY <1>1 DEF Orphans
  <2>1. a[1] \in Item /\ a = <<a[1], a[2]>>
    BY DEF Shapes, WorldShapes, Born, Copies
  <2>2. CASE a[1] = Thing
    <3>1. a # Copy(Thing)
      BY <1>1 DEF CopiesInv
    <3> QED  BY <1>2, <1>3, <1>4, <2>1, <2>2, <3>1 DEF Orphans, Copy
  <2>3. CASE a[1] # Thing
    BY <1>2, <1>3, <1>4, <2>1, <2>3 DEF Orphans
  <2> QED  BY <2>2, <2>3
<1>7. OrphansExplained'
  <2>1. IsFiniteSet(Orphans) /\ Cardinality(Orphans) \in Nat /\ Cardinality(Orphans) <= Explained /\ Explained \in Nat
        /\ deaths \in Nat /\ faults \in Nat
    BY OrphanCount
  <2>2. /\ IsFiniteSet(Orphans \ {c}) /\ Cardinality(Orphans \ {c}) = Cardinality(Orphans) - 1
        /\ Cardinality(Orphans \ {c}) \in Nat
    BY <1>5, <2>1, FS_RemoveElement, FS_CardinalityType
  <2>3. Cardinality(Orphans') <= Cardinality(Orphans \ {c}) /\ Cardinality(Orphans') \in Nat
    BY <1>6, <2>2, FS_Subset, FS_CardinalityType
  <2>4. Explained = deaths + faults + 1
    BY <1>1 DEF Explained
  <2>5. Cardinality(Orphans') <= deaths + faults
    BY <2>1, <2>2, <2>3, <2>4
  <2> QED  BY <1>1, <2>1, <2>5 DEF OrphansExplained
<1>8. \A y \in Item : y # Thing => Copy(y)' = Copy(y)
  BY <1>3 DEF Copy
<1>9. Copy(Thing)' = <<Thing, made[Thing]>> /\ Copy(Thing)' \in alive /\ <<Thing, mem'.map[Thing]>> \in alive
  BY <1>1, <1>3 DEF Copy, CopiesInv
<1>10. \A j \in jobs' : /\ j[1] \in Creating => Copy(j[2])' \notin alive'
                        /\ j[1] \in {"tail", "rebuild"} => Copy(j[2])' \in alive'
  <2> SUFFICES ASSUME NEW j \in jobs
               PROVE  /\ j[1] \in Creating => Copy(j[2])' \notin alive
                      /\ j[1] \in {"tail", "rebuild"} => Copy(j[2])' \in alive
    BY <1>1
  <2>1. j \in Jobs
    BY Basics
  <2>2. CASE j[2] = Thing
    <3>1. j[1] \in Creating => j[1] = Kind
      BY <1>1, <2>1, <2>2, JobThing, AtWork, RecordFacts, RepairAssumption DEF Creating
    <3>2. j[1] \notin Creating
      BY <1>1, <2>1, <2>2, <3>1, JobThing
    <3>3. Copy(j[2])' \in alive
      BY <1>9, <2>2 DEF Copy
    <3> QED  BY <3>2, <3>3
  <2>3. CASE j[2] # Thing
    <3>1. j[1] \in Creating \union {"tail", "rebuild"} => j[2] \in Item
      BY <2>1, JobThing DEF Creating
    <3>2. j[2] \in Item => Copy(j[2])' = Copy(j[2])
      BY <1>8, <2>3
    <3> QED  BY <3>1, <3>2 DEF CopiesInv
  <2> QED  BY <2>2, <2>3
<1>11. Making' = {} /\ Making = {job}
  BY <1>1 DEF Making
<1>12. \A y \in Role \union Channel \union Emoji :
          Copy(y)' \in alive' \/ \E j \in jobs' \union Making' : j[1] \in Creating /\ j[2] = y
  <2> SUFFICES ASSUME NEW y \in Role \union Channel \union Emoji
               PROVE  Copy(y)' \in alive \/ \E j \in jobs : j[1] \in Creating /\ j[2] = y
    BY <1>1
  <2>1. CASE y = Thing
    BY <1>9, <2>1 DEF Copy
  <2>2. CASE y # Thing
    <3>1. Copy(y)' = Copy(y)
      BY <1>8, <2>2 DEF Item
    <3>2. job[2] # y
      BY <2>2 DEF Thing
    <3> QED  BY <1>1, <1>11, <3>1, <3>2 DEF CopiesInv, Classified
  <2> QED  BY <2>1, <2>2
<1>13. \A p \in posts' : <<p.ref.src[1], p.ref.copy>> \in alive'
  BY <1>1 DEF CopiesInv
<1>14. IsFiniteSet(alive')
  BY <1>1 DEF CopiesInv
<1>15. Copy(Thing)' \in alive'
  BY <1>1, <1>9
<1> QED  BY <1>1, <1>7, <1>10, <1>12, <1>13, <1>14, <1>15 DEF CopiesInv

LEMMA AtWorkCopies ==
    ASSUME Shapes, OneInv, CopiesInv,
           Prepare \/ TakeFailures \/ Dress \/ Patch \/ Clear \/ Replace \/ AllSent \/ Close
             \/ (\E s \in Source : Edit(s)) \/ EndEdits \/ EndRetry
    PROVE  CopiesInv'
<1>1. CASE Prepare
  BY <1>1, CopiesKept DEF Prepare, files, bounds, Classified
<1>2. CASE TakeFailures
  BY <1>2, CopiesKept DEF TakeFailures, server, files, bounds, Classified
<1>3. CASE Dress
  <2>1. step = "dress" /\ UNCHANGED <<posts, alive, mem, disk, jobs, job, deaths, faults>>
    BY <1>3 DEF Dress, files, bounds
  <2>2. step' \in {"next", "replace", "patch"}
    BY <1>3, <2>1, AtWork, StepKinds DEF Dress, Working
  <2> QED  BY <2>1, <2>2, CopiesKept DEF Classified
<1>4. CASE Patch
  BY <1>4, CopiesKept DEF Patch, files, bounds, Classified
<1>5. CASE Clear
  <2>1. step = "clear" /\ step' = "replace" /\ UNCHANGED <<posts, alive, disk, jobs, job, deaths, faults>>
    BY <1>5 DEF Clear, server, files, bounds
  <2> QED  BY <1>5, <2>1, ClearFacts, CopiesKept DEF Classified
<1>6. CASE Replace
  <2>1. step = "replace" /\ step' = "send" /\ UNCHANGED <<posts, alive, jobs, job, deaths, faults>>
    BY <1>6 DEF Replace, server, bounds
  <2>2. mem'.map = mem.map /\ disk'.map = disk.map
    BY <1>6, ReplaceFacts, Basics
  <2> QED  BY <2>1, <2>2, CopiesKept DEF Classified
<1>7. CASE AllSent
  <2>1. step = "replace" /\ step' \in {"patch", "close"} /\ UNCHANGED <<posts, alive, disk, jobs, job, deaths, faults>>
    BY <1>7 DEF AllSent, server, files, bounds
  <2> QED  BY <1>7, <2>1, AllSentFacts, CopiesKept DEF Classified
<1>8. CASE Close
  <2>1. step = "close" /\ step' = "next" /\ UNCHANGED <<posts, alive, jobs, job, deaths, faults>>
    BY <1>8 DEF Close, server, bounds
  <2> QED  BY <1>8, <2>1, CloseFacts, Basics, CopiesKept DEF Classified
<1>9. CASE \E s \in Source : Edit(s)
  <2>1. PICK s \in Source : Edit(s)
    BY <1>9
  <2>2. step = "edit" /\ step' = "edit" /\ UNCHANGED <<alive, mem, disk, jobs, job, deaths>>
    BY <2>1 DEF Edit, files
  <2>3. \A p \in posts' : \E q \in posts : q.ref = p.ref
    BY <2>1, EditFacts
  <2>4. faults' \in {faults, faults + 1}
    BY <2>1 DEF Edit, Fault, NoFault
  <2> QED  BY <2>2, <2>3, <2>4, CopiesKept DEF Classified
<1>10. CASE EndEdits
  <2>1. step = "edit" /\ step' = "next" /\ UNCHANGED <<posts, alive, jobs, job, deaths, faults>>
    BY <1>10 DEF EndEdits, server, bounds
  <2>2. mem'.map = mem.map /\ disk'.map = disk.map
    BY <1>10, EndEditsFacts, Basics
  <2> QED  BY <2>1, <2>2, CopiesKept DEF Classified
<1>11. CASE EndRetry
  <2>1. step = "retry" /\ step' = "finish" /\ UNCHANGED <<posts, alive, jobs, job, deaths, faults>>
    BY <1>11 DEF EndRetry, server, bounds
  <2> QED  BY <1>11, <2>1, EndRetryFacts, Basics, CopiesKept DEF Classified
<1> QED  BY <1>1, <1>2, <1>3, <1>4, <1>5, <1>6, <1>7, <1>8, <1>9, <1>10, <1>11

\* What is sent goes to a copy that exists.
LEMMA PendingAlive ==
    ASSUME Shapes, OneInv, CopiesInv, RecordsInv, NEW r, Pending(r)
    PROVE  <<r.src[1], r.copy>> \in alive /\ Copy(r.src[1]) \in alive /\ r.copy = mem.map[r.src[1]]
<1>1. r.copy = mem.map[r.src[1]]
  BY MayAttempt DEF Attempted, Mapped
<1>2. CASE step = "send" /\ r \in Begun(Here)
  <2>1. r.src[1] = Thing /\ Kind \in Sending
    BY <1>2, HereLeft, BegunFacts DEF Shapes, RunShapes
  <2>2. Copy(Thing) \in alive
    BY <1>2, <2>1 DEF CopiesInv
  <2> QED  BY <1>1, <2>1, <2>2 DEF Copy
<1>3. CASE step = "retry" /\ r \in todo
  <2>1. r.src[1] \in Channel /\ jobs = {} /\ Making = {}
    BY <1>3 DEF RecordsInv, Sound, Making, Shapes, RunShapes
  <2>2. Copy(r.src[1]) \in alive
    BY <1>3, <2>1 DEF CopiesInv, Classified
  <2> QED  BY <1>1, <2>2 DEF Copy
<1> QED  BY <1>2, <1>3 DEF Pending

LEMMA SendCopies ==
    ASSUME Shapes, OneInv, CopiesInv, RecordsInv, Send PROVE CopiesInv'
<1>1. step = "send" /\ step' = "replace" /\ UNCHANGED <<alive, disk, jobs, job, deaths>>
  BY DEF Send
<1>2. PICK r \in Begun(Here) : \E o \in Sends \union Breaks \union Settled(r, Shown(mem, r.src)) :
        Pending(r) /\ Deliver(r, o) /\ mem'.map = mem.map
  BY SendFacts
<1>3. PICK o \in Sends \union Breaks \union Settled(r, Shown(mem, r.src)) :
        Pending(r) /\ Deliver(r, o) /\ mem'.map = mem.map
  BY <1>2
<1>4. faults' \in {faults, faults + 1} /\ (posts' = posts \/ posts' = posts \union {Fresh(r)})
  BY <1>3, DeliverOutcome
<1>5. \A p \in posts' : (\E q \in posts : q.ref = p.ref) \/ <<p.ref.src[1], p.ref.copy>> \in alive
  BY <1>3, <1>4, PendingAlive, MayAttempt, FreshShape
<1> QED  BY <1>1, <1>3, <1>4, <1>5, CopiesKept DEF Classified

LEMMA RetryCopies ==
    ASSUME Shapes, OneInv, CopiesInv, RecordsInv, NEW r, RetryOne(r) PROVE CopiesInv'
<1>1. step = "retry" /\ step' = "retry" /\ mem'.map = mem.map /\ UNCHANGED <<alive, disk, jobs, job, deaths>>
  BY RetryFacts DEF RetryOne
<1>2. CASE UNCHANGED <<posts, receipts, mem, resolved, faults>>
  BY <1>1, <1>2, CopiesKept DEF Classified
<1>3. CASE \E o \in Sends \union Breaks \union Settled(r, Shown(mem, r.src)) : Pending(r) /\ Deliver(r, o)
  <2>1. PICK o \in Sends \union Breaks \union Settled(r, Shown(mem, r.src)) : Pending(r) /\ Deliver(r, o)
    BY <1>3
  <2>2. faults' \in {faults, faults + 1} /\ (posts' = posts \/ posts' = posts \union {Fresh(r)})
    BY <2>1, DeliverOutcome
  <2>3. \A p \in posts' : (\E q \in posts : q.ref = p.ref) \/ <<p.ref.src[1], p.ref.copy>> \in alive
    BY <2>1, <2>2, PendingAlive, MayAttempt, FreshShape
  <2> QED  BY <1>1, <2>2, <2>3, CopiesKept DEF Classified
<1> QED  BY <1>2, <1>3, RetryFacts

LEMMA HaltCopies ==
    ASSUME Shapes, OneInv, CopiesInv, RecordsInv, Halt PROVE CopiesInv'
<1>1. step' = "idle" /\ jobs' = {} /\ faults' \in {faults, faults + 1} /\ deaths' \in {deaths, deaths + 1}
      /\ (step = "made" => deaths' = deaths + 1)
  BY HaltFacts
<1>2. PICK Q, S : /\ CutOff(Q, S) /\ posts' = Q
                  /\ \/ /\ mem' = Saved(mem) /\ disk' = Saved(mem)
                        /\ receipts' = {q \in S : q.ref \notin mem.done}
                     \/ mem' = disk /\ disk' = disk /\ receipts' = S
  BY HaltFacts
<1>3. disk'.map = disk.map /\ mem'.map = mem.map
  BY <1>2, Basics, SavedFields
<1>4. IsFiniteSet(alive') /\ OrphansExplained' /\ alive \subseteq alive'
  <2>1. CASE UNCHANGED <<made, alive>>
    <3>1. Explained <= Explained' /\ Explained' \in Nat
      BY <1>1, OrphanCount DEF Explained
    <3> QED  BY <1>3, <2>1, <3>1, FewerOrphans
  <2>2. CASE step = "make" /\ Thing \in Item /\ MakeCopy(Thing) /\ faults' = faults + 1
    <3>1. Explained + 1 <= Explained' /\ Explained' \in Nat
      BY <1>1, <2>2, OrphanCount DEF Explained
    <3>2. PICK x \in Item : x = Thing
      BY <2>2
    <3> QED  BY <1>3, <2>2, <3>1, <3>2, OneOrphan DEF MakeCopy
  <2> QED  BY <2>1, <2>2, HaltFacts
<1>5. \A p \in posts' : <<p.ref.src[1], p.ref.copy>> \in alive'
  <2>1. CASE posts' = posts
    BY <1>4, <2>1 DEF CopiesInv
  <2>2. CASE \E r : Pending(r) /\ posts' = posts \union {Fresh(r)}
    <3>1. PICK r : Pending(r) /\ posts' = posts \union {Fresh(r)}
      BY <2>2
    <3>2. <<r.src[1], r.copy>> \in alive /\ Fresh(r).ref = r
      BY <3>1, PendingAlive, MayAttempt, FreshShape
    <3> QED  BY <1>4, <3>1, <3>2 DEF CopiesInv
  <2> QED  BY <1>2, <2>1, <2>2 DEF CutOff
<1> QED  BY <1>1, <1>4, <1>5 DEF CopiesInv, Classified

LEMMA PeopleCopies ==
    ASSUME Shapes, OneInv, CopiesInv, People PROVE CopiesInv'
<1>1. /\ step = "idle" /\ step' = "idle" /\ jobs' = {} /\ UNCHANGED <<mem, disk, faults, deaths>>
      /\ alive' \subseteq alive /\ posts' \subseteq posts
  BY PeopleFacts DEF files
<1>2. Explained <= Explained' /\ Explained' \in Nat
  BY <1>1, OrphanCount DEF Explained
<1>3. IsFiniteSet(alive') /\ OrphansExplained'
  BY <1>1, <1>2, FewerOrphans
<1>4. \A p \in posts' : <<p.ref.src[1], p.ref.copy>> \in alive'
  <2>1. CASE \E x \in Item : LoseItem(x)
    BY <2>1 DEF LoseItem, CopiesInv
  <2>2. CASE (\E k \in Category : LoseCategory(k)) \/ (\E p \in posts : LosePost(p))
    BY <2>2 DEF LoseCategory, LosePost, CopiesInv
  <2> QED  BY <2>1, <2>2, PeopleFacts
<1> QED  BY <1>1, <1>3, <1>4 DEF CopiesInv, Classified

LEMMA InitCopies ==
    ASSUME Init PROVE CopiesInv
<1>1. PICK b \in {{}} \union {{s} : s \in UNION {Text(c) : c \in Channel}} :
          /\ disk = Migrated(b)
          /\ posts = {[ref |-> Ref(s, 1, 0), emo |-> Shown(disk, s)] : s \in Source \ b}
  BY DEF Init
<1>2. b \in SUBSET Source
  BY <1>1 DEF Source
<1>3. disk.map = [x \in Item |-> 1] /\ step = "idle" /\ jobs = {} /\ alive = Item \X {1} /\ faults = 0 /\ deaths = 0
  BY <1>1, <1>2, MigratedShape DEF Init
<1>4. IsFiniteSet(alive)
  <2>1. IsFiniteSet(Item) /\ IsFiniteSet({1})
    BY RepairAssumption, FS_Singleton
  <2> QED  BY <1>3, <2>1, FS_Product
<1>5. Orphans = {}
  BY <1>3 DEF Orphans
<1>6. OrphansExplained
  BY <1>3, <1>5, FS_EmptySet DEF OrphansExplained
<1>7. \A p \in posts : <<p.ref.src[1], p.ref.copy>> \in alive
  <2> SUFFICES ASSUME NEW p \in posts PROVE <<p.ref.src[1], p.ref.copy>> \in alive
    OBVIOUS
  <2>1. PICK s \in Source \ b : p = [ref |-> Ref(s, 1, 0), emo |-> Shown(disk, s)]
    BY <1>1
  <2>2. p.ref.src = s /\ p.ref.copy = 1
    BY <2>1 DEF Ref
  <2> QED  BY <1>3, <2>2, Things
<1> QED  BY <1>3, <1>4, <1>6, <1>7 DEF CopiesInv, Classified

-----------------------------------------------------------------------------
(* Emoji.                                                                  *)

LEMMA OwnedLess ==
    ASSUME NEW P, NEW Q, NEW m, NEW n, OwnedBy(P, m), Q \subseteq P, n.sent \subseteq m.sent,
           \A e \in Emoji : n.map[e] = m.map[e], m.rewrite \subseteq n.rewrite
    PROVE  OwnedBy(Q, n)
BY DEF OwnedBy

LEMMA AgreeLess ==
    ASSUME NEW P, NEW Q, NEW R, NEW S, Agree(P, R), Q \subseteq P, S \subseteq R
    PROVE  Agree(Q, S)
BY DEF Agree

\* A delivery that is recorded shows what the map names now.
LEMMA OwnedMore ==
    ASSUME Shapes, NEW P, NEW Q, NEW m, NEW n, NEW r \in Refs, OwnedBy(P, m), m.map = mem.map,
           n.map = m.map, n.rewrite = m.rewrite, n.sent \subseteq m.sent \union {r}, Q \subseteq P \union {Fresh(r)},
           r \in n.sent \ m.sent => \A p \in Q : p.ref = r => p.emo = Shown(mem, r.src)
    PROVE  OwnedBy(Q, n)
<1> SUFFICES ASSUME NEW p \in Q, p.ref \in n.sent, NEW e \in Emoji, Shows(p, e)
             PROVE  p.emo = n.map[e] \/ e \in n.rewrite
  BY DEF OwnedBy
<1>1. Fresh(r).ref = r /\ Fresh(r).emo = Shown(mem, r.src)
  BY FreshShape
<1>2. CASE p.ref = r /\ p.emo = Shown(mem, r.src)
  <2>1. r.src \in DOMAIN EmojiIn /\ EmojiIn[r.src] = e
    BY <1>2 DEF Shows
  <2>2. Shown(mem, r.src) = mem.map[e]
    BY <2>1, ShownNumber
  <2> QED  BY <1>2, <2>2
<1>3. CASE ~(p.ref = r /\ p.emo = Shown(mem, r.src))
  <2>1. p \in P
    BY <1>1, <1>3
  <2>2. p.ref \in m.sent
    BY <1>3
  <2> QED  BY <2>1, <2>2 DEF OwnedBy
<1> QED  BY <1>2, <1>3

\* What an attempt leaves agrees.
LEMMA AgreeAttempt ==
    ASSUME Shapes, OneInv, EmojiInv, NEW r, Pending(r), NEW Q, NEW S,
           Q = posts \/ (Q = posts \union {Fresh(r)} /\ Unsent(r)),
           \A q \in S : q.ref # r => q \in receipts,
           \A q \in S : q.ref = r => \/ Unsent(r) /\ q.emo = Shown(mem, r.src)
                                     \/ ~Unsent(r) /\ \E z \in receipts : z.ref = r /\ z.emo = q.emo
    PROVE  Agree(Q, S)
<1> SUFFICES ASSUME NEW p \in Q, NEW q \in S, p.ref = q.ref PROVE p.emo = q.emo
  BY DEF Agree
<1>1. Fresh(r).ref = r /\ Fresh(r).emo = Shown(mem, r.src)
  BY MayAttempt, FreshShape
<1>2. Agree(posts, receipts)
  BY DEF EmojiInv
<1>3. CASE q.ref # r
  <2>1. p \in posts /\ q \in receipts
    BY <1>1, <1>3
  <2> QED  BY <1>2, <2>1 DEF Agree
<1>4. CASE q.ref = r /\ Unsent(r)
  <2>1. p \notin posts
    BY <1>4, MayAttempt
  <2> QED  BY <1>1, <1>4, <2>1
<1>5. CASE q.ref = r /\ ~Unsent(r)
  <2>1. p \in posts
    BY <1>5
  <2>2. PICK z \in receipts : z.ref = r /\ z.emo = q.emo
    BY <1>5
  <2> QED  BY <1>2, <1>5, <2>1, <2>2 DEF Agree
<1> QED  BY <1>3, <1>4, <1>5

\* While no message is edited.
LEMMA EmojiKept ==
    ASSUME Shapes, OneInv, EmojiInv, posts' \subseteq posts, receipts' \subseteq receipts,
           mem'.sent \subseteq mem.sent, \A e \in Emoji : mem'.map[e] = mem.map[e], mem.rewrite \subseteq mem'.rewrite,
           (disk' = disk \/ disk' = mem'), step' # "edit"
    PROVE  EmojiInv'
<1>1. OwnedBy(posts', mem')
  <2>1. OwnedBy(posts, mem)
    BY DEF EmojiInv
  <2>2. PICK n, Q : n = mem' /\ Q = posts'
    OBVIOUS
  <2>3. OwnedBy(Q, n)
    BY <2>1, <2>2, OwnedLess
  <2> QED  BY <2>2, <2>3
<1>2. OwnedBy(posts', disk')
  <2>1. OwnedBy(posts', disk)
    BY OwnedLess DEF EmojiInv
  <2> QED  BY <1>1, <2>1
<1>3. Agree(posts', receipts')
  BY AgreeLess DEF EmojiInv
<1> QED  BY <1>1, <1>2, <1>3 DEF EmojiInv

\* A post that can be edited has no receipt left.
LEMMA EditedApart ==
    ASSUME Shapes, OneInv, RecordsInv, step = "edit", NEW p \in posts, p.ref \in mem.sent, p.ref.src \in DOMAIN EmojiIn,
           NEW q \in receipts
    PROVE  q.ref # p.ref
<1>1. mem.done = {}
  BY DEF OneInv, DoneInv
<1>2. p.ref.src[1] \in Channel
  BY RepairAssumption
<1>3. Mapped(p.ref, mem) /\ p.ref \notin mem.next
  BY <1>1, <1>2 DEF RecordsInv, Sound
<1> QED  BY <1>1, <1>3, Basics DEF Deliveries, Owed

\* The messages to edit are all that show the emoji and can be addressed.
LEMMA ReferencingAll ==
    ASSUME Shapes, OneInv, CopiesInv, RecordsInv, NEW e \in Emoji
    PROVE  /\ \A s \in Referencing(e) : s \in DOMAIN EmojiIn /\ EmojiIn[s] = e
           /\ \A p \in posts : p.ref \in mem.sent /\ Shows(p, e) => p.ref.src \in Referencing(e)
<1>1. ASSUME NEW p \in posts, p.ref \in mem.sent, Shows(p, e)
      PROVE  <<"channel", p.ref.src[1]>> \notin jobs
  <2>1. p.ref.src[1] \in Channel
    BY <1>1, RepairAssumption DEF Shows
  <2>2. p.ref.copy = mem.map[p.ref.src[1]]
    BY <1>1, <2>1 DEF RecordsInv, Sound, Mapped
  <2>3. Copy(p.ref.src[1]) \in alive
    BY <2>2 DEF CopiesInv, Copy
  <2>4. \A x : <<"channel", x>> \in jobs => Copy(x) \notin alive
    BY DEF CopiesInv, Creating
  <2> QED  BY <2>3, <2>4
<1> QED  BY <1>1 DEF Referencing, Shows

LEMMA QuietEmoji ==
    ASSUME Shapes, OneInv, EmojiInv,
           Check \/ Classify \/ Prepare \/ TakeFailures \/ Decline \/ Make \/ Dress \/ Patch \/ Clear \/ Replace
             \/ AllSent \/ Close
    PROVE  EmojiInv'
<1>1. CASE Check
  BY <1>1, EmojiKept, Basics DEF Check, server, files, OneInv, Synced
<1>2. CASE Classify
  BY <1>2, EmojiKept DEF Classify, server, files
<1>3. CASE Prepare
  BY <1>3, EmojiKept DEF Prepare, files
<1>4. CASE TakeFailures
  BY <1>4, EmojiKept DEF TakeFailures, server, files
<1>5. CASE Decline
  BY <1>5, EmojiKept DEF Decline, server, files
<1>6. CASE Make
  BY <1>6, EmojiKept DEF Make, files
<1>7. CASE Dress
  <2>1. UNCHANGED <<posts, receipts, mem, disk>>
    BY <1>7 DEF Dress, files
  <2>2. step' # "edit"
    BY <1>7, AtWork, StepKinds DEF Dress, Working
  <2> QED  BY <2>1, <2>2, EmojiKept
<1>8. CASE Patch
  BY <1>8, EmojiKept DEF Patch, files
<1>9. CASE Clear
  <2>1. UNCHANGED <<posts, receipts, disk>>
    BY <1>9 DEF Clear, server, files
  <2> QED  BY <1>9, <2>1, ClearFacts, EmojiKept
<1>10. CASE Replace
  <2>1. posts' = posts /\ step' = "send"
    BY <1>10 DEF Replace, server
  <2>2. receipts' \subseteq receipts /\ mem'.sent = mem.sent /\ mem'.map = mem.map /\ mem'.rewrite = mem.rewrite
    BY <1>10, ReplaceFacts
  <2>3. disk' = disk \/ disk' = mem'
    BY <1>10, ReplaceFacts
  <2> QED  BY <2>1, <2>2, <2>3, EmojiKept
<1>11. CASE AllSent
  <2>1. UNCHANGED <<posts, receipts, disk>> /\ step' \in {"patch", "close"}
    BY <1>11 DEF AllSent, server, files
  <2> QED  BY <1>11, <2>1, AllSentFacts, EmojiKept
<1>12. CASE Close
  <2>1. posts' = posts
    BY <1>12 DEF Close, server
  <2> QED  BY <1>12, <2>1, CloseFacts, EmojiKept
<1> QED  BY <1>1, <1>2, <1>3, <1>4, <1>5, <1>6, <1>7, <1>8, <1>9, <1>10, <1>11, <1>12

LEMMA TakeJobEmoji ==
    ASSUME Shapes, OneInv, CopiesInv, RecordsInv, EmojiInv, TakeJob PROVE EmojiInv'
<1>1. PICK j \in jobs : /\ job' = j /\ step' = First[j[1]]
                        /\ todo' = CASE j[1] = "resume" -> Referencing(j[2])
                                     [] j[1] = "tail" -> {Last(j[2])}
                                     [] OTHER -> {}
  BY DEF TakeJob
<1>2. UNCHANGED <<posts, receipts, mem, disk>>
  BY DEF TakeJob, server, files
<1>3. j \in Jobs /\ (step' = "edit" => j[1] = "resume")
  BY <1>1, FirstSteps DEF Shapes, RunShapes
<1>4. CASE step' # "edit"
  BY <1>2, <1>4, EmojiKept
<1>5. CASE step' = "edit"
  <2>1. j[2] \in Emoji /\ todo' = Referencing(j[2]) /\ Thing' = j[2]
    BY <1>1, <1>3, <1>5, JobThing DEF Thing
  <2>2. /\ \A s \in todo' : s \in DOMAIN EmojiIn /\ EmojiIn[s] = Thing'
        /\ \A p \in posts : p.ref \in mem.sent /\ Shows(p, Thing') => p.ref.src \in todo'
    BY <2>1, ReferencingAll
  <2>3. OwnedBy(posts', mem') /\ OwnedBy(posts', disk') /\ Agree(posts', receipts')
    BY <1>2 DEF EmojiInv
  <2> QED  BY <1>2, <2>2, <2>3 DEF EmojiInv
<1> QED  BY <1>4, <1>5

LEMMA RecordEmoji ==
    ASSUME Shapes, OneInv, CopiesInv, RecordsInv, EmojiInv, Record PROVE EmojiInv'
<1>1. UNCHANGED <<posts, jobs>> /\ receipts' \subseteq receipts /\ disk' = mem' /\ mem' \in State /\ Thing' = Thing
      /\ step' = (IF Kind = "emoji" THEN "edit" ELSE "dress") /\ mem'.sent \subseteq mem.sent /\ Kind \in Creating
      /\ Thing \in Item
  BY RecordFacts DEF Record, server
<1>2. mem'.map = [mem.map EXCEPT ![Thing] = made[Thing]] /\ mem \in State
  BY RecordFacts, Basics
<1>3. CASE Kind # "emoji"
  <2>1. Thing \notin Emoji
    BY <1>1, <1>3, AtWork, RecordFacts, RepairAssumption DEF Creating
  <2>2. \A e \in Emoji : mem'.map[e] = mem.map[e]
    BY <1>2, <2>1 DEF State, Item
  <2>3. mem'.rewrite = mem.rewrite
    BY <1>3, RecordFacts
  <2> QED  BY <1>1, <1>3, <2>2, <2>3, EmojiKept
<1>4. CASE Kind = "emoji"
  <2>1. Thing \in Emoji /\ mem'.rewrite = mem.rewrite \union {Thing} /\ mem'.sent = mem.sent
        /\ todo' = Referencing(Thing) /\ step' = "edit"
    BY <1>1, <1>4, RecordFacts, AtWork DEF Record
  <2>2. \A e \in Emoji : e # Thing => mem'.map[e] = mem.map[e]
    BY <1>2 DEF State, Item
  <2>3. OwnedBy(posts, mem')
    BY <2>1, <2>2 DEF EmojiInv, OwnedBy
  <2>4. Agree(posts', receipts')
    BY <1>1, AgreeLess DEF EmojiInv
  <2>5. /\ \A s \in todo' : s \in DOMAIN EmojiIn /\ EmojiIn[s] = Thing
        /\ \A p \in posts : p.ref \in mem.sent /\ Shows(p, Thing) => p.ref.src \in todo'
    BY <2>1, ReferencingAll
  <2> QED  BY <1>1, <2>1, <2>3, <2>4, <2>5 DEF EmojiInv
<1> QED  BY <1>3, <1>4

\* An attempt keeps what posts show, whether its delivery is recorded or not.
LEMMA AttemptEmoji ==
    ASSUME Shapes, OneInv, OneInv', EmojiInv, NEW r, Pending(r),
           NEW o \in Sends \union Breaks \union Settled(r, Shown(mem, r.src)), Deliver(r, o),
           disk' = disk, step' # "edit", mem'.map = mem.map, mem'.rewrite = mem.rewrite,
           o.ok => mem'.sent = {q \in mem.sent : q.src # r.src} \union {r},
           ~o.ok => mem'.sent = mem.sent
    PROVE  EmojiInv'
<1>1. r \in Refs /\ o.ok \in BOOLEAN
  BY MayAttempt, DeliverOutcome
<1>2. /\ posts' = posts \/ (posts' = posts \union {Fresh(r)} /\ Unsent(r))
      /\ \A q \in receipts' : q.ref # r => q \in receipts
      /\ \A q \in receipts' : q.ref = r =>
                 \/ Unsent(r) /\ q.emo = Shown(mem, r.src)
                 \/ ~Unsent(r) /\ \E z \in receipts : z.ref = r /\ z.emo = q.emo
  BY DeliverOutcome DEF Attempt
<1>3. PICK Q, S : Q = posts' /\ S = receipts'
  OBVIOUS
<1>4. Agree(posts', receipts')
  BY <1>2, <1>3, AgreeAttempt
<1>5. o.ok => \A p \in posts' : p.ref = r => p.emo = Shown(mem, r.src)
  <2> SUFFICES ASSUME o.ok, NEW p \in posts', p.ref = r PROVE p.emo = Shown(mem, r.src)
    OBVIOUS
  <2>1. CASE Fresh(r) \in posts'
    <3>1. Fresh(r).ref = r /\ Fresh(r).emo = Shown(mem, r.src)
      BY <1>1, FreshShape
    <3>2. p = Fresh(r)
      BY <2>1, <3>1 DEF OneInv, Deliveries, OneEach
    <3> QED  BY <3>1, <3>2
  <2>2. CASE posts' = posts /\ \E q \in receipts : q.ref = r /\ q.emo = Shown(mem, r.src)
    BY <2>2 DEF EmojiInv, Agree
  <2> QED  BY <2>1, <2>2, DeliverOutcome
<1>6. OwnedBy(posts, mem) /\ OwnedBy(posts, disk) /\ disk.map = mem.map
  BY Basics DEF EmojiInv
<1>7. Q \subseteq posts \union {Fresh(r)}
  BY <1>2, <1>3
<1>8. OwnedBy(Q, disk)
  <2>1. disk.sent \subseteq disk.sent \union {r} /\ disk.rewrite = disk.rewrite /\ r \notin disk.sent \ disk.sent
    OBVIOUS
  <2> QED  BY <1>1, <1>6, <1>7, <2>1, OwnedMore
<1>9. OwnedBy(Q, mem')
  <2>1. PICK n : n = mem'
    OBVIOUS
  <2>2. n.map = mem.map /\ n.rewrite = mem.rewrite /\ n.sent \subseteq mem.sent \union {r}
    BY <1>1, <2>1
  <2>3. r \in n.sent \ mem.sent => \A p \in Q : p.ref = r => p.emo = Shown(mem, r.src)
    BY <1>1, <1>3, <1>5, <2>1
  <2>4. OwnedBy(Q, n)
    BY <1>1, <1>6, <1>7, <2>2, <2>3, OwnedMore
  <2> QED  BY <2>1, <2>4
<1> QED  BY <1>3, <1>4, <1>8, <1>9 DEF EmojiInv

LEMMA SendEmoji ==
    ASSUME Shapes, OneInv, OneInv', EmojiInv, Send PROVE EmojiInv'
<1>1. disk' = disk /\ step' = "replace"
  BY DEF Send
<1>2. PICK r \in Begun(Here) : \E o \in Sends \union Breaks \union Settled(r, Shown(mem, r.src)) :
                /\ Pending(r) /\ Deliver(r, o)
                /\ mem'.map = mem.map /\ mem'.rewrite = mem.rewrite
                /\ o.ok => mem'.sent = {q \in mem.sent : q.src # r.src} \union {r}
                /\ ~o.ok => mem'.sent = mem.sent
  BY SendFacts
<1> QED  BY <1>1, <1>2, AttemptEmoji

LEMMA RetryEmoji ==
    ASSUME Shapes, OneInv, OneInv', EmojiInv, NEW r, RetryOne(r) PROVE EmojiInv'
<1>1. disk' = disk /\ step' = "retry" /\ mem'.map = mem.map /\ mem'.rewrite = mem.rewrite
  BY RetryFacts
<1>2. CASE UNCHANGED <<posts, receipts, mem, resolved, faults>>
  BY <1>1, <1>2, EmojiKept
<1>3. CASE \E o \in Sends \union Breaks \union Settled(r, Shown(mem, r.src)) :
             /\ Pending(r) /\ Deliver(r, o)
             /\ mem' = IF o.ok THEN Delivered(mem, r) ELSE mem
             /\ o.ok => mem'.sent = {q \in mem.sent : q.src # r.src} \union {r}
  <2>1. PICK o \in Sends \union Breaks \union Settled(r, Shown(mem, r.src)) :
             /\ Pending(r) /\ Deliver(r, o)
             /\ mem' = IF o.ok THEN Delivered(mem, r) ELSE mem
             /\ o.ok => mem'.sent = {q \in mem.sent : q.src # r.src} \union {r}
    BY <1>3
  <2>2. ~o.ok => mem'.sent = mem.sent
    BY <2>1
  <2> QED  BY <1>1, <2>1, <2>2, AttemptEmoji
<1> QED  BY <1>2, <1>3, RetryFacts

LEMMA EditEmoji ==
    ASSUME Shapes, OneInv, RecordsInv, EmojiInv, NEW s \in Source, Edit(s) PROVE EmojiInv'
<1> DEFINE old == {p \in posts : p.ref \in mem.sent /\ p.ref.src = s}
           new == {[p EXCEPT !.emo = mem.map[Thing]] : p \in old}
<1>1. /\ step = "edit" /\ step' = "edit" /\ s \in todo /\ todo' = todo \ {s} /\ Thing' = Thing
      /\ Thing \in Emoji /\ UNCHANGED <<receipts, mem, disk>>
  BY EditFacts DEF Edit, files
<1>2. /\ posts' = posts \/ posts' = (posts \ old) \union new
      /\ ~flawed' => posts' = (posts \ old) \union new /\ ~flawed
      /\ \A p \in new : p.emo = mem.map[Thing] /\ p.ref \in mem.sent /\ p.ref.src = s
      /\ \A p \in new : \E q \in old : p.ref = q.ref
  BY EditFacts
<1>3. \A p \in posts' : p \in posts \/ p \in new
  BY <1>2
<1>4. s \in DOMAIN EmojiIn /\ EmojiIn[s] = Thing /\ disk.map = mem.map
  BY <1>1, Basics DEF EmojiInv
<1>5. OwnedBy(posts', mem) /\ OwnedBy(posts', disk)
  BY <1>2, <1>3, <1>4 DEF EmojiInv, OwnedBy, Shows
<1>6. Agree(posts', receipts)
  <2> SUFFICES ASSUME NEW p \in posts', NEW q \in receipts, p.ref = q.ref PROVE p.emo = q.emo
    BY DEF Agree
  <2>1. p \notin new
    <3> SUFFICES ASSUME p \in new PROVE FALSE
      OBVIOUS
    <3>1. PICK z \in old : p.ref = z.ref
      BY <1>2
    <3> QED  BY <1>1, <1>4, <3>1, EditedApart
  <2> QED  BY <1>3, <2>1 DEF EmojiInv, Agree
<1>7. ASSUME ~flawed', NEW p \in posts', p.ref \in mem.sent, Shows(p, Thing), p.ref.src \notin todo'
      PROVE  p.emo = mem.map[Thing]
  <2>1. posts' = (posts \ old) \union new /\ ~flawed
    BY <1>2, <1>7
  <2>2. CASE p \in new
    BY <1>2, <2>2
  <2>3. CASE p \notin new
    <3>1. p \in posts /\ p.ref.src # s
      BY <1>7, <2>1, <2>3
    <3> QED  BY <1>1, <1>7, <2>1, <3>1 DEF EmojiInv
  <2> QED  BY <2>2, <2>3
<1> QED  BY <1>1, <1>5, <1>6, <1>7 DEF EmojiInv

LEMMA EndEditsEmoji ==
    ASSUME Shapes, OneInv, EmojiInv, EndEdits PROVE EmojiInv'
<1>1. step = "edit" /\ todo = {} /\ step' = "next" /\ posts' = posts /\ Thing \in Emoji
  BY EndEditsFacts DEF EndEdits, server
<1>2. CASE flawed /\ UNCHANGED <<mem, disk, receipts>>
  BY <1>1, <1>2, EmojiKept
<1>3. CASE /\ ~flawed /\ disk' = mem' /\ mem'.map = mem.map /\ mem'.sent = mem.sent
           /\ mem'.rewrite = mem.rewrite \ {Thing} /\ receipts' \subseteq receipts
  <2>1. \A p \in posts : p.ref \in mem.sent /\ Shows(p, Thing) => p.emo = mem.map[Thing]
    BY <1>1, <1>3 DEF EmojiInv
  <2>2. OwnedBy(posts, mem')
    BY <1>3, <2>1 DEF EmojiInv, OwnedBy
  <2>3. Agree(posts', receipts')
    BY <1>1, <1>3, AgreeLess DEF EmojiInv
  <2> QED  BY <1>1, <1>3, <2>2, <2>3 DEF EmojiInv
<1> QED  BY <1>2, <1>3, EndEditsFacts

LEMMA EndRetryEmoji ==
    ASSUME Shapes, OneInv, EmojiInv, EndRetry PROVE EmojiInv'
<1>1. posts' = posts
  BY DEF EndRetry, server
<1> QED  BY <1>1, EndRetryFacts, EmojiKept

LEMMA HaltEmoji ==
    ASSUME Shapes, OneInv, EmojiInv, Halt PROVE EmojiInv'
<1>1. step' = "idle"
  BY HaltFacts
<1>2. PICK Q, S : /\ CutOff(Q, S) /\ posts' = Q
                  /\ \/ /\ mem' = Saved(mem) /\ disk' = Saved(mem)
                        /\ receipts' = {q \in S : q.ref \notin mem.done}
                     \/ mem' = disk /\ disk' = disk /\ receipts' = S
  BY HaltFacts
<1>3. OwnedBy(Q, mem) /\ OwnedBy(Q, disk) /\ Agree(Q, S)
  <2>1. CASE Q = posts /\ S = receipts
    BY <2>1 DEF EmojiInv
  <2>2. CASE \E r : /\ Pending(r) /\ Unsent(r) /\ S = Replaced(r, "unsure")
                    /\ Q = posts \/ Q = posts \union {Fresh(r)}
    <3>1. PICK r : /\ Pending(r) /\ Unsent(r) /\ S = Replaced(r, "unsure")
                   /\ Q = posts \/ Q = posts \union {Fresh(r)}
      BY <2>2
    <3>2. r \in Refs
      BY <3>1, MayAttempt
    <3>3. /\ \A q \in S : q.ref # r => q \in receipts
          /\ \A q \in S : q.ref = r => q.emo = Shown(mem, r.src)
      BY <3>1, <3>2, ReplacedShape DEF Statuses
    <3>4. Agree(Q, S)
      BY <3>1, <3>3, AgreeAttempt
    <3>5. OwnedBy(posts, mem) /\ OwnedBy(posts, disk) /\ disk.map = mem.map /\ Q \subseteq posts \union {Fresh(r)}
      BY <3>1, Basics DEF EmojiInv
    <3>6. \A m : m.sent \subseteq m.sent \union {r} /\ r \notin m.sent \ m.sent
      OBVIOUS
    <3>7. OwnedBy(Q, mem)
      BY <3>2, <3>5, <3>6, OwnedMore
    <3>8. OwnedBy(Q, disk)
      BY <3>2, <3>5, <3>6, OwnedMore
    <3> QED  BY <3>4, <3>7, <3>8
  <2> QED  BY <1>2, <2>1, <2>2 DEF CutOff
<1>4. OwnedBy(Q, Saved(mem))
  <2>1. PICK n : n = Saved(mem)
    OBVIOUS
  <2>2. n.sent = mem.sent /\ n.map = mem.map /\ n.rewrite = mem.rewrite
    BY <2>1, Basics, SavedFields
  <2>3. OwnedBy(Q, n)
    BY <1>3, <2>2, OwnedLess
  <2> QED  BY <2>1, <2>3
<1>5. Agree(Q, {q \in S : q.ref \notin mem.done})
  BY <1>3 DEF Agree
<1> QED  BY <1>1, <1>2, <1>3, <1>4, <1>5 DEF EmojiInv

LEMMA PeopleEmoji ==
    ASSUME Shapes, OneInv, EmojiInv, People PROVE EmojiInv'
BY PeopleFacts, EmojiKept DEF files

LEMMA InitEmoji ==
    ASSUME Init PROVE EmojiInv
<1>1. PICK b \in {{}} \union {{s} : s \in UNION {Text(c) : c \in Channel}} :
          /\ disk = Migrated(b)
          /\ posts = {[ref |-> Ref(s, 1, 0), emo |-> Shown(disk, s)] : s \in Source \ b}
          /\ receipts = {[ref |-> Ref(s, 1, 0), st |-> "rejected", emo |-> Shown(disk, s)] : s \in b}
  BY DEF Init
<1>2. mem = disk /\ step = "idle" /\ \A s : Ref(s, 1, 0).src = s
  BY DEF Init, Ref
<1>3. OwnedBy(posts, mem)
  <2> SUFFICES ASSUME NEW p \in posts, NEW e \in Emoji, Shows(p, e) PROVE p.emo = mem.map[e]
    BY DEF OwnedBy
  <2>1. PICK s \in Source \ b : p = [ref |-> Ref(s, 1, 0), emo |-> Shown(disk, s)]
    BY <1>1
  <2>2. p.ref.src = s /\ p.emo = Shown(disk, s)
    BY <1>2, <2>1
  <2> QED  BY <1>2, <2>2 DEF Shows, Shown
<1>4. Agree(posts, receipts)
  <2> SUFFICES ASSUME NEW p \in posts, NEW q \in receipts, p.ref = q.ref PROVE FALSE
    BY DEF Agree
  <2>1. PICK s \in Source \ b : p.ref = Ref(s, 1, 0)
    BY <1>1
  <2>2. PICK z \in b : q.ref = Ref(z, 1, 0)
    BY <1>1
  <2>3. p.ref.src = s
    BY <1>2, <2>1
  <2>4. q.ref.src = z
    BY <1>2, <2>2
  <2> QED  BY <2>3, <2>4
<1> QED  BY <1>2, <1>3, <1>4 DEF EmojiInv

-----------------------------------------------------------------------------
(* The lists of the server.                                                *)

LEMMA SameLists ==
    ASSUME Shapes, ListsInv, lists' = lists, mem'.map = mem.map, unfinished \subseteq unfinished', fresh' = fresh,
           view' = lists \/ (view' = view /\ (step' \notin {"idle", "classify", "prepare"} =>
                                              step \notin {"idle", "classify", "prepare"})),
           Attaching => Attaching' /\ Thing' = Thing,
           ~(step' = "close" /\ Kind' = "channel")
    PROVE  ListsInv'
<1>1. UserCategory \subseteq DOMAIN view' /\ (step' \notin {"idle", "classify", "prepare"} => view' = lists)
  BY DEF ListsInv
<1>2. fresh' \subseteq (Role \X Nat) \union (IF Attaching' THEN {Copy(Thing)'} ELSE {})
  <2>1. Attaching => Copy(Thing)' = Copy(Thing)
    BY DEF Copy
  <2> QED  BY <2>1 DEF ListsInv
<1>3. \A c \in Channel : CategoryOf[c] \in DOMAIN lists' =>
          Copy(c)' \in lists'[CategoryOf[c]] \union unfinished' \union fresh'
  BY DEF ListsInv, Copy
<1> QED  BY <1>1, <1>2, <1>3 DEF ListsInv

LEMMA QuietLists ==
    ASSUME Shapes, OneInv, ListsInv,
           Check \/ Classify \/ Prepare \/ TakeJob \/ TakeFailures \/ Decline \/ Make \/ Clear \/ Replace \/ Send
             \/ AllSent \/ (\E s \in Source : Edit(s)) \/ EndEdits \/ (\E r : RetryOne(r)) \/ EndRetry
    PROVE  ListsInv'
<1>1. CASE Check
  <2>1. step = "idle" /\ step' = "classify" /\ mem' = mem /\ UNCHANGED <<lists, unfinished, fresh, view>> /\ ~Working
    BY <1>1, StepKinds DEF Check, OneInv, Synced, server, history, Working
  <2> QED  BY <2>1, SameLists DEF Attaching
<1>2. CASE Classify
  <2>1. step = "classify" /\ step' = "prepare" /\ UNCHANGED <<mem, lists, unfinished, fresh, view>> /\ ~Working
    BY <1>2, StepKinds DEF Classify, server, history, Working
  <2> QED  BY <2>1, SameLists DEF Attaching
<1>3. CASE Prepare
  <2>1. step = "prepare" /\ step' = "next" /\ view' = lists /\ UNCHANGED <<mem, lists, unfinished, fresh>> /\ ~Working
    BY <1>3, StepKinds DEF Prepare, history, Working
  <2> QED  BY <2>1, SameLists DEF Attaching
<1>4. CASE TakeJob
  <2>1. step = "next" /\ UNCHANGED <<mem, lists, unfinished, fresh>> /\ ~Working
    BY <1>4, StepKinds DEF TakeJob, server, history, Working
  <2>2. view' = lists \/ view' = view
    BY <1>4 DEF TakeJob
  <2>3. step' # "close"
    BY <1>4, FirstSteps DEF TakeJob, Shapes, RunShapes
  <2> QED  BY <2>1, <2>2, <2>3, SameLists DEF Attaching
<1>5. CASE TakeFailures
  <2>1. step = "next" /\ step' \in {"retry", "finish"} /\ UNCHANGED <<mem, lists, unfinished, fresh, view>> /\ ~Working
    BY <1>5, StepKinds DEF TakeFailures, server, history, Working
  <2> QED  BY <2>1, SameLists DEF Attaching
<1>6. CASE Decline
  <2>1. /\ step \in {"make", "patch"} /\ step' = "close" /\ UNCHANGED <<mem, lists, unfinished, fresh, view, job>>
        /\ Kind \in {"category", "index"} /\ Kind' = Kind /\ Thing' = Thing /\ Working'
    BY <1>6, StepKinds DEF Decline, server, history, Working, Undone, Kind, Thing
  <2> QED  BY <2>1, SameLists DEF Attaching
<1>7. CASE Make
  <2>1. step = "make" /\ step' = "made" /\ UNCHANGED <<mem, lists, unfinished, fresh, view>>
    BY <1>7 DEF Make, history
  <2> QED  BY <2>1, SameLists DEF Attaching
<1>8. CASE Clear
  <2>1. step = "clear" /\ UNCHANGED <<lists, unfinished, fresh, view>>
    BY <1>8 DEF Clear, server, history
  <2> QED  BY <1>8, <2>1, ClearFacts, SameLists DEF Attaching
<1>9. CASE Replace
  <2>1. UNCHANGED <<lists, unfinished, fresh, view>>
    BY <1>9 DEF Replace, server, history
  <2>2. /\ Working' /\ Kind' = Kind /\ Thing' = Thing /\ step = "replace" /\ step' = "send"
        /\ mem'.map = mem.map
    BY <1>9, ReplaceFacts
  <2> QED  BY <2>1, <2>2, SameLists DEF Attaching
<1>10. CASE Send
  <2>1. UNCHANGED <<lists, fresh, view>>
    BY <1>10 DEF Send
  <2>2. Working' /\ Kind' = Kind /\ Thing' = Thing /\ step = "send" /\ step' = "replace"
    BY <1>10, SendFacts
  <2>3. mem'.map = mem.map /\ unfinished \subseteq unfinished'
    BY <1>10, SendFacts
  <2> QED  BY <2>1, <2>2, <2>3, SameLists DEF Attaching
<1>11. CASE AllSent
  <2>1. UNCHANGED <<lists, unfinished, fresh, view>>
    BY <1>11 DEF AllSent, server, history
  <2> QED  BY <1>11, <2>1, AllSentFacts, SameLists DEF Attaching
<1>12. CASE \E s \in Source : Edit(s)
  <2>1. PICK s \in Source : Edit(s)
    BY <1>12
  <2>2. UNCHANGED <<mem, lists, unfinished, fresh, view>>
    BY <2>1 DEF Edit, history
  <2> QED  BY <2>1, <2>2, EditFacts, SameLists DEF Attaching
<1>13. CASE EndEdits
  <2>1. UNCHANGED <<lists, unfinished, fresh, view>>
    BY <1>13 DEF EndEdits, server, history
  <2>2. step = "edit" /\ step' = "next" /\ Kind \in {"emoji", "resume"} /\ mem'.map = mem.map
    BY <1>13, EndEditsFacts
  <2> QED  BY <2>1, <2>2, SameLists DEF Attaching
<1>14. CASE \E r : RetryOne(r)
  <2>1. PICK r : RetryOne(r)
    BY <1>14
  <2>2. UNCHANGED <<lists, unfinished, fresh, view>>
    BY <2>1 DEF RetryOne, history
  <2>3. step = "retry" /\ step' = "retry" /\ ~Working /\ mem'.map = mem.map
    BY <2>1, RetryFacts
  <2> QED  BY <2>2, <2>3, SameLists DEF Attaching
<1>15. CASE EndRetry
  <2>1. UNCHANGED <<lists, unfinished, fresh, view>>
    BY <1>15 DEF EndRetry, server, history
  <2> QED  BY <1>15, <2>1, EndRetryFacts, SameLists DEF Attaching
<1> QED  BY <1>1, <1>2, <1>3, <1>4, <1>5, <1>6, <1>7, <1>8, <1>9, <1>10, <1>11, <1>12, <1>13, <1>14, <1>15

LEMMA RecordLists ==
    ASSUME Shapes, OneInv, ListsInv, Record PROVE ListsInv'
<1>1. /\ step = "made" /\ UNCHANGED <<lists, unfinished, view, job>> /\ Thing' = Thing /\ Kind' = Kind /\ Working'
      /\ Kind \in Creating /\ Thing \in Item /\ made[Thing] \in Nat
      /\ step' = IF Kind = "emoji" THEN "edit" ELSE "dress"
      /\ fresh' = IF Kind = "emoji" THEN fresh ELSE fresh \union {<<Thing, made[Thing]>>}
  BY RecordFacts DEF Record, server, history
<1>2. mem'.map = [mem.map EXCEPT ![Thing] = made[Thing]] /\ mem \in State
  BY RecordFacts, Basics
<1>3. /\ \A x \in Item : x # Thing => Copy(x)' = Copy(x)
      /\ Copy(Thing)' = <<Thing, made[Thing]>>
  <2>1. mem'.map[Thing] = made[Thing] /\ \A y \in Item : y # Thing => mem'.map[y] = mem.map[y]
    BY <1>1, <1>2 DEF State
  <2> QED  BY <1>1, <2>1 DEF Copy
<1>4. fresh \subseteq Role \X Nat
  BY <1>1 DEF ListsInv, Attaching
<1>5. fresh' \subseteq (Role \X Nat) \union (IF Attaching' THEN {Copy(Thing)'} ELSE {})
  <2>1. CASE Kind = "emoji"
    BY <1>1, <1>4, <2>1
  <2>2. CASE Kind = "role"
    BY <1>1, <1>4, <2>2, AtWork, RecordFacts
  <2>3. CASE Kind \in {"channel", "index"}
    BY <1>1, <1>3, <1>4, <2>3 DEF Attaching
  <2> QED  BY <1>1, <2>1, <2>2, <2>3 DEF Creating
<1>6. ASSUME NEW c \in Channel, CategoryOf[c] \in DOMAIN lists
      PROVE  Copy(c)' \in lists[CategoryOf[c]] \union unfinished \union fresh'
  <2>1. CASE c = Thing
    <3>1. Kind = "channel"
      BY <1>1, <2>1, AtWork, RecordFacts, RepairAssumption DEF Creating
    <3>2. Copy(c)' = <<Thing, made[Thing]>>
      BY <1>3, <2>1 DEF Copy
    <3> QED  BY <1>1, <3>1, <3>2
  <2>2. CASE c # Thing
    <3>1. Copy(c)' = Copy(c)
      BY <1>3, <2>2 DEF Item
    <3> QED  BY <1>1, <1>6, <3>1 DEF ListsInv
  <2> QED  BY <2>1, <2>2
<1>7. view' = lists' /\ UserCategory \subseteq DOMAIN lists'
  BY <1>1 DEF ListsInv
<1>8. step' # "close"
  BY <1>1
<1>9. \A c \in Channel : CategoryOf[c] \in DOMAIN lists' =>
          Copy(c)' \in lists'[CategoryOf[c]] \union unfinished' \union fresh'
  BY <1>1, <1>6
<1> QED  BY <1>5, <1>7, <1>8, <1>9 DEF ListsInv

LEMMA DressLists ==
    ASSUME Shapes, OneInv, ListsInv, Dress PROVE ListsInv'
<1>1. /\ step = "dress" /\ UNCHANGED <<mem, lists, unfinished, view, job>> /\ Kind' = Kind /\ Thing' = Thing
      /\ Kind \in {"role", "channel", "index"}
  BY AtWork, StepKinds DEF Dress, files, history, Working, Kind, Thing
<1>2. /\ Kind = "role" => step' = "next" /\ (fresh' = fresh \/ fresh' = {})
      /\ Kind = "channel" => step' = "replace" /\ fresh' = fresh
      /\ Kind = "index" => step' = "patch" /\ fresh' = fresh
  BY <1>1 DEF Dress
<1>3. CASE fresh' = fresh
  <2>1. Kind # "role" => Working'
    BY <1>1, <1>2, StepKinds DEF Working
  <2>2. Attaching => Attaching'
    BY <1>1, <1>2, <2>1 DEF Attaching
  <2> QED  BY <1>1, <1>2, <1>3, <2>2, SameLists
<1>4. CASE Kind = "role" /\ fresh' = {}
  <2>1. fresh \subseteq Role \X Nat
    BY <1>1, <1>4 DEF ListsInv, Attaching
  <2>2. \A c \in Channel : Copy(c) \notin fresh /\ Copy(c)' = Copy(c)
    BY <1>1, <2>1, RepairAssumption DEF Copy
  <2>3. view' = lists' /\ UserCategory \subseteq DOMAIN lists' /\ step' = "next"
    BY <1>1, <1>2, <1>4 DEF ListsInv
  <2> QED  BY <1>1, <1>4, <2>2, <2>3 DEF ListsInv
<1> QED  BY <1>1, <1>2, <1>3, <1>4

LEMMA PatchLists ==
    ASSUME Shapes, OneInv, ListsInv, Patch PROVE ListsInv'
<1>1. /\ step = "patch" /\ ~Undone /\ UNCHANGED <<mem, fresh, unfinished, job>> /\ Kind' = Kind /\ Thing' = Thing
      /\ lists' = Patched /\ view' = Patched /\ view = lists /\ Working /\ Kind \in {"category", "channel", "index"}
      /\ step' = (IF Kind = "index" THEN "clear" ELSE "close")
  BY AtWork, StepKinds DEF Patch, files, history, Working, Kind, Thing, ListsInv
<1>2. IsLists(lists)
  BY DEF Shapes, WorldShapes
<1>3. Working'
  BY <1>1, StepKinds DEF Working
<1>4. fresh' \subseteq (Role \X Nat) \union (IF Attaching' THEN {Copy(Thing)'} ELSE {})
  BY <1>1, <1>3 DEF ListsInv, Attaching, Copy
<1>5. \A c \in Channel : CategoryOf[c] \in Category
  BY RepairAssumption
<1>6. CASE Kind = "category"
  <2>1. PICK k \in Category : k = Thing /\ lists' = Rebuilt(lists, k)
    BY <1>1, <1>6, AtWork DEF Patched
  <2>2. /\ DOMAIN lists' = DOMAIN lists \union {k} /\ lists'[k] = Members(k)
        /\ \A j \in DOMAIN lists : j # k => lists'[j] = lists[j]
    BY <1>2, <2>1, RebuiltLists
  <2>3. \A c \in Channel : CategoryOf[c] \in DOMAIN lists' =>
          Copy(c) \in lists'[CategoryOf[c]] \union unfinished \union fresh
    BY <2>2 DEF ListsInv, Members
  <2>4. UserCategory \subseteq DOMAIN lists'
    BY <2>2 DEF ListsInv
  <2>5. view' = lists'
    BY <1>1
  <2> QED  BY <1>1, <1>4, <1>6, <2>3, <2>4, <2>5 DEF ListsInv, Copy
<1>7. CASE Kind \in {"channel", "index"}
  <2>1. PICK x \in Item : x = Thing /\ lists' = Attached(lists, x)
    BY <1>1, <1>7, AtWork DEF Patched
  <2>2. /\ DOMAIN lists' = DOMAIN lists
        /\ CategoryOf[x] \in DOMAIN lists => lists'[CategoryOf[x]] = (lists[CategoryOf[x]] \ OldCopies(x)) \union {Copy(x)}
        /\ \A j \in DOMAIN lists : j # CategoryOf[x] => lists'[j] = lists[j]
    BY <1>2, <2>1, AttachedLists
  <2>3. ASSUME NEW c \in Channel, CategoryOf[c] \in DOMAIN lists'
        PROVE  Copy(c) \in lists'[CategoryOf[c]] \union unfinished \union fresh
    <3>1. Copy(c) \in lists[CategoryOf[c]] \union unfinished \union fresh
      BY <2>2, <2>3 DEF ListsInv
    <3>2. c # x => Copy(c) \notin OldCopies(x)
      BY DEF Copy, OldCopies
    <3> QED  BY <2>2, <2>3, <3>1, <3>2
  <2>4. UserCategory \subseteq DOMAIN lists'
    BY <2>2 DEF ListsInv
  <2>5. CategoryOf[Thing] \in DOMAIN lists' => Copy(Thing) \in lists'[CategoryOf[Thing]]
    BY <2>1, <2>2
  <2>6. view' = lists'
    BY <1>1
  <2> QED  BY <1>1, <1>4, <2>3, <2>4, <2>5, <2>6 DEF ListsInv, Copy
<1> QED  BY <1>1, <1>6, <1>7

LEMMA CloseLists ==
    ASSUME Shapes, OneInv, ListsInv, Close PROVE ListsInv'
<1>1. /\ step = "close" /\ step' = "next" /\ Working /\ ~Working' /\ UNCHANGED <<lists, view, unfinished>> /\ fresh' = {}
      /\ mem'.map = mem.map
  BY CloseFacts DEF Close, server, history
<1>2. ASSUME NEW c \in Channel, CategoryOf[c] \in DOMAIN lists
      PROVE  Copy(c) \in lists[CategoryOf[c]] \union unfinished
  <2>1. CASE Copy(c) \in fresh
    <3>1. Attaching /\ Copy(c) = Copy(Thing)
      BY <2>1, RepairAssumption DEF ListsInv, Copy
    <3>2. c = Thing
      BY <3>1 DEF Copy
    <3>3. Kind = "channel"
      BY <1>1, <3>1, <3>2, AtWork, RepairAssumption DEF Attaching
    <3> QED  BY <1>1, <1>2, <3>2, <3>3 DEF ListsInv
  <2>2. CASE Copy(c) \notin fresh
    BY <1>2, <2>2 DEF ListsInv
  <2> QED  BY <2>1, <2>2
<1>3. UserCategory \subseteq DOMAIN lists' /\ view' = lists'
  BY <1>1 DEF ListsInv
<1> QED  BY <1>1, <1>2, <1>3 DEF ListsInv, Copy

LEMMA HaltLists ==
    ASSUME Shapes, OneInv, ListsInv, Halt PROVE ListsInv'
<1>1. step' = "idle" /\ fresh' = {} /\ view' = lists /\ lists' = lists /\ unfinished' = unfinished \union fresh
  BY HaltFacts
<1>2. PICK Q, S : /\ CutOff(Q, S) /\ posts' = Q
                  /\ \/ /\ mem' = Saved(mem) /\ disk' = Saved(mem)
                        /\ receipts' = {q \in S : q.ref \notin mem.done}
                     \/ mem' = disk /\ disk' = disk /\ receipts' = S
  BY HaltFacts
<1>3. mem'.map = mem.map
  BY <1>2, Basics, SavedFields
<1> QED  BY <1>1, <1>3 DEF ListsInv, Copy

LEMMA PeopleLists ==
    ASSUME Shapes, OneInv, ListsInv, People PROVE ListsInv'
<1>1. /\ step = "idle" /\ step' = "idle" /\ UNCHANGED <<mem, view, fresh, unfinished>> /\ ~Working /\ ~Working'
      /\ DOMAIN lists' \subseteq DOMAIN lists /\ \A k \in DOMAIN lists' : lists'[k] = lists[k]
  BY PeopleFacts DEF work
<1>2. UserCategory \subseteq DOMAIN lists'
  <2>1. CASE \E k \in Category : LoseCategory(k)
    BY <2>1, RepairAssumption DEF LoseCategory, Restrict, ListsInv
  <2>2. CASE (\E x \in Item : LoseItem(x)) \/ (\E p \in posts : LosePost(p))
    BY <2>2 DEF LoseItem, LosePost, ListsInv
  <2> QED  BY <2>1, <2>2, PeopleFacts
<1> QED  BY <1>1, <1>2 DEF ListsInv, Attaching, Copy

LEMMA InitLists ==
    ASSUME Init PROVE ListsInv
<1>1. step = "idle" /\ ~Working /\ fresh = {} /\ view = lists
  BY StepKinds DEF Init, Working
<1>2. UserCategory \subseteq DOMAIN lists
  BY DEF Init
<1>3. PICK b \in {{}} \union {{s} : s \in UNION {Text(c) : c \in Channel}} : disk = Migrated(b)
  BY DEF Init
<1>4. b \in SUBSET Source
  BY <1>3 DEF Source
<1>5. mem.map = [x \in Item |-> 1]
  BY <1>3, <1>4, MigratedShape DEF Init
<1>6. \A c \in Channel : Copy(c) = <<c, 1>>
  BY <1>5 DEF Copy, Item
<1>7. \A c \in Channel : Copy(c) \in lists[CategoryOf[c]]
  BY <1>6, RepairAssumption DEF Init
<1> QED  BY <1>1, <1>2, <1>7 DEF ListsInv

-----------------------------------------------------------------------------
(* OrderInv: roles first.                                                  *)

\* Roles are told from everything else.
LEMMA Ranks ==
    /\ \A j \in Jobs : Rank[j[1]] \in 1..8
    /\ \A j \in Jobs : Rank[j[1]] = 1 <=> j[1] = "role"
    /\ \A j \in Jobs : Rank[j[1]] >= 6 <=> j[1] \in {"index", "rebuild", "tail"}
    /\ \A j \in Jobs : Rank[j[1]] = 5 <=> j[1] = "category"
<1>1. /\ Rank["role"] = 1 /\ Rank["resume"] = 2 /\ Rank["emoji"] = 3 /\ Rank["channel"] = 4
      /\ Rank["category"] = 5 /\ Rank["index"] = 6 /\ Rank["rebuild"] = 7 /\ Rank["tail"] = 8
  BY DEF Rank
<1> QED  BY <1>1, JobThing

\* While something else is done no role is left, and none is fresh.
LEMMA RolesOver ==
    ASSUME Shapes, OrderInv, Working, Kind # "role"
    PROVE  ~RolesLeft /\ \A f \in fresh : f[1] \notin Role
<1>1. job \in Jobs /\ Kind = job[1] /\ jobs \subseteq Jobs
  BY AtWork DEF Kind, Shapes, RunShapes
<1>2. \A j \in jobs : j[1] # "role"
  <2> SUFFICES ASSUME NEW j \in jobs, j[1] = "role" PROVE FALSE
    OBVIOUS
  <2>1. Rank[Kind] <= Rank[j[1]] /\ Rank[j[1]] = 1 /\ Rank[Kind] \in 1..8
    BY <1>1, Ranks DEF OrderInv
  <2>2. Rank[Kind] = 1
    BY <2>1
  <2> QED  BY <1>1, <2>2, Ranks
<1>3. ~RolesToMake
  BY <1>2 DEF RolesToMake
<1> QED  BY <1>3 DEF RolesLeft, OrderInv

\* Outside a repair nothing is fresh.
LEMMA NothingFresh ==
    ASSUME Shapes, ListsInv, OrderInv, step \in {"idle", "classify"}
    PROVE  fresh = {} /\ ~RolesLeft
<1>1. ~Working /\ jobs = {}
  BY StepKinds DEF Working, Shapes, RunShapes
<1>2. ~RolesLeft
  BY <1>1 DEF RolesLeft, RolesToMake
<1>3. fresh \subseteq Role \X Nat
  BY <1>1 DEF ListsInv, Attaching
<1> QED  BY <1>2, <1>3 DEF OrderInv

LEMMA SameOrder ==
    ASSUME Shapes, OrderInv, jobs' = jobs, alive' = alive, fresh' = fresh, dressed \subseteq dressed',
           unfinished \subseteq unfinished', mem'.map = mem.map, step # "dress",
           Working' => Working /\ Kind' = Kind,
           Working /\ Kind = "role" => Working' /\ Kind' = Kind,
           step' \notin {"idle", "classify", "prepare"} => step \notin {"idle", "classify", "prepare"}
    PROVE  OrderInv'
<1>1. RolesLeft' <=> RolesLeft
  BY DEF RolesLeft, RolesToMake
<1>2. \A x \in Item : Copy(x)' = Copy(x)
  BY DEF Copy
<1>3. Working' => \A j \in jobs' : Rank[Kind'] <= Rank[j[1]]
  BY DEF OrderInv
<1>4. \A f \in fresh' : f[1] \in Role => RolesLeft'
  BY <1>1 DEF OrderInv
<1>5. \A x \in Role : Copy(x)' \in alive' => Copy(x)' \in dressed' \union unfinished' \union fresh'
  BY <1>2 DEF OrderInv, Item
<1>6. step' \notin {"idle", "classify", "prepare"} /\ ~RolesLeft' =>
          \A x \in Channel \union Index : Copy(x)' \in alive' => Copy(x)' \in dressed'
  BY <1>1, <1>2 DEF OrderInv, Item
<1> QED  BY <1>3, <1>4, <1>5, <1>6 DEF OrderInv

LEMMA QuietOrder ==
    ASSUME Shapes, OneInv, OrderInv,
           TakeFailures \/ Decline \/ Patch \/ Clear \/ Replace \/ Send \/ AllSent
             \/ (\E s \in Source : Edit(s)) \/ EndEdits \/ (\E r : RetryOne(r)) \/ EndRetry
    PROVE  OrderInv'
<1>1. CASE TakeFailures
  <2>1. /\ step = "next" /\ step' \in {"retry", "finish"} /\ UNCHANGED <<mem, dressed, alive, unfinished, fresh, jobs>>
        /\ ~Working /\ ~Working'
    BY <1>1, StepKinds DEF TakeFailures, server, history, Working
  <2> QED  BY <2>1, SameOrder
<1>2. CASE Decline
  <2>1. /\ step \in {"make", "patch"} /\ step' = "close" /\ UNCHANGED <<mem, dressed, alive, unfinished, fresh, jobs, job>>
        /\ Kind' = Kind /\ Working' /\ Working
    BY <1>2, StepKinds DEF Decline, server, history, Working, Kind
  <2> QED  BY <2>1, SameOrder
<1>3. CASE Patch
  <2>1. /\ step = "patch" /\ step' \in {"clear", "close"} /\ UNCHANGED <<mem, dressed, alive, unfinished, fresh, jobs, job>>
        /\ Kind' = Kind /\ Working' /\ Working
    BY <1>3, StepKinds DEF Patch, files, history, Working, Kind
  <2> QED  BY <2>1, SameOrder
<1>4. CASE Clear
  <2>1. step = "clear" /\ UNCHANGED <<dressed, alive, unfinished, fresh, jobs>>
    BY <1>4 DEF Clear, server, history
  <2> QED  BY <1>4, <2>1, ClearFacts, SameOrder
<1>5. CASE Replace
  <2>1. UNCHANGED <<dressed, alive, unfinished, fresh, jobs>>
    BY <1>5 DEF Replace, server, history
  <2>2. Working' /\ Working /\ Kind' = Kind /\ step = "replace" /\ step' = "send" /\ mem'.map = mem.map
    BY <1>5, ReplaceFacts
  <2> QED  BY <2>1, <2>2, SameOrder
<1>6. CASE Send
  <2>1. UNCHANGED <<dressed, alive, fresh, jobs>>
    BY <1>6 DEF Send
  <2>2. Working' /\ Working /\ Kind' = Kind /\ step = "send" /\ step' = "replace"
    BY <1>6, SendFacts
  <2>3. mem'.map = mem.map /\ unfinished \subseteq unfinished'
    BY <1>6, SendFacts
  <2> QED  BY <2>1, <2>2, <2>3, SameOrder
<1>7. CASE AllSent
  <2>1. UNCHANGED <<dressed, alive, unfinished, fresh, jobs>>
    BY <1>7 DEF AllSent, server, history
  <2> QED  BY <1>7, <2>1, AllSentFacts, SameOrder
<1>8. CASE \E s \in Source : Edit(s)
  <2>1. PICK s \in Source : Edit(s)
    BY <1>8
  <2>2. UNCHANGED <<mem, dressed, alive, unfinished, fresh, jobs>>
    BY <2>1 DEF Edit, history
  <2> QED  BY <2>1, <2>2, EditFacts, SameOrder
<1>9. CASE EndEdits
  <2>1. UNCHANGED <<dressed, alive, unfinished, fresh, jobs>>
    BY <1>9 DEF EndEdits, server, history
  <2>2. step = "edit" /\ step' = "next" /\ Kind \in {"emoji", "resume"} /\ mem'.map = mem.map /\ ~Working'
    BY <1>9, EndEditsFacts
  <2> QED  BY <2>1, <2>2, SameOrder
<1>10. CASE \E r : RetryOne(r)
  <2>1. PICK r : RetryOne(r)
    BY <1>10
  <2>2. UNCHANGED <<dressed, alive, unfinished, fresh, jobs>>
    BY <2>1 DEF RetryOne, history
  <2>3. step = "retry" /\ step' = "retry" /\ ~Working /\ ~Working' /\ mem'.map = mem.map
    BY <2>1, RetryFacts
  <2> QED  BY <2>2, <2>3, SameOrder
<1>11. CASE EndRetry
  <2>1. UNCHANGED <<dressed, alive, unfinished, fresh, jobs>>
    BY <1>11 DEF EndRetry, server, history
  <2> QED  BY <1>11, <2>1, EndRetryFacts, SameOrder
<1> QED  BY <1>1, <1>2, <1>3, <1>4, <1>5, <1>6, <1>7, <1>8, <1>9, <1>10, <1>11

\* The check and the plan.
LEMMA BeginOrder ==
    ASSUME Shapes, OneInv, ListsInv, OrderInv, Check \/ Classify \/ Prepare PROVE OrderInv'
<1>1. CASE Check \/ Classify
  <2>1. /\ step \in {"idle", "classify"} /\ step' \in {"classify", "prepare"} /\ mem' = mem
        /\ UNCHANGED <<alive, dressed, unfinished, fresh>>
    BY <1>1 DEF Check, Classify, server, history, OneInv, Synced
  <2>2. fresh = {} /\ ~Working'
    BY <2>1, NothingFresh, StepKinds DEF Working
  <2> QED  BY <2>1, <2>2 DEF OrderInv, Copy
<1>2. CASE Prepare
  <2>1. /\ step = "prepare" /\ step' = "next" /\ UNCHANGED <<mem, jobs, alive, unfinished, fresh>> /\ dressed \subseteq dressed'
        /\ ~RolesToMake => Present \subseteq dressed'
        /\ ~Working /\ ~Working'
    BY <1>2, StepKinds DEF Prepare, history, Working, RolesToMake
  <2>2. (RolesLeft' <=> RolesToMake) /\ (RolesLeft <=> RolesToMake)
    BY <2>1 DEF RolesLeft, RolesToMake
  <2> QED  BY <2>1, <2>2 DEF OrderInv, Copy, Present
<1> QED  BY <1>1, <1>2

LEMMA TakeJobOrder ==
    ASSUME Shapes, OrderInv, TakeJob PROVE OrderInv'
<1>1. PICK j \in jobs : /\ \A i \in jobs : Rank[j[1]] <= Rank[i[1]]
                        /\ job' = j /\ jobs' = jobs \ {j} /\ step' = First[j[1]]
  BY DEF TakeJob
<1>2. /\ step = "next" /\ ~Working /\ UNCHANGED <<mem, alive, dressed, unfinished, fresh>> /\ j \in Jobs /\ jobs \subseteq Jobs
  BY <1>1, StepKinds DEF TakeJob, server, history, Working, Shapes, RunShapes
<1>3. Working' /\ Kind' = j[1] /\ step' \notin {"dress", "idle", "classify", "prepare"}
  BY <1>1, <1>2, FirstSteps DEF Working, Kind
<1>4. RolesLeft' <=> RolesLeft
  <2>1. RolesLeft <=> \E i \in jobs : i \in {"role"} \X Role
    BY <1>2 DEF RolesLeft, RolesToMake
  <2>2. RolesLeft' <=> (\E i \in jobs \ {j} : i \in {"role"} \X Role) \/ j[1] = "role"
    BY <1>1, <1>3 DEF RolesLeft, RolesToMake
  <2>3. j[1] = "role" <=> j \in {"role"} \X Role
    BY <1>2, JobThing
  <2> QED  BY <2>1, <2>2, <2>3
<1> QED  BY <1>1, <1>2, <1>3, <1>4 DEF OrderInv, Copy

LEMMA RecordOrder ==
    ASSUME Shapes, OneInv, OrderInv, Record PROVE OrderInv'
<1>1. /\ step = "made" /\ UNCHANGED <<alive, dressed, unfinished, jobs>> /\ Thing' = Thing /\ Kind' = Kind /\ Working /\ Working'
      /\ Kind \in Creating /\ Thing \in Item /\ made[Thing] \in Nat
      /\ step' = IF Kind = "emoji" THEN "edit" ELSE "dress"
      /\ fresh' = IF Kind = "emoji" THEN fresh ELSE fresh \union {<<Thing, made[Thing]>>}
  BY RecordFacts DEF Record, server, history
<1>2. mem'.map = [mem.map EXCEPT ![Thing] = made[Thing]] /\ mem \in State
  BY RecordFacts, Basics
<1>3. /\ \A x \in Item : x # Thing => Copy(x)' = Copy(x)
      /\ Copy(Thing)' = <<Thing, made[Thing]>>
  <2>1. mem'.map[Thing] = made[Thing] /\ \A y \in Item : y # Thing => mem'.map[y] = mem.map[y]
    BY <1>1, <1>2 DEF State
  <2> QED  BY <1>1, <2>1 DEF Copy
<1>4. RolesLeft' <=> RolesLeft
  BY <1>1 DEF RolesLeft, RolesToMake
<1>5. /\ Kind = "role" <=> Thing \in Role
      /\ Kind = "emoji" <=> Thing \in Emoji
  BY <1>1, AtWork, RepairAssumption DEF Creating
<1>6. Working' => \A j \in jobs' : Rank[Kind'] <= Rank[j[1]]
  BY <1>1 DEF OrderInv
<1>7. \A f \in fresh' : f[1] \in Role => RolesLeft'
  <2> SUFFICES ASSUME NEW f \in fresh', f[1] \in Role PROVE RolesLeft'
    OBVIOUS
  <2>1. CASE f \in fresh
    BY <1>4, <2>1 DEF OrderInv
  <2>2. CASE f = <<Thing, made[Thing]>>
    BY <1>1, <1>5, <2>2 DEF RolesLeft
  <2> QED  BY <1>1, <2>1, <2>2
<1>8. ASSUME NEW x \in Role, Copy(x)' \in alive'
      PROVE  Copy(x)' \in dressed' \union unfinished' \union fresh'
  <2>1. CASE x = Thing
    <3>1. Copy(x)' = <<Thing, made[Thing]>>
      BY <1>3, <2>1 DEF Copy
    <3>2. Kind # "emoji"
      BY <1>5, <2>1, RepairAssumption
    <3> QED  BY <1>1, <3>1, <3>2
  <2>2. CASE x # Thing
    BY <1>1, <1>3, <1>8, <2>2 DEF OrderInv, Item
  <2> QED  BY <2>1, <2>2
<1>9. ASSUME step' \notin {"idle", "classify", "prepare"}, ~RolesLeft', NEW x \in Channel \union Index, Copy(x)' \in alive'
      PROVE  Copy(x)' \in dressed' \/ (step' = "dress" /\ x = Thing')
  <2>1. CASE x = Thing
    <3>1. Kind # "emoji"
      BY <1>5, <2>1, RepairAssumption
    <3> QED  BY <1>1, <2>1, <3>1
  <2>2. CASE x # Thing
    BY <1>1, <1>3, <1>4, <1>9, <2>2 DEF OrderInv, Item
  <2> QED  BY <2>1, <2>2
<1> QED  BY <1>6, <1>7, <1>8, <1>9 DEF OrderInv

LEMMA MakeOrder ==
    ASSUME Shapes, OrderInv, Make PROVE OrderInv'
<1>1. /\ step = "make" /\ step' = "made" /\ UNCHANGED <<mem, dressed, unfinished, fresh, jobs, job>> /\ Kind' = Kind
      /\ Working /\ Working' /\ Kind \in Creating /\ Thing \in Item /\ MakeCopy(Thing)
  BY AtWork, StepKinds DEF Make, files, history, Working, Kind, Creating
<1>2. ASSUME NEW x \in Item PROVE Copy(x)' = Copy(x) /\ (Copy(x) \in alive' => Copy(x) \in alive)
  <2>1. Copy(x) \in Born /\ <<Thing, made[Thing] + 1>> \notin Born
    BY <1>1, CopyBorn, BornGrows
  <2> QED  BY <1>1, <2>1 DEF Copy, MakeCopy
<1>3. RolesLeft' <=> RolesLeft
  BY <1>1 DEF RolesLeft, RolesToMake
<1>4. Role \subseteq Item /\ Channel \union Index \subseteq Item
  BY DEF Item
<1>5. Working' => \A j \in jobs' : Rank[Kind'] <= Rank[j[1]]
  BY <1>1 DEF OrderInv
<1>6. \A x \in Role : Copy(x)' \in alive' => Copy(x)' \in dressed' \union unfinished' \union fresh'
  BY <1>1, <1>2, <1>4 DEF OrderInv
<1>7. ~RolesLeft' => \A x \in Channel \union Index : Copy(x)' \in alive' => Copy(x)' \in dressed'
  BY <1>1, <1>2, <1>3, <1>4 DEF OrderInv
<1> QED  BY <1>1, <1>3, <1>5, <1>6, <1>7 DEF OrderInv

LEMMA DressOrder ==
    ASSUME Shapes, OrderInv, Dress PROVE OrderInv'
<1>1. /\ step = "dress" /\ UNCHANGED <<mem, alive, unfinished, jobs, job>> /\ Kind' = Kind /\ Thing' = Thing
      /\ Kind \in {"role", "channel", "index"} /\ Working
  BY AtWork, StepKinds DEF Dress, files, history, Working, Kind, Thing
<1>2. \A x \in Item : Copy(x)' = Copy(x)
  BY <1>1 DEF Copy
<1>3. CASE Kind = "role" /\ RolesToMake
  <2>1. UNCHANGED <<dressed, fresh>> /\ step' = "next" /\ ~Working'
    BY <1>3, StepKinds DEF Dress, Working
  <2>2. RolesLeft'
    BY <1>1, <1>3 DEF RolesLeft, RolesToMake
  <2> QED  BY <1>1, <1>2, <2>1, <2>2 DEF OrderInv, Item
<1>4. CASE Kind = "role" /\ ~RolesToMake
  <2>1. dressed' = dressed \union fresh \union Present /\ fresh' = {} /\ step' = "next" /\ ~Working'
    BY <1>4, StepKinds DEF Dress, Dressing, Working
  <2> QED  BY <1>1, <1>2, <2>1 DEF OrderInv, Item, Present
<1>5. CASE Kind \in {"channel", "index"}
  <2>1. dressed' = dressed \union {Copy(Thing)} /\ fresh' = fresh /\ step' \in {"replace", "patch"} /\ Working'
    BY <1>1, <1>5, StepKinds DEF Dress, Dressing, Working
  <2>2. RolesLeft' <=> RolesLeft
    BY <1>1, <2>1 DEF RolesLeft, RolesToMake
  <2>3. Working' => \A j \in jobs' : Rank[Kind'] <= Rank[j[1]]
    BY <1>1 DEF OrderInv
  <2>4. \A x \in Role : Copy(x)' \in alive' => Copy(x)' \in dressed' \union unfinished' \union fresh'
    BY <1>1, <1>2, <2>1 DEF OrderInv, Item
  <2>5. ~RolesLeft' => \A x \in Channel \union Index : Copy(x)' \in alive' => Copy(x)' \in dressed'
    BY <1>1, <1>2, <2>1, <2>2 DEF OrderInv, Item, Copy
  <2> QED  BY <2>1, <2>2, <2>3, <2>4, <2>5 DEF OrderInv
<1> QED  BY <1>1, <1>3, <1>4, <1>5

LEMMA CloseOrder ==
    ASSUME Shapes, OrderInv, Close PROVE OrderInv'
<1>1. /\ step = "close" /\ step' = "next" /\ Working /\ ~Working' /\ UNCHANGED <<alive, dressed, unfinished, jobs>>
      /\ fresh' = {} /\ mem'.map = mem.map /\ Kind \in {"category", "channel", "index", "rebuild", "tail"}
  BY CloseFacts, AtWork, StepKinds DEF Close, server, history
<1>2. ~RolesLeft /\ \A f \in fresh : f[1] \notin Role
  BY <1>1, RolesOver
<1>3. \A x \in Item : Copy(x)' = Copy(x) /\ Copy(x)[1] = x
  BY <1>1 DEF Copy
<1>4. \A x \in Role : Copy(x) \notin fresh
  BY <1>2, <1>3 DEF Item
<1> QED  BY <1>1, <1>2, <1>3, <1>4 DEF OrderInv, Item

LEMMA HaltOrder ==
    ASSUME Shapes, OneInv, OrderInv, Halt PROVE OrderInv'
<1>1. /\ step' = "idle" /\ fresh' = {} /\ dressed' = dressed /\ unfinished' = unfinished \union fresh /\ ~Working'
      /\ \/ UNCHANGED <<made, alive>>
         \/ Thing \in Item /\ MakeCopy(Thing)
  BY HaltFacts
<1>2. PICK Q, S : /\ CutOff(Q, S) /\ posts' = Q
                  /\ \/ /\ mem' = Saved(mem) /\ disk' = Saved(mem)
                        /\ receipts' = {q \in S : q.ref \notin mem.done}
                     \/ mem' = disk /\ disk' = disk /\ receipts' = S
  BY HaltFacts
<1>3. mem'.map = mem.map
  BY <1>2, Basics, SavedFields
<1>4. ASSUME NEW x \in Item PROVE Copy(x)' = Copy(x) /\ (Copy(x) \in alive' => Copy(x) \in alive)
  <2>1. CASE UNCHANGED <<made, alive>>
    BY <1>3, <2>1 DEF Copy
  <2>2. CASE Thing \in Item /\ MakeCopy(Thing)
    <3>1. Copy(x) \in Born /\ <<Thing, made[Thing] + 1>> \notin Born
      BY <2>2, CopyBorn, BornGrows
    <3> QED  BY <1>3, <2>2, <3>1 DEF Copy, MakeCopy
  <2> QED  BY <1>1, <2>1, <2>2
<1> QED  BY <1>1, <1>4 DEF OrderInv, Item

LEMMA PeopleOrder ==
    ASSUME Shapes, OneInv, OrderInv, People PROVE OrderInv'
<1>1. /\ step = "idle" /\ step' = "idle" /\ UNCHANGED <<mem, fresh, unfinished, jobs>> /\ ~Working /\ ~Working'
      /\ alive' \subseteq alive
  BY PeopleFacts DEF work
<1>2. \A x \in Item : Copy(x)' = Copy(x) /\ Copy(x) = <<x, mem.map[x]>>
  BY <1>1 DEF Copy
<1>3. ASSUME NEW x \in Role, Copy(x) \in alive', Copy(x) \in dressed PROVE Copy(x) \in dressed'
  <2>1. CASE \E y \in Item : LoseItem(y)
    <3>1. PICK y \in Item : LoseItem(y)
      BY <2>1
    <3>2. y # x
      <4>1. disk.map[x] = mem.map[x]
        BY Basics
      <4> QED  BY <1>2, <1>3, <3>1, <4>1 DEF LoseItem, Item
    <3>3. Copy(x)[1] = x
      BY DEF Copy
    <3> QED  BY <1>3, <3>1, <3>2, <3>3 DEF LoseItem
  <2>2. CASE (\E k \in Category : LoseCategory(k)) \/ (\E p \in posts : LosePost(p))
    BY <1>3, <2>2 DEF LoseCategory, LosePost
  <2> QED  BY <2>1, <2>2, PeopleFacts
<1>4. ~RolesLeft' /\ ~RolesLeft
  BY <1>1, PeopleFacts DEF RolesLeft, RolesToMake
<1>5. \A f \in fresh' : f[1] \notin Role
  BY <1>1, <1>4 DEF OrderInv
<1> QED  BY <1>1, <1>2, <1>3, <1>5 DEF OrderInv, Item

LEMMA InitOrder ==
    ASSUME Init PROVE OrderInv
<1>1. step = "idle" /\ ~Working /\ fresh = {} /\ dressed = (Item \ Emoji) \X {1}
  BY StepKinds DEF Init, Working
<1>3. PICK b \in {{}} \union {{s} : s \in UNION {Text(c) : c \in Channel}} : disk = Migrated(b)
  BY DEF Init
<1>4. b \in SUBSET Source
  BY <1>3 DEF Source
<1>5. mem.map = [x \in Item |-> 1]
  BY <1>3, <1>4, MigratedShape DEF Init
<1>6. \A x \in Role : Copy(x) = <<x, 1>> /\ x \in Item \ Emoji
  BY <1>5, RepairAssumption DEF Copy, Item
<1> QED  BY <1>1, <1>6 DEF OrderInv

-----------------------------------------------------------------------------
(* CategoriesInv: no category and no index is forgotten.                   *)

LEMMA SameCategories ==
    ASSUME CategoriesInv, jobs' = jobs, alive' = alive, DOMAIN lists' = DOMAIN lists, mem'.map = mem.map,
           Classified, step # "patch" \/ Kind # "category", Making \subseteq Making',
           Working' => Working /\ Kind' = Kind
    PROVE  CategoriesInv'
<1>1. CategoriesOver => CategoriesOver'
  BY DEF CategoriesOver
<1>2. \A i \in Index : Copy(i)' = Copy(i)
  BY DEF Copy
<1>3. \A k \in Named : ~(step = "patch" /\ job = <<"category", k>>)
  BY DEF Kind
<1> QED  BY <1>1, <1>2, <1>3 DEF CategoriesInv

LEMMA QuietCategories ==
    ASSUME Shapes, OneInv, CategoriesInv,
           Check \/ Halt \/ People \/ Prepare \/ TakeFailures \/ Dress \/ Clear \/ Replace \/ Send \/ AllSent \/ Close
             \/ (\E s \in Source : Edit(s)) \/ EndEdits \/ (\E r : RetryOne(r)) \/ EndRetry
    PROVE  CategoriesInv'
<1>1. CASE Check \/ Halt \/ People
  <2>1. ~Classified'
    <3>1. CASE Check
      BY <3>1 DEF Check, Classified
    <3>2. CASE Halt
      BY <3>2, HaltFacts DEF Classified
    <3>3. CASE People
      BY <3>3, PeopleFacts DEF Classified
    <3> QED  BY <1>1, <3>1, <3>2, <3>3
  <2> QED  BY <2>1 DEF CategoriesInv
<1>2. CASE Prepare
  <2>1. /\ step = "prepare" /\ step' = "next" /\ UNCHANGED <<mem, jobs, alive, lists>> /\ ~Working'
    BY <1>2, StepKinds DEF Prepare, history, Working
  <2> QED  BY <2>1, SameCategories DEF Making, Classified
<1>3. CASE TakeFailures
  <2>1. /\ step = "next" /\ step' \in {"retry", "finish"} /\ UNCHANGED <<mem, lists, alive, jobs>> /\ ~Working'
    BY <1>3, StepKinds DEF TakeFailures, server, history, Working
  <2> QED  BY <2>1, SameCategories DEF Making, Classified
<1>4. CASE Dress
  <2>1. /\ step = "dress" /\ UNCHANGED <<mem, lists, alive, jobs>> /\ Kind' = Kind /\ Working
    BY <1>4, StepKinds DEF Dress, files, history, Working, Kind
  <2> QED  BY <2>1, SameCategories DEF Making, Classified
<1>5. CASE Clear
  <2>1. step = "clear" /\ UNCHANGED <<alive, lists, jobs>>
    BY <1>5 DEF Clear, server, history
  <2> QED  BY <1>5, <2>1, ClearFacts, SameCategories DEF Making, Classified
<1>6. CASE Replace
  <2>1. UNCHANGED <<alive, lists, jobs>>
    BY <1>6 DEF Replace, server, history
  <2>2. Working' /\ Working /\ Kind' = Kind /\ step = "replace" /\ step' = "send" /\ mem'.map = mem.map
    BY <1>6, ReplaceFacts
  <2> QED  BY <2>1, <2>2, SameCategories DEF Making, Classified
<1>7. CASE Send
  <2>1. UNCHANGED <<alive, lists, jobs>>
    BY <1>7 DEF Send
  <2>2. Working' /\ Working /\ Kind' = Kind /\ step = "send" /\ step' = "replace"
    BY <1>7, SendFacts
  <2>3. mem'.map = mem.map
    BY <1>7, SendFacts
  <2> QED  BY <2>1, <2>2, <2>3, SameCategories DEF Making, Classified
<1>8. CASE AllSent
  <2>1. UNCHANGED <<alive, lists, jobs>>
    BY <1>8 DEF AllSent, server, history
  <2> QED  BY <1>8, <2>1, AllSentFacts, SameCategories DEF Making, Classified
<1>9. CASE Close
  <2>1. UNCHANGED <<alive, lists, jobs>>
    BY <1>9 DEF Close, server, history
  <2> QED  BY <1>9, <2>1, CloseFacts, SameCategories DEF Making, Classified
<1>10. CASE \E s \in Source : Edit(s)
  <2>1. PICK s \in Source : Edit(s)
    BY <1>10
  <2>2. UNCHANGED <<mem, alive, lists, jobs>>
    BY <2>1 DEF Edit, history
  <2> QED  BY <2>1, <2>2, EditFacts, SameCategories DEF Making, Classified
<1>11. CASE EndEdits
  <2>1. UNCHANGED <<alive, lists, jobs>>
    BY <1>11 DEF EndEdits, server, history
  <2>2. step = "edit" /\ mem'.map = mem.map /\ ~Working'
    BY <1>11, EndEditsFacts
  <2> QED  BY <2>1, <2>2, SameCategories DEF Making, Classified
<1>12. CASE \E r : RetryOne(r)
  <2>1. PICK r : RetryOne(r)
    BY <1>12
  <2>2. UNCHANGED <<alive, lists, jobs>>
    BY <2>1 DEF RetryOne, history
  <2>3. step = "retry" /\ ~Working' /\ mem'.map = mem.map
    BY <2>1, RetryFacts
  <2> QED  BY <2>2, <2>3, SameCategories DEF Making, Classified
<1>13. CASE EndRetry
  <2>1. UNCHANGED <<alive, lists, jobs>>
    BY <1>13 DEF EndRetry, server, history
  <2> QED  BY <1>13, <2>1, EndRetryFacts, SameCategories DEF Making, Classified
<1> QED  BY <1>1, <1>2, <1>3, <1>4, <1>5, <1>6, <1>7, <1>8, <1>9, <1>10, <1>11, <1>12, <1>13

LEMMA ClassifyCategories ==
    ASSUME Classify PROVE CategoriesInv'
<1>1. jobs' = Found /\ UNCHANGED <<mem, alive, lists>>
  BY DEF Classify, server
<1>2. \A k \in Named : k \in DOMAIN lists \/ <<"category", k>> \in Found
  BY RepairAssumption DEF Found
<1>3. \A i \in Index : Copy(i) \in alive \/ <<"index", i>> \in Found
  BY DEF Found, Missing
<1> QED  BY <1>1, <1>2, <1>3 DEF CategoriesInv, Copy

LEMMA TakeJobCategories ==
    ASSUME Shapes, CategoriesInv, TakeJob PROVE CategoriesInv'
<1>1. PICK j \in jobs : /\ job' = j /\ jobs' = jobs \ {j} /\ step' = First[j[1]]
  BY DEF TakeJob
<1>2. /\ step = "next" /\ ~Working /\ UNCHANGED <<mem, alive, lists>> /\ j \in Jobs /\ j = <<j[1], j[2]>>
  BY <1>1, StepKinds, JobThing DEF TakeJob, server, Working, Shapes, RunShapes
<1>3. Classified /\ Making = {}
  BY <1>2 DEF Classified, Making
<1>4. Kind' = j[1]
  BY <1>1 DEF Kind
<1>5. CategoriesOver => CategoriesOver'
  BY <1>1, <1>4 DEF CategoriesOver
<1>6. ASSUME NEW k \in Named, k \notin DOMAIN lists, <<"category", k>> \notin jobs'
      PROVE  step' = "patch" /\ job' = <<"category", k>>
  <2>1. <<"category", k>> \in jobs
    BY <1>2, <1>3, <1>6 DEF CategoriesInv
  <2>2. j = <<"category", k>>
    BY <1>1, <1>6, <2>1
  <2>3. First["category"] = "patch"
    BY DEF First
  <2> QED  BY <1>1, <2>2, <2>3
<1>7. ASSUME NEW i \in Index, Copy(i) \notin alive, <<"index", i>> \notin jobs', ~(CategoryOf[i] \notin DOMAIN lists /\ CategoriesOver')
      PROVE  <<"index", i>> \in Making'
  <2>1. <<"index", i>> \in jobs
    BY <1>3, <1>5, <1>7 DEF CategoriesInv
  <2>2. j = <<"index", i>>
    BY <1>1, <1>7, <2>1
  <2>3. First["index"] = "make"
    BY DEF First
  <2> QED  BY <1>1, <2>2, <2>3 DEF Making
<1> QED  BY <1>2, <1>6, <1>7 DEF CategoriesInv, Copy

LEMMA DeclineCategories ==
    ASSUME Shapes, ListsInv, OrderInv, CategoriesInv, Decline PROVE CategoriesInv'
<1>1. /\ step \in {"make", "patch"} /\ step' = "close" /\ Undone /\ UNCHANGED <<mem, alive, lists, jobs, job>>
      /\ Working /\ Working' /\ Kind' = Kind /\ job \in Jobs /\ Kind \in Kinds[step] /\ job = <<Kind, Thing>>
  BY AtWork, StepKinds DEF Decline, server, Working, Kind
<1>2. Classified /\ view = lists
  BY <1>1 DEF Classified, ListsInv
<1>3. CategoriesOver => CategoriesOver'
  BY <1>1 DEF CategoriesOver
<1>4. \A k \in Named : ~(step = "patch" /\ job = <<"category", k>>)
  BY <1>1 DEF Undone, Kind, Thing
<1>5. CASE step = "make"
  <2>1. Kind = "index" /\ CategoryOf[Thing] \notin DOMAIN lists
    BY <1>1, <1>2, <1>5, StepKinds DEF Undone, Creating
  <2>2. CategoriesOver'
    <3>1. Rank[Kind] = 6
      BY <2>1 DEF Rank
    <3>2. \A j \in jobs : Rank[j[1]] \in 1..8
      BY Ranks DEF Shapes, RunShapes
    <3>3. \A j \in jobs : Rank[j[1]] >= 6
      BY <1>1, <3>1, <3>2 DEF OrderInv
    <3> QED  BY <1>1, <3>1, <3>3 DEF CategoriesOver
  <2>3. \A i \in Index : <<"index", i>> \in Making => i = Thing
    BY <1>1 DEF Making, Thing
  <2> QED  BY <1>1, <1>2, <1>3, <1>4, <2>1, <2>2, <2>3 DEF CategoriesInv, Copy
<1>6. CASE step = "patch"
  <2>1. Making = {}
    BY <1>6 DEF Making
  <2> QED  BY <1>1, <1>2, <1>3, <1>4, <2>1 DEF CategoriesInv, Copy
<1> QED  BY <1>1, <1>5, <1>6

LEMMA MakeCategories ==
    ASSUME Shapes, CategoriesInv, Make PROVE CategoriesInv'
<1>1. /\ step = "make" /\ step' = "made" /\ UNCHANGED <<mem, lists, jobs, job>> /\ alive \subseteq alive'
      /\ Working /\ Kind' = Kind
  BY StepKinds DEF Make, MakeCopy, files, Working, Kind
<1>2. Classified /\ Making' = Making /\ (CategoriesOver => CategoriesOver')
  BY <1>1 DEF Classified, Making, CategoriesOver
<1> QED  BY <1>1, <1>2 DEF CategoriesInv, Copy

LEMMA RecordCategories ==
    ASSUME Shapes, OneInv, CopiesInv, CategoriesInv, Record PROVE CategoriesInv'
<1>1. /\ step = "made" /\ UNCHANGED <<alive, lists, jobs, job>> /\ Thing' = Thing /\ Kind' = Kind /\ Working
      /\ Thing \in Item /\ made[Thing] \in Nat /\ step' \in {"edit", "dress"}
  BY RecordFacts DEF Record, server
<1>2. mem'.map = [mem.map EXCEPT ![Thing] = made[Thing]] /\ mem \in State
  BY RecordFacts, Basics
<1>3. /\ \A x \in Item : x # Thing => Copy(x)' = Copy(x)
      /\ Copy(Thing)' = <<Thing, made[Thing]>>
  <2>1. mem'.map[Thing] = made[Thing] /\ \A y \in Item : y # Thing => mem'.map[y] = mem.map[y]
    BY <1>1, <1>2 DEF State
  <2> QED  BY <1>1, <2>1 DEF Copy
<1>4. Copy(Thing)' \in alive
  BY <1>1, <1>3 DEF CopiesInv
<1>5. Classified /\ (CategoriesOver => CategoriesOver')
  BY <1>1 DEF Classified, CategoriesOver
<1>6. \A i \in Index : <<"index", i>> \in Making => i = Thing
  BY DEF Making, Thing
<1>7. ASSUME NEW i \in Index
      PROVE  Copy(i)' \in alive' \/ <<"index", i>> \in jobs' \union Making' \/ (CategoryOf[i] \notin DOMAIN lists' /\ CategoriesOver')
  <2>1. CASE i = Thing
    BY <1>1, <1>4, <2>1 DEF Copy
  <2>2. CASE i # Thing
    <3>1. Copy(i)' = Copy(i)
      BY <1>3, <2>2 DEF Item
    <3> QED  BY <1>1, <1>5, <1>6, <2>2, <3>1 DEF CategoriesInv
  <2> QED  BY <2>1, <2>2
<1>8. \A k \in Named : k \in DOMAIN lists' \/ <<"category", k>> \in jobs'
  BY <1>1, <1>5 DEF CategoriesInv
<1> QED  BY <1>7, <1>8 DEF CategoriesInv

LEMMA PatchCategories ==
    ASSUME Shapes, OneInv, ListsInv, CategoriesInv, Patch PROVE CategoriesInv'
<1>1. /\ step = "patch" /\ UNCHANGED <<mem, alive, jobs, job>> /\ Kind' = Kind /\ Thing' = Thing
      /\ lists' = Patched /\ view = lists /\ Working /\ Kind \in {"category", "channel", "index"}
      /\ step' = (IF Kind = "index" THEN "clear" ELSE "close")
  BY AtWork, StepKinds DEF Patch, files, history, Working, Kind, Thing, ListsInv
<1>2. IsLists(lists) /\ Making = {} /\ Classified
  BY <1>1 DEF Shapes, WorldShapes, Making, Classified
<1>3. CASE Kind = "category"
  <2>1. PICK k \in Category : k = Thing /\ lists' = Rebuilt(lists, k)
    BY <1>1, <1>3, AtWork DEF Patched
  <2>2. DOMAIN lists' = DOMAIN lists \union {k}
    BY <1>2, <2>1, RebuiltLists
  <2>3. ~CategoriesOver
    <3>1. Rank[Kind] = 5
      BY <1>3 DEF Rank
    <3> QED  BY <1>1, <3>1 DEF CategoriesOver
  <2>4. \A l \in Named : job = <<"category", l>> => l = k
    BY <2>1 DEF Thing
  <2> QED  BY <1>1, <1>2, <2>2, <2>3, <2>4 DEF CategoriesInv, Copy
<1>4. CASE Kind \in {"channel", "index"}
  <2>1. PICK x \in Item : x = Thing /\ lists' = Attached(lists, x)
    BY <1>1, <1>4, AtWork DEF Patched
  <2>2. DOMAIN lists' = DOMAIN lists
    BY <1>2, <2>1, AttachedLists
  <2> QED  BY <1>1, <1>2, <1>4, <2>2, SameCategories
<1> QED  BY <1>1, <1>3, <1>4

-----------------------------------------------------------------------------
(* StandInv: what was confirmed stands, or people deleted it.              *)

Less(n, m) == n.counted \subseteq m.counted /\ n.sent \subseteq m.sent

\* Posts go only with their copy, or into the history of what was deleted.
PostsKept ==
    \A p \in posts : \/ \E z \in posts' : z.ref = p.ref
                     \/ Logical(p.ref) \in removed'
                     \/ <<p.ref.src[1], p.ref.copy>> \notin alive'
CopiesLater == \A c \in alive' : c \in alive \/ c[2] > mem.map[c[1]]

LEMMA CountedKept ==
    ASSUME Shapes, OneInv, NEW m, NEW n, CountedStand(m), Less(n, m), mem'.map = mem.map,
           removed \subseteq removed', PostsKept, CopiesLater
    PROVE  CountedStand(n)'
<1> SUFFICES ASSUME NEW c \in Channel, Copy(c)' \in alive', c \in n.counted \/ \E r \in n.sent : r.src[1] = c
             PROVE  Window(c)' # {} \/ \E s \in Text(c) : Gone(s)'
  BY DEF CountedStand
<1>1. c \in Item /\ Copy(c)' = Copy(c) /\ Copy(c) = <<c, mem.map[c]>> /\ mem.map[c] \in Nat
  BY Basics DEF Copy, Item
<1>2. Copy(c) \in alive
  BY <1>1 DEF CopiesLater
<1>3. Window(c) # {} \/ \E s \in Text(c) : Gone(s)
  BY <1>2 DEF CountedStand, Less
<1>4. CASE \E s \in Text(c) : Gone(s)
  BY <1>4 DEF Gone
<1>5. CASE Window(c) # {}
  <2>1. PICK p \in posts : p.ref.src[1] = c /\ p.ref.copy = mem.map[c]
    BY <1>5 DEF Window
  <2>2. p.ref \in Refs /\ p.ref.src \in Text(c) /\ Logical(p.ref) = <<p.ref.src, mem.map[c]>>
    BY <2>1, Basics, RefFacts, Things DEF Post, Logical
  <2>3. CASE \E z \in posts' : z.ref = p.ref
    BY <2>1, <2>3 DEF Window
  <2>4. CASE Logical(p.ref) \in removed'
    BY <2>1, <2>2, <2>4 DEF Gone
  <2>5. <<p.ref.src[1], p.ref.copy>> \in alive'
    BY <1>1, <2>1
  <2> QED  BY <2>3, <2>4, <2>5 DEF PostsKept
<1> QED  BY <1>3, <1>4, <1>5

LEMMA StandKept ==
    ASSUME Shapes, OneInv, StandInv, mem'.map = mem.map, removed \subseteq removed', PostsKept, CopiesLater,
           \A q \in receipts' : q \in receipts \/ q.st # "acked",
           deaths' = deaths + 1 \/ (deaths' = deaths /\ \A q \in receipts' : q.ref \in mem.done => q.ref \in mem'.done),
           Less(mem', mem) \/ Less(mem', disk), Less(disk', mem) \/ Less(disk', disk),
           ResolvedStand'
    PROVE  StandInv'
<1>1. AckedStand'
  <2> SUFFICES ASSUME NEW q \in receipts', q.st = "acked", <<q.ref.src[1], q.ref.copy>> \in alive'
               PROVE  Live(q.ref)' # {} \/ Logical(q.ref) \in removed'
    BY DEF AckedStand
  <2>1. q \in receipts /\ q.ref \in Refs
    BY Basics DEF Rcpt
  <2>2. q.ref.copy <= mem.map[q.ref.src[1]] /\ q.ref.copy \in Nat /\ mem.map[q.ref.src[1]] \in Nat
    BY <2>1, Basics, RefFacts DEF Deliveries, CopyBounds
  <2>3. <<q.ref.src[1], q.ref.copy>> \in alive
    BY <2>2 DEF CopiesLater
  <2>4. Live(q.ref) # {} \/ Logical(q.ref) \in removed
    BY <2>1, <2>3 DEF StandInv, AckedStand
  <2>5. CASE Live(q.ref) # {}
    <3>1. PICK p \in posts : p.ref = q.ref
      BY <2>5 DEF Live
    <3> QED  BY <3>1 DEF PostsKept, Live
  <2> QED  BY <2>4, <2>5
<1>2. AckedKnown'
  <2>1. deaths \in Nat
    BY DEF Shapes, WorldShapes
  <2> QED  BY <2>1 DEF StandInv, AckedKnown
<1>3. CountedStand(mem)'
  <2>1. PICK n : n = mem'
    OBVIOUS
  <2>2. PICK m : CountedStand(m) /\ Less(n, m)
    BY <2>1 DEF StandInv
  <2>3. CountedStand(n)'
    BY <2>2, CountedKept
  <2> QED  BY <2>1, <2>3 DEF CountedStand
<1>4. CountedStand(disk)'
  <2>1. PICK n : n = disk'
    OBVIOUS
  <2>2. PICK m : CountedStand(m) /\ Less(n, m)
    BY <2>1 DEF StandInv
  <2>3. CountedStand(n)'
    BY <2>2, CountedKept
  <2> QED  BY <2>1, <2>3 DEF CountedStand
<1> QED  BY <1>1, <1>2, <1>3, <1>4 DEF StandInv

\* A delivery that comes to its end.
LEMMA AttemptStand ==
    ASSUME Shapes, OneInv, CopiesInv, RecordsInv, StandInv, NEW r, Pending(r),
           NEW o \in Sends \union Breaks \union Settled(r, Shown(mem, r.src)), Deliver(r, o),
           mem'.map = mem.map, UNCHANGED <<disk, alive, removed, deaths>>,
           o.ok => /\ mem'.sent = {q \in mem.sent : q.src # r.src} \union {r}
                   /\ mem'.counted = mem.counted \union ({r.src[1]} \intersect Channel)
                   /\ mem'.done = mem.done \union {r},
           ~o.ok => mem'.sent = mem.sent /\ mem'.counted = mem.counted /\ mem'.done = mem.done
    PROVE  /\ AckedStand' /\ AckedKnown' /\ CountedStand(mem)' /\ CountedStand(disk)'
           /\ o.ok => Stood(r)' /\ (Live(r)' # {} \/ Logical(r) \in removed)
           /\ posts \subseteq posts'
<1>1. /\ r \in Refs /\ <<r.src[1], r.copy>> \in alive /\ r.copy = mem.map[r.src[1]]
      /\ Logical(r) = <<r.src, mem.map[r.src[1]]>> /\ r.src \in Text(r.src[1]) /\ r.src[1] \in Item
      /\ \A q \in mem.done : q.src # r.src
  BY MayAttempt, PendingAlive, RefFacts, Things DEF Logical
<1>2. /\ posts \subseteq posts'
      /\ \A q \in receipts' : q.ref # r => q \in receipts
      /\ \A q \in receipts' : q.ref = r /\ q.st = "acked" =>
            o.ok \/ \E z \in receipts : z.ref = r /\ z.st = "acked"
      /\ o.ok => \E q \in receipts' : q.ref = r /\ q.st = "acked"
  BY DeliverOutcome DEF Attempt
<1>3. o.ok \in BOOLEAN
  BY DeliverOutcome
<1>4. ASSUME NEW z \in receipts, z.ref = r, z.st = "acked"
      PROVE  Live(r) # {} \/ (Logical(r) \in removed /\ deaths > 0)
  <2>1. deaths > 0
    BY <1>1, <1>4 DEF StandInv, AckedKnown
  <2> QED  BY <1>1, <1>4, <2>1 DEF StandInv, AckedStand
<1>5. Live(r) # {} => Live(r)' # {}
  BY <1>2 DEF Live
<1>6. o.ok => Live(r)' # {} \/ (Logical(r) \in removed /\ deaths > 0)
  <2> HAVE o.ok
  <2>1. CASE Fresh(r) \in posts'
    <3>1. Fresh(r).ref = r
      BY <1>1, FreshShape
    <3> QED  BY <2>1, <3>1 DEF Live
  <2>2. CASE \E q \in receipts : q.ref = r /\ (q.st = "acked" \/ Live(r) # {})
    BY <1>4, <1>5, <2>2
  <2> QED  BY <2>1, <2>2, DeliverOutcome
<1>7. o.ok => Stood(r)'
  BY <1>1, <1>6 DEF Stood, Vouched
<1>8. AckedStand'
  <2> SUFFICES ASSUME NEW q \in receipts', q.st = "acked", <<q.ref.src[1], q.ref.copy>> \in alive'
               PROVE  Live(q.ref)' # {} \/ Logical(q.ref) \in removed'
    BY DEF AckedStand
  <2>1. CASE q.ref # r
    <3>1. Live(q.ref) # {} \/ Logical(q.ref) \in removed
      BY <1>2, <2>1 DEF StandInv, AckedStand
    <3> QED  BY <1>2, <3>1 DEF Live
  <2>2. CASE q.ref = r
    <3>1. o.ok \/ \E z \in receipts : z.ref = r /\ z.st = "acked"
      BY <1>2, <2>2
    <3>2. Live(r)' # {} \/ Logical(r) \in removed
      BY <1>4, <1>5, <1>6, <3>1
    <3> QED  BY <2>2, <3>2
  <2> QED  BY <2>1, <2>2
<1>9. AckedKnown'
  <2>1. mem.done \subseteq mem'.done
    BY <1>3
  <2> SUFFICES ASSUME NEW q \in receipts', q.st = "acked" PROVE q.ref \in mem'.done \/ deaths > 0
    BY DEF AckedKnown
  <2>2. CASE q.ref # r
    BY <1>2, <2>1, <2>2 DEF StandInv, AckedKnown
  <2>3. CASE q.ref = r /\ o.ok
    BY <2>3
  <2>4. CASE q.ref = r /\ \E z \in receipts : z.ref = r /\ z.st = "acked"
    BY <2>1, <2>4 DEF StandInv, AckedKnown
  <2> QED  BY <1>2, <2>2, <2>3, <2>4
<1>10. PostsKept /\ CopiesLater
  BY <1>2 DEF PostsKept, CopiesLater
<1>11. CountedStand(disk)'
  <2>1. PICK n : n = disk
    OBVIOUS
  <2>2. CountedStand(n)'
    BY <1>10, <2>1, CountedKept DEF StandInv, Less
  <2> QED  BY <2>1, <2>2 DEF CountedStand
<1>12. CountedStand(mem)'
  <2> SUFFICES ASSUME NEW c \in Channel, Copy(c)' \in alive', c \in mem'.counted \/ \E q \in mem'.sent : q.src[1] = c
               PROVE  Window(c)' # {} \/ \E s \in Text(c) : Gone(s)'
    BY DEF CountedStand
  <2>1. CASE o.ok /\ r.src[1] = c
    <3>1. CASE Live(r)' # {}
      <4>1. PICK p \in posts' : p.ref = r
        BY <3>1 DEF Live
      <4> QED  BY <1>1, <2>1, <4>1 DEF Window
    <3>2. CASE Logical(r) \in removed
      BY <1>1, <2>1, <3>2 DEF Gone
    <3> QED  BY <1>6, <2>1, <3>1, <3>2
  <2>2. CASE ~(o.ok /\ r.src[1] = c)
    <3>1. c \in mem.counted \/ \E q \in mem.sent : q.src[1] = c
      BY <1>3, <2>2
    <3>2. Copy(c) \in alive
      BY DEF Copy
    <3>3. Window(c) # {} \/ \E s \in Text(c) : Gone(s)
      BY <3>1, <3>2 DEF StandInv, CountedStand
    <3>4. CASE Window(c) # {}
      <4>1. PICK p \in posts : p.ref.src[1] = c /\ p.ref.copy = mem.map[c]
        BY <3>4 DEF Window
      <4> QED  BY <1>2, <4>1 DEF Window
    <3>5. CASE \E s \in Text(c) : Gone(s)
      BY <3>5 DEF Gone
    <3> QED  BY <3>3, <3>4, <3>5
  <2> QED  BY <2>1, <2>2
<1> QED  BY <1>2, <1>6, <1>7, <1>8, <1>9, <1>11, <1>12

\* Posts stay, or are edited: each still has its delivery.
LEMMA PostsSame ==
    ASSUME posts \subseteq posts' \/ \A p \in posts : \E z \in posts' : z.ref = p.ref PROVE PostsKept
BY DEF PostsKept

\* Steps that take no post away, and that save nothing.
LEMMA QuietWorld ==
    ASSUME Shapes, OneInv,
           Check \/ Classify \/ Prepare \/ TakeJob \/ TakeFailures \/ Decline \/ Make \/ Dress \/ Patch \/ Clear
             \/ AllSent \/ (\E s \in Source : Edit(s))
    PROVE  /\ PostsKept /\ CopiesLater /\ UNCHANGED <<disk, receipts, removed, deaths>>
           /\ mem'.map = mem.map /\ Less(mem', mem) /\ mem'.done = mem.done /\ mem'.failed = mem.failed
<1>1. CopiesLater
  <2>1. CASE Make
    <3>1. Thing \in Item /\ made[Thing] \in Nat /\ mem.map[Thing] \in 1..made[Thing]
      BY <2>1, AtWork, StepKinds, CopyBorn DEF Make, Working, Creating, Shapes, RunShapes
    <3>2. alive' = alive \union {<<Thing, made[Thing] + 1>>}
      BY <2>1 DEF Make, MakeCopy
    <3> QED  BY <3>1, <3>2 DEF CopiesLater
  <2>2. CASE ~Make
    <3>1. alive' = alive
      BY <2>2 DEF Check, Classify, Prepare, TakeJob, TakeFailures, Decline, Make, Dress, Patch, Clear, AllSent, Edit, server
    <3> QED  BY <3>1 DEF CopiesLater
  <2> QED  BY <2>1, <2>2
<1>2. PostsKept
  <2>1. CASE \E s \in Source : Edit(s)
    <3>1. PICK s \in Source : Edit(s)
      BY <2>1
    <3> DEFINE old == {p \in posts : p.ref \in mem.sent /\ p.ref.src = s}
               new == {[p EXCEPT !.emo = mem.map[Thing]] : p \in old}
    <3>2. /\ posts' = posts \/ posts' = (posts \ old) \union new
          /\ \A q \in old : \E p \in new : p.ref = q.ref
      BY <3>1, EditFacts
    <3> HIDE DEF old, new
    <3>3. \A p \in posts : \E z \in posts' : z.ref = p.ref
      BY <3>2
    <3> QED  BY <3>3, PostsSame
  <2>2. CASE ~(\E s \in Source : Edit(s))
    <3>1. posts' = posts
      BY <2>2 DEF Check, Classify, Prepare, TakeJob, TakeFailures, Decline, Make, Dress, Patch, Clear, AllSent, server
    <3> QED  BY <3>1, PostsSame
  <2> QED  BY <2>1, <2>2
<1>3. mem'.map = mem.map /\ Less(mem', mem) /\ mem'.done = mem.done /\ mem'.failed = mem.failed
  <2>1. CASE Check
    <3>1. mem' = mem
      BY <2>1 DEF Check, OneInv, Synced
    <3> QED  BY <3>1 DEF Less
  <2>2. CASE Clear
    BY <2>2, ClearFacts DEF Less
  <2>3. CASE AllSent
    BY <2>3, AllSentFacts DEF Less
  <2>4. CASE ~Check /\ ~Clear /\ ~AllSent
    <3>1. mem' = mem
      BY <2>4 DEF Classify, Prepare, TakeJob, TakeFailures, Decline, Make, Dress, Patch, Edit, files
    <3> QED  BY <3>1 DEF Less
  <2> QED  BY <2>1, <2>2, <2>3, <2>4
<1>4. UNCHANGED <<disk, receipts, removed, deaths>>
  BY DEF Check, Classify, Prepare, TakeJob, TakeFailures, Decline, Make, Dress, Patch, Clear, AllSent, Edit,
         files, history, bounds
<1> QED  BY <1>1, <1>2, <1>3, <1>4

\* Steps that save.
LEMMA SavingWorld ==
    ASSUME Shapes, OneInv, Replace \/ Close \/ EndEdits \/ EndRetry
    PROVE  /\ UNCHANGED <<posts, alive, removed, deaths, resolved, unfinished>> /\ PostsKept /\ CopiesLater
           /\ mem'.map = mem.map /\ mem'.sent = mem.sent /\ mem'.counted = mem.counted
           /\ disk' = disk \/ disk' = mem'
           /\ receipts' \subseteq receipts
           /\ \A q \in receipts' : q.ref \in mem.done => q.ref \in mem'.done
<1>1. UNCHANGED <<posts, alive, removed, deaths, resolved, unfinished>>
  BY DEF Replace, Close, EndEdits, EndRetry, server, history, bounds
<1>2. PostsKept /\ CopiesLater
  BY <1>1 DEF PostsKept, CopiesLater
<1>3. /\ mem'.map = mem.map /\ mem'.sent = mem.sent /\ mem'.counted = mem.counted
      /\ disk' = disk \/ disk' = mem'
      /\ receipts' \subseteq receipts
      /\ \A q \in receipts' : q.ref \in mem.done => q.ref \in mem'.done
  <2>1. CASE Replace
    BY <2>1, ReplaceFacts
  <2>2. CASE Close
    BY <2>2, CloseFacts
  <2>3. CASE EndEdits
    BY <2>3, EndEditsFacts
  <2>4. CASE EndRetry
    BY <2>4, EndRetryFacts
  <2> QED  BY <2>1, <2>2, <2>3, <2>4
<1> QED  BY <1>1, <1>2, <1>3

\* The end of a repair, whichever way.
LEMMA HaltWorld ==
    ASSUME Shapes, OneInv, Halt
    PROVE  PostsKept /\ CopiesLater /\ mem'.map = mem.map /\ removed' = removed
<1>1. /\ removed' = removed
      /\ \/ UNCHANGED <<made, alive>>
         \/ Thing \in Item /\ MakeCopy(Thing)
  BY HaltFacts
<1>2. PICK Q, S : /\ CutOff(Q, S) /\ posts' = Q
                  /\ \/ /\ mem' = Saved(mem) /\ disk' = Saved(mem)
                        /\ receipts' = {q \in S : q.ref \notin mem.done}
                     \/ mem' = disk /\ disk' = disk /\ receipts' = S /\ deaths' = deaths + 1
  BY HaltFacts
<1>3. mem'.map = mem.map
  BY <1>2, Basics, SavedFields
<1>4. PostsKept
  <2>1. posts \subseteq posts'
    BY <1>2, CutOffFacts
  <2> QED  BY <2>1, PostsSame
<1>5. CopiesLater
  <2>1. CASE UNCHANGED <<made, alive>>
    BY <2>1 DEF CopiesLater
  <2>2. CASE Thing \in Item /\ MakeCopy(Thing)
    <3>1. made[Thing] \in Nat /\ mem.map[Thing] \in 1..made[Thing]
      BY <2>2, CopyBorn DEF Shapes, RunShapes
    <3>2. alive' = alive \union {<<Thing, made[Thing] + 1>>}
      BY <2>2 DEF MakeCopy
    <3> QED  BY <3>1, <3>2 DEF CopiesLater
  <2> QED  BY <1>1, <2>1, <2>2
<1> QED  BY <1>1, <1>3, <1>4, <1>5

\* What people delete.
LEMMA PeopleWorld ==
    ASSUME Shapes, People
    PROVE  PostsKept /\ CopiesLater /\ removed \subseteq removed'
<1>1. alive' \subseteq alive
  BY PeopleFacts
<1>2. removed \subseteq removed' /\ PostsKept
  <2>1. CASE \E x \in Item : LoseItem(x)
    BY <2>1 DEF LoseItem, PostsKept, history
  <2>2. CASE \E k \in Category : LoseCategory(k)
    BY <2>2 DEF LoseCategory, PostsKept, history
  <2>3. CASE \E p \in posts : LosePost(p)
    BY <2>3 DEF LosePost, PostsKept
  <2> QED  BY <2>1, <2>2, <2>3, PeopleFacts
<1> QED  BY <1>1, <1>2 DEF CopiesLater

LEMMA QuietStand ==
    ASSUME Shapes, OneInv, RecordsInv, StandInv,
           Check \/ Classify \/ Prepare \/ TakeJob \/ TakeFailures \/ Decline \/ Make \/ Dress \/ Patch \/ Clear
             \/ AllSent \/ (\E s \in Source : Edit(s))
    PROVE  StandInv'
<1>1. step \notin {"retry", "finish"}
  BY AllSentFacts, EditFacts DEF Check, Classify, Prepare, TakeJob, TakeFailures, Decline, Make, Dress, Patch, Clear, AllSent, Edit
<1>2. ResolvedStand'
  <2>1. resolved = {}
    BY <1>1 DEF RecordsInv
  <2>2. resolved' = resolved \/ resolved' = {}
    BY DEF Check, Classify, Prepare, TakeJob, TakeFailures, Decline, Make, Dress, Patch, Clear, AllSent, Edit
  <2> QED  BY <2>1, <2>2 DEF ResolvedStand
<1>3. /\ PostsKept /\ CopiesLater /\ UNCHANGED <<disk, receipts, removed, deaths>>
      /\ mem'.map = mem.map /\ Less(mem', mem) /\ mem'.done = mem.done
  BY QuietWorld
<1>4. Less(disk', disk)
  BY <1>3 DEF Less
<1> QED  BY <1>2, <1>3, <1>4, StandKept

LEMMA SavingStand ==
    ASSUME Shapes, OneInv, RecordsInv, StandInv, Replace \/ Close \/ EndEdits \/ EndRetry PROVE StandInv'
<1>1. /\ UNCHANGED <<posts, alive, removed, deaths, resolved>> /\ PostsKept /\ CopiesLater
      /\ mem'.map = mem.map /\ mem'.sent = mem.sent /\ mem'.counted = mem.counted
      /\ disk' = disk \/ disk' = mem'
      /\ receipts' \subseteq receipts
      /\ \A q \in receipts' : q.ref \in mem.done => q.ref \in mem'.done
  BY SavingWorld
<1>2. Less(mem', mem) /\ (Less(disk', disk) \/ Less(disk', mem))
  BY <1>1 DEF Less
<1>3. ResolvedStand'
  BY <1>1 DEF StandInv, ResolvedStand, Mapped, Stood, Live, Vouched
<1> QED  BY <1>1, <1>2, <1>3, StandKept

LEMMA HaltStand ==
    ASSUME Shapes, OneInv, StandInv, Halt PROVE StandInv'
<1>1. /\ resolved' = {} /\ removed' = removed /\ deaths \in Nat /\ deaths' \in {deaths, deaths + 1}
  BY HaltFacts DEF Shapes, WorldShapes
<1>2. PICK Q, S : /\ CutOff(Q, S) /\ posts' = Q
                  /\ \/ /\ mem' = Saved(mem) /\ disk' = Saved(mem)
                        /\ receipts' = {q \in S : q.ref \notin mem.done}
                     \/ mem' = disk /\ disk' = disk /\ receipts' = S /\ deaths' = deaths + 1
  BY HaltFacts
<1>3. PostsKept /\ CopiesLater /\ mem'.map = mem.map
  BY HaltWorld
<1>6. \A q \in S : q \in receipts \/ q.st # "acked"
  <2>1. CASE S = receipts
    BY <2>1
  <2>2. CASE \E r : Pending(r) /\ S = Replaced(r, "unsure")
    <3>1. PICK r : Pending(r) /\ S = Replaced(r, "unsure")
      BY <2>2
    <3> QED  BY <3>1 DEF Replaced
  <2> QED  BY <1>2, <2>1, <2>2 DEF CutOff
<1>7. \A q \in receipts' : q \in receipts \/ q.st # "acked"
  BY <1>2, <1>6
<1>8. (Less(mem', mem) \/ Less(mem', disk)) /\ (Less(disk', mem) \/ Less(disk', disk))
  BY <1>2, Basics, SavedFields DEF Less
<1>9. deaths' = deaths + 1 \/ (deaths' = deaths /\ \A q \in receipts' : q.ref \in mem.done => q.ref \in mem'.done)
  <2>1. CASE mem' = Saved(mem) /\ receipts' = {q \in S : q.ref \notin mem.done}
    BY <1>1, <2>1
  <2> QED  BY <1>2, <2>1
<1>10. ResolvedStand'
  BY <1>1 DEF ResolvedStand
<1> QED  BY <1>1, <1>3, <1>7, <1>8, <1>9, <1>10, StandKept

LEMMA PeopleStand ==
    ASSUME Shapes, OneInv, RecordsInv, StandInv, People PROVE StandInv'
<1>1. step = "idle" /\ UNCHANGED <<mem, disk, receipts, deaths, resolved>> /\ alive' \subseteq alive
  BY PeopleFacts DEF work, files
<1>2. resolved' = {}
  BY <1>1 DEF RecordsInv
<1>3. ResolvedStand' /\ Less(mem', mem) /\ Less(disk', disk)
  BY <1>1, <1>2 DEF ResolvedStand, Less
<1>4. PostsKept /\ CopiesLater /\ removed \subseteq removed'
  BY PeopleWorld
<1> QED  BY <1>1, <1>3, <1>4, StandKept

LEMMA RecordStand ==
    ASSUME Shapes, OneInv, RecordsInv, StandInv, Record PROVE StandInv'
<1>1. /\ step = "made" /\ UNCHANGED <<alive, posts, resolved, removed, deaths>> /\ disk' = mem' /\ Kind \in Creating /\ Working
      /\ Thing \in Item /\ made[Thing] \in Nat /\ receipts' = {q \in receipts : q.ref \notin mem.done}
      /\ mem' \in State
  BY RecordFacts DEF Record, server, history, bounds
<1>2. mem'.map = [mem.map EXCEPT ![Thing] = made[Thing]] /\ mem \in State
  BY RecordFacts, Basics
<1>3. \A x \in Item : x # Thing => mem'.map[x] = mem.map[x]
  BY <1>2 DEF State
<1>4. AckedStand' /\ AckedKnown'
  BY <1>1 DEF StandInv, AckedStand, AckedKnown, Live
<1>5. ResolvedStand'
  BY <1>1 DEF RecordsInv, ResolvedStand
<1>6. CountedStand(mem)'
  <2> SUFFICES ASSUME NEW c \in Channel, Copy(c)' \in alive', c \in mem'.counted \/ \E q \in mem'.sent : q.src[1] = c
               PROVE  Window(c)' # {} \/ \E s \in Text(c) : Gone(s)'
    BY DEF CountedStand
  <2>1. c # Thing
    <3> SUFFICES ASSUME c = Thing PROVE FALSE
      OBVIOUS
    <3>1. Kind = "channel"
      BY <1>1, AtWork, RepairAssumption DEF Creating
    <3>2. mem'.counted = mem.counted \ {Thing} /\ mem'.sent = {r \in mem.sent : r.src[1] # Thing}
      BY <3>1, RecordFacts
    <3> QED  BY <3>2
  <2>2. c \in mem.counted \/ \E q \in mem.sent : q.src[1] = c
    <3>1. CASE Kind = "channel"
      BY <3>1, RecordFacts
    <3>2. CASE Kind # "channel"
      <4>1. mem'.counted = mem.counted /\ mem'.sent = mem.sent
        BY <3>2, RecordFacts
      <4> QED  BY <4>1
    <3> QED  BY <3>1, <3>2
  <2>3. mem'.map[c] = mem.map[c] /\ Copy(c)' = Copy(c)
    BY <1>3, <2>1 DEF Item, Copy
  <2>4. Window(c) # {} \/ \E s \in Text(c) : Gone(s)
    BY <1>1, <2>2, <2>3 DEF StandInv, CountedStand
  <2>5. Window(c)' = Window(c)
    BY <1>1, <2>3 DEF Window
  <2>6. \A s \in Text(c) : Gone(s) => Gone(s)'
    BY <1>1, <2>3, Things DEF Gone
  <2> QED  BY <2>4, <2>5, <2>6
<1>7. CountedStand(disk)'
  BY <1>1, <1>6 DEF CountedStand
<1> QED  BY <1>4, <1>5, <1>6, <1>7 DEF StandInv

LEMMA SendStand ==
    ASSUME Shapes, OneInv, CopiesInv, RecordsInv, StandInv, Send PROVE StandInv'
<1>1. PICK r \in Begun(Here) : \E o \in Sends \union Breaks \union Settled(r, Shown(mem, r.src)) :
           /\ Pending(r) /\ Deliver(r, o)
           /\ mem' = IF o.ok THEN Healed(mem, r) ELSE NotDelivered(mem, r)
           /\ mem'.map = mem.map
           /\ o.ok => /\ mem'.done = mem.done \union {r}
                      /\ mem'.sent = {q \in mem.sent : q.src # r.src} \union {r}
                      /\ mem'.counted = mem.counted \union ({r.src[1]} \intersect Channel)
           /\ ~o.ok => /\ mem'.done = mem.done /\ mem'.sent = mem.sent /\ mem'.counted = mem.counted
  BY SendFacts
<1>2. PICK o \in Sends \union Breaks \union Settled(r, Shown(mem, r.src)) :
           /\ Pending(r) /\ Deliver(r, o)
           /\ mem'.map = mem.map
           /\ o.ok => /\ mem'.done = mem.done \union {r}
                      /\ mem'.sent = {q \in mem.sent : q.src # r.src} \union {r}
                      /\ mem'.counted = mem.counted \union ({r.src[1]} \intersect Channel)
           /\ ~o.ok => /\ mem'.done = mem.done /\ mem'.sent = mem.sent /\ mem'.counted = mem.counted
  BY <1>1
<1>3. UNCHANGED <<disk, alive, removed, deaths, resolved>> /\ step = "send"
  BY DEF Send
<1>4. AckedStand' /\ AckedKnown' /\ CountedStand(mem)' /\ CountedStand(disk)'
  BY <1>2, <1>3, AttemptStand
<1>5. ResolvedStand'
  BY <1>3 DEF RecordsInv, ResolvedStand
<1> QED  BY <1>4, <1>5 DEF StandInv

LEMMA RetryStand ==
    ASSUME Shapes, OneInv, CopiesInv, RecordsInv, StandInv, NEW r, RetryOne(r) PROVE StandInv'
<1>1. UNCHANGED <<disk, alive, removed, deaths>> /\ step = "retry"
  BY DEF RetryOne, history
<1>2. CASE UNCHANGED <<posts, receipts, mem, resolved, faults>>
  BY <1>1, <1>2 DEF StandInv, AckedStand, AckedKnown, CountedStand, ResolvedStand, Live, Window, Gone, Copy, Mapped, Stood, Vouched
<1>3. CASE \E o \in Sends \union Breaks \union Settled(r, Shown(mem, r.src)) :
                   /\ Pending(r) /\ Deliver(r, o)
                   /\ mem' = IF o.ok THEN Delivered(mem, r) ELSE mem
                   /\ resolved' = IF o.ok THEN resolved \union {Logical(r)} ELSE resolved
                   /\ o.ok => /\ mem'.done = mem.done \union {r}
                              /\ mem'.sent = {q \in mem.sent : q.src # r.src} \union {r}
                              /\ mem'.counted = mem.counted \union ({r.src[1]} \intersect Channel)
  <2>1. PICK o \in Sends \union Breaks \union Settled(r, Shown(mem, r.src)) :
                   /\ Pending(r) /\ Deliver(r, o)
                   /\ mem' = IF o.ok THEN Delivered(mem, r) ELSE mem
                   /\ resolved' = IF o.ok THEN resolved \union {Logical(r)} ELSE resolved
                   /\ o.ok => /\ mem'.done = mem.done \union {r}
                              /\ mem'.sent = {q \in mem.sent : q.src # r.src} \union {r}
                              /\ mem'.counted = mem.counted \union ({r.src[1]} \intersect Channel)
    BY <1>3
  <2>2. mem'.map = mem.map /\ (~o.ok => mem' = mem)
    BY <2>1, RetryFacts
  <2>3. /\ AckedStand' /\ AckedKnown' /\ CountedStand(mem)' /\ CountedStand(disk)'
        /\ o.ok => Stood(r)'
        /\ posts \subseteq posts'
    BY <1>1, <2>1, <2>2, AttemptStand
  <2>4. /\ r \in Refs /\ Mapped(r, mem) /\ Logical(r) \notin resolved
    BY <1>1, <2>1, MayAttempt DEF Pending, Attempted
  <2>5. ASSUME NEW l \in resolved'
        PROVE  \E q \in mem'.sent : Logical(q) = l /\ Mapped(q, mem') /\ Stood(q)'
    <3>1. CASE o.ok /\ l = Logical(r)
      <4>1. r \in mem'.sent /\ Mapped(r, mem')
        BY <2>1, <2>2, <2>4, <3>1 DEF Mapped
      <4> QED  BY <2>3, <3>1, <4>1
    <3>2. CASE l \in resolved
      <4>1. PICK q \in mem.sent : Logical(q) = l /\ Mapped(q, mem) /\ Stood(q)
        BY <3>2 DEF StandInv, ResolvedStand
      <4>2. q.src # r.src
        BY <2>4, <3>2, <4>1 DEF Mapped, Logical
      <4>3. q \in mem'.sent
        <5>1. CASE o.ok
          BY <2>1, <4>2, <5>1
        <5>2. CASE ~o.ok
          BY <2>2, <5>2
        <5> QED  BY <5>1, <5>2
      <4>4. Stood(q)'
        <5>1. Live(q) # {} => Live(q)' # {}
          BY <2>3 DEF Live
        <5>2. Vouched(q.src) => Vouched(q.src)'
          BY <1>1, <2>2 DEF Vouched
        <5> QED  BY <4>1, <5>1, <5>2 DEF Stood
      <4> QED  BY <2>2, <4>1, <4>3, <4>4 DEF Mapped
    <3>3. o.ok \in BOOLEAN
      BY <2>1, DeliverOutcome
    <3> QED  BY <2>1, <3>1, <3>2, <3>3
  <2> QED  BY <2>3, <2>5 DEF StandInv, ResolvedStand
<1> QED  BY <1>2, <1>3, RetryFacts

LEMMA InitStand ==
    ASSUME Init PROVE StandInv
<1>1. PICK b \in {{}} \union {{s} : s \in UNION {Text(c) : c \in Channel}} :
           /\ disk = Migrated(b)
           /\ posts = {[ref |-> Ref(s, 1, 0), emo |-> Shown(disk, s)] : s \in Source \ b}
           /\ receipts = {[ref |-> Ref(s, 1, 0), st |-> "rejected", emo |-> Shown(disk, s)] : s \in b}
  BY DEF Init
<1>2. b \in SUBSET Source
  BY <1>1 DEF Source
<1>3. mem = disk /\ resolved = {}
  BY DEF Init
<1>4. \A q \in receipts : q.st = "rejected"
  BY <1>1
<1>5. AckedStand /\ AckedKnown
  BY <1>4 DEF AckedStand, AckedKnown
<1>6. ResolvedStand
  BY <1>3 DEF ResolvedStand
<1>7. ASSUME NEW c \in Channel, c \in mem.counted \/ \E r \in mem.sent : r.src[1] = c
      PROVE  Window(c) # {}
  <2>1. /\ mem.map = [x \in Item |-> 1] /\ mem.sent = {Ref(s, 1, 0) : s \in Source \ b}
        /\ mem.counted = {s[1] : s \in Source \ b} \intersect Channel
    BY <1>1, <1>2, <1>3, MigratedShape
  <2>2. PICK s \in Source \ b : s[1] = c
    BY <1>7, <2>1 DEF Ref
  <2>3. PICK p \in posts : p.ref = Ref(s, 1, 0)
    <3>1. [ref |-> Ref(s, 1, 0), emo |-> Shown(disk, s)] \in posts
      BY <1>1, <2>2
    <3> QED  BY <3>1
  <2>4. p.ref.src = s /\ p.ref.copy = 1
    BY <2>3 DEF Ref
  <2>5. mem.map[c] = 1
    BY <2>1 DEF Item
  <2> QED  BY <2>2, <2>4, <2>5 DEF Window
<1>8. CountedStand(mem) /\ CountedStand(disk)
  BY <1>3, <1>7 DEF CountedStand
<1> QED  BY <1>5, <1>6, <1>8 DEF StandInv

-----------------------------------------------------------------------------
(* AccountInv: no message of a channel is forgotten.                       *)

\* A failure stays recorded, unless its message stands or was deleted.
FailedKept(m, n) ==
    \A r \in m.failed : \/ r \in n.failed
                        \/ \E p \in posts' : Logical(p.ref) = Logical(r)
                        \/ Logical(r) \in removed'

LEMMA AccountSteady ==
    ASSUME Shapes, OneInv, NEW m, NEW n, NEW s \in Source, AccountedBy(m, s), Copy(s[1])' \in alive',
           mem'.map[s[1]] = mem.map[s[1]], PostsKept, removed \subseteq removed', FailedKept(m, n)
    PROVE  AccountedBy(n, s)'
<1>1. Copy(s[1])' = <<s[1], mem.map[s[1]]>>
  BY DEF Copy
<1>2. CASE \E p \in posts : Logical(p.ref) = <<s, mem.map[s[1]]>>
  <2>1. PICK p \in posts : Logical(p.ref) = <<s, mem.map[s[1]]>>
    BY <1>2
  <2>2. p.ref.src = s /\ p.ref.copy = mem.map[s[1]]
    BY <2>1 DEF Logical
  <2>3. (\E z \in posts' : z.ref = p.ref) \/ Logical(p.ref) \in removed'
    BY <1>1, <2>2 DEF PostsKept
  <2> QED  BY <2>1, <2>3 DEF AccountedBy, Gone
<1>3. CASE \E r \in m.failed : Logical(r) = <<s, mem.map[s[1]]>>
  BY <1>3 DEF FailedKept, AccountedBy, Gone
<1>4. CASE Gone(s)
  BY <1>4 DEF AccountedBy, Gone
<1> QED  BY <1>2, <1>3, <1>4 DEF AccountedBy

LEMMA ChannelsKept ==
    ASSUME Shapes, OneInv, NEW m, NEW n, ChannelsAccounted(m), mem'.map = mem.map, PostsKept, CopiesLater,
           removed \subseteq removed', FailedKept(m, n),
           \A c \in Channel : Copy(c) \in unfinished \union fresh => Copy(c) \in unfinished' \union fresh'
    PROVE  ChannelsAccounted(n)'
<1> SUFFICES ASSUME NEW c \in Channel, Copy(c)' \in alive', Copy(c)' \notin unfinished' \union fresh',
                    NEW s \in Text(c)
             PROVE  AccountedBy(n, s)'
  BY DEF ChannelsAccounted
<1>1. c \in Item /\ Copy(c)' = Copy(c) /\ Copy(c) = <<c, mem.map[c]>> /\ mem.map[c] \in Nat
  BY Basics DEF Copy, Item
<1>2. Copy(c) \in alive
  BY <1>1 DEF CopiesLater
<1>3. AccountedBy(m, s)
  BY <1>1, <1>2 DEF ChannelsAccounted
<1>4. s \in Source /\ s[1] = c
  BY Things
<1> QED  BY <1>1, <1>3, <1>4, AccountSteady

LEMMA AccountKept ==
    ASSUME Shapes, OneInv, AccountInv, mem'.map = mem.map, PostsKept, CopiesLater,
           removed \subseteq removed',
           FailedKept(mem, mem') \/ FailedKept(disk, mem'), FailedKept(mem, disk') \/ FailedKept(disk, disk'),
           \A c \in Channel : Copy(c) \in unfinished \union fresh => Copy(c) \in unfinished' \union fresh',
           ResentAccounted'
    PROVE  AccountInv'
<1>1. ChannelsAccounted(mem)'
  <2>1. PICK n : n = mem'
    OBVIOUS
  <2>2. PICK m : ChannelsAccounted(m) /\ FailedKept(m, n)
    BY <2>1 DEF AccountInv
  <2>3. ChannelsAccounted(n)'
    BY <2>2, ChannelsKept
  <2> QED  BY <2>1, <2>3 DEF ChannelsAccounted, AccountedBy
<1>2. ChannelsAccounted(disk)'
  <2>1. PICK n : n = disk'
    OBVIOUS
  <2>2. PICK m : ChannelsAccounted(m) /\ FailedKept(m, n)
    BY <2>1 DEF AccountInv
  <2>3. ChannelsAccounted(n)'
    BY <2>2, ChannelsKept
  <2> QED  BY <2>1, <2>3 DEF ChannelsAccounted, AccountedBy
<1> QED  BY <1>1, <1>2 DEF AccountInv

\* While a channel is resent, steps that neither send nor record leave its account as it is.
LEMMA ResentKept ==
    ASSUME AccountInv, Kind' = Kind, Thing' = Thing, Resending' => Resending /\ step # "dress",
           step' # "dress",
           Resending' => \A s \in todo : step \in {"replace", "send"} => s \in todo' /\ step' \in {"replace", "send"},
           UNCHANGED <<posts, removed, deaths>>, mem'.map = mem.map, mem'.sent = mem.sent, mem'.failed = mem.failed
    PROVE  ResentAccounted'
<1> SUFFICES ASSUME Resending'
             PROVE  /\ \A s \in Text(Thing) : (step' \in {"replace", "send"} /\ s \in todo') \/ AccountedBy(mem, s)'
                    /\ \A r \in mem'.sent : r.src[1] = Thing => Stood(r)'
  BY DEF ResentAccounted
<1>1. /\ \A s \in Text(Thing) : (step \in {"replace", "send"} /\ s \in todo) \/ AccountedBy(mem, s)
      /\ \A r \in mem.sent : r.src[1] = Thing => Stood(r)
  BY DEF AccountInv, ResentAccounted
<1>2. \A s : AccountedBy(mem, s) => AccountedBy(mem, s)'
  BY DEF AccountedBy, Gone
<1>3. \A r : Stood(r) => Stood(r)'
  BY DEF Stood, Live, Vouched
<1> QED  BY <1>1, <1>2, <1>3

LEMMA QuietAccount ==
    ASSUME Shapes, OneInv, ListsInv, AccountInv,
           Check \/ Classify \/ Prepare \/ TakeJob \/ TakeFailures \/ Decline \/ Make \/ Dress \/ Patch \/ Clear
             \/ AllSent \/ (\E s \in Source : Edit(s))
    PROVE  AccountInv'
<1>1. /\ PostsKept /\ CopiesLater /\ UNCHANGED <<disk, removed, deaths>>
      /\ mem'.map = mem.map /\ mem'.failed = mem.failed
  BY QuietWorld
<1>2. FailedKept(mem, mem') /\ FailedKept(disk, disk')
  BY <1>1 DEF FailedKept
<1>3. \A c \in Channel : Copy(c) \in unfinished \union fresh => Copy(c) \in unfinished' \union fresh'
  <2>1. unfinished' = unfinished
    BY DEF Check, Classify, Prepare, TakeJob, TakeFailures, Decline, Make, Dress, Patch, Clear, AllSent, Edit, history
  <2>2. CASE Dress
    <3>1. /\ step = "dress" /\ Kind \in {"role", "channel", "index"}
          /\ fresh' = fresh \/ (Kind = "role" /\ fresh' = {})
      BY <2>2, AtWork, StepKinds DEF Dress, Working
    <3>2. Kind = "role" => \A c \in Channel : Copy(c) \notin fresh
      BY <3>1, RepairAssumption DEF ListsInv, Attaching, Copy
    <3> QED  BY <2>1, <3>1, <3>2
  <2>3. CASE ~Dress
    <3>1. fresh' = fresh
      BY <2>3 DEF Check, Classify, Prepare, TakeJob, TakeFailures, Decline, Make, Patch, Clear, AllSent, Edit
    <3> QED  BY <2>1, <3>1
  <2> QED  BY <2>2, <2>3
<1>4. ResentAccounted'
  <2>1. CASE Dress
    <3>1. /\ step = "dress" /\ Kind' = Kind /\ Thing' = Thing /\ Working /\ UNCHANGED <<mem, posts>>
          /\ Kind = "channel" => step' = "replace" /\ todo' = Text(Thing) /\ Working'
      BY <2>1, StepKinds DEF Dress, Working, Kind, Thing, files
    <3>2. Resending' => Resending
      BY <3>1 DEF Resending
    <3>3. \A r : Stood(r) => Stood(r)'
      BY <1>1, <3>1 DEF Stood, Live, Vouched
    <3>4. Resending' => \A r \in mem'.sent : r.src[1] = Thing' => Stood(r)'
      BY <3>1, <3>2, <3>3 DEF AccountInv, ResentAccounted
    <3>5. Resending' => step' = "replace" /\ todo' = Text(Thing')
      BY <3>1 DEF Resending
    <3> QED  BY <3>4, <3>5 DEF ResentAccounted
  <2>2. CASE Patch
    <3>1. /\ step = "patch" /\ Kind' = Kind /\ Thing' = Thing /\ Working /\ UNCHANGED <<mem, posts>> /\ step' \in {"clear", "close"}
      BY <2>2, StepKinds DEF Patch, Working, Kind, Thing, files
    <3>2. Resending' => Resending
      BY <3>1 DEF Resending
    <3> QED  BY <1>1, <3>1, <3>2, ResentKept
  <2>3. CASE AllSent
    <3>1. /\ step = "replace" /\ todo = {} /\ Kind' = Kind /\ Thing' = Thing /\ Working /\ posts' = posts /\ step' \in {"patch", "close"}
          /\ mem'.map = mem.map /\ mem'.sent = mem.sent /\ mem'.failed = mem.failed
      BY <2>3, AllSentFacts DEF AllSent, server
    <3>2. Resending' => Resending
      BY <3>1 DEF Resending
    <3> QED  BY <1>1, <3>1, <3>2, ResentKept
  <2>4. CASE Check \/ Classify \/ Prepare \/ TakeJob \/ TakeFailures \/ Decline \/ Make \/ Clear \/ (\E s \in Source : Edit(s))
    <3>1. ~Resending'
      <4>1. CASE Check \/ Classify \/ Prepare \/ TakeFailures \/ Make
        BY <4>1 DEF Check, Classify, Prepare, TakeFailures, Make, Resending
      <4>2. CASE TakeJob
        <5>1. PICK j \in jobs : job' = j /\ step' = First[j[1]]
          BY <4>2 DEF TakeJob
        <5>2. j \in Jobs /\ Kind' = j[1]
          BY <5>1 DEF Shapes, RunShapes, Kind
        <5> QED  BY <5>1, <5>2, FirstSteps DEF Resending
      <4>3. CASE Decline
        BY <4>3 DEF Decline, Undone, Kind, Resending
      <4>4. CASE Clear
        BY <4>4, ClearFacts DEF Resending
      <4>5. CASE \E s \in Source : Edit(s)
        BY <4>5, EditFacts DEF Resending
      <4> QED  BY <2>4, <4>1, <4>2, <4>3, <4>4, <4>5
    <3> QED  BY <3>1 DEF ResentAccounted
  <2> QED  BY <2>1, <2>2, <2>3, <2>4
<1> QED  BY <1>1, <1>2, <1>3, <1>4, AccountKept

LEMMA InitAccount ==
    ASSUME Init PROVE AccountInv
<1>1. PICK b \in {{}} \union {{s} : s \in UNION {Text(c) : c \in Channel}} :
           /\ disk = Migrated(b)
           /\ posts = {[ref |-> Ref(s, 1, 0), emo |-> Shown(disk, s)] : s \in Source \ b}
  BY DEF Init
<1>2. b \in SUBSET Source
  BY <1>1 DEF Source
<1>3. mem = disk /\ step = "idle"
  BY DEF Init
<1>4. mem.map = [x \in Item |-> 1] /\ mem.failed = {Ref(s, 1, 0) : s \in b}
  BY <1>1, <1>2, <1>3, MigratedShape
<1>5. ASSUME NEW c \in Channel, NEW s \in Text(c) PROVE AccountedBy(mem, s)
  <2>1. s \in Source /\ s[1] \in Item /\ mem.map[s[1]] = 1
    BY <1>4, Things
  <2>2. Logical(Ref(s, 1, 0)) = <<s, mem.map[s[1]]>>
    BY <2>1, RefShape
  <2>3. CASE s \in b
    BY <1>4, <2>2, <2>3 DEF AccountedBy
  <2>4. CASE s \notin b
    <3>1. [ref |-> Ref(s, 1, 0), emo |-> Shown(disk, s)] \in posts
      BY <1>1, <2>1, <2>4
    <3>2. \E p \in posts : Logical(p.ref) = <<s, mem.map[s[1]]>>
      BY <2>2, <3>1
    <3> QED  BY <3>2 DEF AccountedBy
  <2> QED  BY <2>3, <2>4
<1>6. ChannelsAccounted(mem) /\ ChannelsAccounted(disk)
  BY <1>3, <1>5 DEF ChannelsAccounted
<1> QED  BY <1>3, <1>6 DEF AccountInv, ResentAccounted, Resending

LEMMA HaltAccount ==
    ASSUME Shapes, OneInv, AccountInv, Halt PROVE AccountInv'
<1>1. /\ PostsKept /\ CopiesLater /\ mem'.map = mem.map /\ removed' = removed
      /\ unfinished' = unfinished \union fresh /\ step' = "idle"
  BY HaltWorld, HaltFacts
<1>2. PICK Q, S : /\ CutOff(Q, S) /\ posts' = Q
                  /\ \/ /\ mem' = Saved(mem) /\ disk' = Saved(mem)
                        /\ receipts' = {q \in S : q.ref \notin mem.done}
                     \/ mem' = disk /\ disk' = disk /\ receipts' = S
  BY HaltFacts
<1>3. (FailedKept(mem, mem') \/ FailedKept(disk, mem')) /\ (FailedKept(mem, disk') \/ FailedKept(disk, disk'))
  BY <1>2, Basics, SavedFields DEF FailedKept
<1> QED  BY <1>1, <1>3, AccountKept DEF ResentAccounted, Resending

LEMMA PeopleAccount ==
    ASSUME Shapes, OneInv, AccountInv, People PROVE AccountInv'
<1>1. step' = "idle" /\ UNCHANGED <<mem, disk, unfinished, fresh>>
  BY PeopleFacts DEF work, files
<1>2. PostsKept /\ CopiesLater /\ removed \subseteq removed'
  BY PeopleWorld
<1> QED  BY <1>1, <1>2, AccountKept DEF ResentAccounted, Resending, FailedKept

LEMMA SavingAccount ==
    ASSUME Shapes, OneInv, StandInv, ListsInv, AccountInv, Replace \/ Close \/ EndEdits \/ EndRetry PROVE AccountInv'
<1>1. /\ UNCHANGED <<posts, alive, removed, deaths, resolved, unfinished>> /\ PostsKept /\ CopiesLater
      /\ mem'.map = mem.map /\ mem'.sent = mem.sent
      /\ disk' = disk \/ disk' = mem'
  BY SavingWorld
<1>2. FailedKept(mem, mem')
  <2>1. CASE EndRetry
    <3> SUFFICES ASSUME NEW r \in mem.failed, Logical(r) \in resolved
                 PROVE  (\E p \in posts' : Logical(p.ref) = Logical(r)) \/ Logical(r) \in removed'
      BY <2>1, EndRetryFacts DEF FailedKept
    <3>1. PICK q \in mem.sent : Logical(q) = Logical(r) /\ Mapped(q, mem) /\ Stood(q)
      BY DEF StandInv, ResolvedStand
    <3>2. CASE Live(q) # {}
      BY <1>1, <3>1, <3>2 DEF Live
    <3>3. CASE Vouched(q.src)
      BY <1>1, <3>1, <3>3 DEF Vouched, Mapped, Logical
    <3> QED  BY <3>1, <3>2, <3>3 DEF Stood
  <2>2. CASE Replace \/ Close \/ EndEdits
    <3>1. mem'.failed = mem.failed
      BY <2>2, ReplaceFacts, CloseFacts, EndEditsFacts
    <3> QED  BY <3>1 DEF FailedKept
  <2> QED  BY <2>1, <2>2
<1>3. FailedKept(disk, disk') \/ FailedKept(mem, disk')
  <2>1. CASE disk' = disk
    BY <2>1 DEF FailedKept
  <2>2. CASE disk' = mem'
    BY <1>2, <2>2 DEF FailedKept
  <2> QED  BY <1>1, <2>1, <2>2
<1>4. CASE Replace \/ EndEdits \/ EndRetry
  <2>1. fresh' = fresh
    BY <1>4 DEF Replace, EndEdits, EndRetry
  <2>2. ResentAccounted'
    <3>1. CASE Replace
      <4>1. /\ step = "replace" /\ step' = "send" /\ Kind' = Kind /\ Thing' = Thing /\ Working /\ todo' = todo
        BY <3>1, ReplaceFacts
      <4>2. mem'.failed = mem.failed
        BY <3>1, ReplaceFacts
      <4>3. Resending' => Resending
        BY <4>1 DEF Resending
      <4> QED  BY <1>1, <4>1, <4>2, <4>3, ResentKept
    <3>2. CASE EndEdits \/ EndRetry
      BY <3>2, EndEditsFacts, EndRetryFacts DEF ResentAccounted, Resending
    <3> QED  BY <1>4, <3>1, <3>2
  <2> QED  BY <1>1, <1>2, <1>3, <2>1, <2>2, AccountKept
<1>5. CASE Close
  <2>1. /\ step = "close" /\ step' = "next" /\ Working /\ mem'.failed = mem.failed
        /\ disk' = mem' \/ (disk' = disk /\ Kind = "tail")
    BY <1>5, CloseFacts
  <2>2. ASSUME NEW c \in Channel, Copy(c) \in alive, Copy(c) \notin unfinished, NEW s \in Text(c)
        PROVE  AccountedBy(mem, s)
    <3>1. CASE Copy(c) \in fresh
      <4>1. Attaching /\ Copy(c) = Copy(Thing)
        BY <3>1, RepairAssumption DEF ListsInv, Copy
      <4>2. c = Thing
        BY <4>1 DEF Copy
      <4>3. Kind = "channel"
        BY <4>1, <4>2, AtWork, RepairAssumption DEF Attaching
      <4> QED  BY <2>1, <2>2, <4>2, <4>3 DEF AccountInv, ResentAccounted, Resending
    <3>2. CASE Copy(c) \notin fresh
      BY <2>2, <3>2 DEF AccountInv, ChannelsAccounted
    <3> QED  BY <3>1, <3>2
  <2>3. \A s : AccountedBy(mem, s) => AccountedBy(mem, s)'
    BY <1>1, <2>1 DEF AccountedBy, Gone
  <2>4. ChannelsAccounted(mem)'
    <3>1. \A c \in Channel : Copy(c)' = Copy(c)
      BY <1>1 DEF Copy
    <3> QED  BY <1>1, <2>2, <2>3, <3>1 DEF ChannelsAccounted
  <2>5. ChannelsAccounted(disk)'
    <3>1. CASE disk' = mem'
      BY <2>4, <3>1 DEF ChannelsAccounted, AccountedBy
    <3>2. CASE disk' = disk /\ Kind = "tail"
      <4>1. ASSUME NEW c \in Channel, Copy(c) \in fresh PROVE FALSE
        <5>1. Attaching /\ Copy(c) = Copy(Thing)
          BY <4>1, RepairAssumption DEF ListsInv, Copy
        <5>2. c = Thing
          BY <5>1 DEF Copy
        <5> QED  BY <3>2, <5>1, <5>2, <4>1, AtWork, RepairAssumption DEF Attaching
      <4>2. \A c \in Channel : Copy(c)' = Copy(c)
        BY <1>1 DEF Copy
      <4>3. \A s : AccountedBy(disk, s) => AccountedBy(disk, s)'
        BY <1>1, <3>2 DEF AccountedBy, Gone
      <4> QED  BY <1>1, <4>1, <4>2, <4>3 DEF AccountInv, ChannelsAccounted
    <3> QED  BY <2>1, <3>1, <3>2
  <2> QED  BY <2>1, <2>4, <2>5 DEF AccountInv, ResentAccounted, Resending
<1> QED  BY <1>4, <1>5

LEMMA RecordAccount ==
    ASSUME Shapes, OneInv, AccountInv, Record PROVE AccountInv'
<1>1. /\ step = "made" /\ UNCHANGED <<alive, posts, unfinished, removed, deaths>> /\ disk' = mem' /\ Kind \in Creating /\ Working
      /\ Thing \in Item /\ made[Thing] \in Nat /\ mem' \in State /\ Kind' = Kind /\ Thing' = Thing
      /\ step' = IF Kind = "emoji" THEN "edit" ELSE "dress"
      /\ fresh' = IF Kind = "emoji" THEN fresh ELSE fresh \union {<<Thing, made[Thing]>>}
  BY RecordFacts DEF Record, server, history, bounds
<1>2. mem'.map = [mem.map EXCEPT ![Thing] = made[Thing]] /\ mem \in State
  BY RecordFacts, Basics
<1>3. mem'.map[Thing] = made[Thing] /\ \A x \in Item : x # Thing => mem'.map[x] = mem.map[x]
  BY <1>1, <1>2 DEF State
<1>4. PostsKept
  BY <1>1 DEF PostsKept
<1>5. ASSUME NEW c \in Channel, Copy(c)' \in alive', Copy(c)' \notin unfinished' \union fresh', NEW s \in Text(c)
      PROVE  AccountedBy(mem, s)'
  <2>1. c # Thing
    <3> SUFFICES ASSUME c = Thing PROVE FALSE
      OBVIOUS
    <3>1. Kind = "channel"
      BY <1>1, AtWork, RepairAssumption DEF Creating
    <3>2. Copy(c)' = <<Thing, made[Thing]>>
      BY <1>3 DEF Copy
    <3> QED  BY <1>1, <1>5, <3>1, <3>2
  <2>2. Copy(c)' = Copy(c) /\ mem'.map[c] = mem.map[c]
    BY <1>3, <2>1 DEF Item, Copy
  <2>3. s \in Source /\ s[1] = c
    BY Things
  <2>4. AccountedBy(mem, s)
    <3>1. Copy(c) \in alive /\ Copy(c) \notin unfinished \union fresh
      BY <1>1, <1>5, <2>2
    <3> QED  BY <3>1 DEF AccountInv, ChannelsAccounted
  <2>5. CASE \E p \in posts : Logical(p.ref) = <<s, mem.map[s[1]]>>
    BY <1>1, <2>2, <2>3, <2>5 DEF AccountedBy
  <2>6. CASE \E r \in mem.failed : Logical(r) = <<s, mem.map[s[1]]>>
    <3>1. PICK r \in mem.failed : Logical(r) = <<s, mem.map[s[1]]>>
      BY <2>6
    <3>2. r.src = s /\ r.src[1] # Thing
      BY <2>1, <2>3, <3>1 DEF Logical
    <3>3. r \in mem'.failed
      <4>1. CASE Kind = "channel"
        BY <3>1, <3>2, <4>1, RecordFacts
      <4>2. CASE Kind # "channel"
        BY <3>1, <4>2, RecordFacts
      <4> QED  BY <4>1, <4>2
    <3> QED  BY <2>2, <2>3, <3>1, <3>3 DEF AccountedBy
  <2>7. CASE Gone(s)
    BY <1>1, <2>2, <2>3, <2>7 DEF AccountedBy, Gone
  <2> QED  BY <2>4, <2>5, <2>6, <2>7 DEF AccountedBy
<1>6. ChannelsAccounted(mem)'
  BY <1>5 DEF ChannelsAccounted
<1>7. ChannelsAccounted(disk)'
  BY <1>1, <1>6 DEF ChannelsAccounted, AccountedBy
<1>8. ResentAccounted'
  <2> SUFFICES ASSUME Resending' PROVE step' = "dress" /\ \A r \in mem'.sent : r.src[1] # Thing
    BY <1>1 DEF ResentAccounted
  <2>1. Kind = "channel"
    BY <1>1 DEF Resending
  <2>2. mem'.sent = {r \in mem.sent : r.src[1] # Thing}
    BY <2>1, RecordFacts
  <2> QED  BY <1>1, <2>1, <2>2
<1> QED  BY <1>6, <1>7, <1>8 DEF AccountInv

LEMMA SendAccount ==
    ASSUME Shapes, OneInv, CopiesInv, RecordsInv, StandInv, AccountInv, Send PROVE AccountInv'
<1>1. PICK r \in Begun(Here) : \E o \in Sends \union Breaks \union Settled(r, Shown(mem, r.src)) :
           /\ Pending(r) /\ Deliver(r, o) /\ r \in Refs /\ r.src = Here /\ r.copy = mem.map[Thing]
           /\ unfinished' = IF o.ok \/ Thing \in Channel THEN unfinished ELSE unfinished \union {Copy(Thing)}
           /\ mem'.map = mem.map
           /\ o.ok => /\ mem'.failed = {q \in mem.failed : Logical(q) # Logical(r)}
                      /\ mem'.done = mem.done \union {r}
                      /\ mem'.sent = {q \in mem.sent : q.src # r.src} \union {r}
                      /\ mem'.counted = mem.counted \union ({r.src[1]} \intersect Channel)
           /\ ~o.ok => /\ mem'.failed = IF r.src[1] \in Channel THEN mem.failed \union {r} ELSE mem.failed
                       /\ mem'.done = mem.done /\ mem'.sent = mem.sent /\ mem'.counted = mem.counted
  BY SendFacts
<1>2. PICK o \in Sends \union Breaks \union Settled(r, Shown(mem, r.src)) :
           /\ Pending(r) /\ Deliver(r, o) /\ r \in Refs /\ r.src = Here /\ r.copy = mem.map[Thing]
           /\ unfinished' = IF o.ok \/ Thing \in Channel THEN unfinished ELSE unfinished \union {Copy(Thing)}
           /\ mem'.map = mem.map
           /\ o.ok => /\ mem'.failed = {q \in mem.failed : Logical(q) # Logical(r)}
                      /\ mem'.done = mem.done \union {r}
                      /\ mem'.sent = {q \in mem.sent : q.src # r.src} \union {r}
                      /\ mem'.counted = mem.counted \union ({r.src[1]} \intersect Channel)
           /\ ~o.ok => /\ mem'.failed = IF r.src[1] \in Channel THEN mem.failed \union {r} ELSE mem.failed
                       /\ mem'.done = mem.done /\ mem'.sent = mem.sent /\ mem'.counted = mem.counted
  BY <1>1
<1>3. UNCHANGED <<disk, alive, removed, deaths, fresh>>
  BY DEF Send
<1>4. /\ step = "send" /\ step' = "replace" /\ todo' = todo \ {Here} /\ Here \in Source /\ Here[1] = Thing
      /\ Kind' = Kind /\ Thing' = Thing /\ Working /\ Thing \in Channel \union Index
  BY SendFacts
<1>5. o.ok => Stood(r)' /\ (Live(r)' # {} \/ Logical(r) \in removed)
  BY <1>2, <1>3, AttemptStand
<1>6. posts \subseteq posts'
  BY <1>2, <1>3, AttemptStand
<1>7. o.ok \in BOOLEAN
  BY <1>2, DeliverOutcome
<1>8. PostsKept /\ CopiesLater
  BY <1>3, <1>6 DEF PostsKept, CopiesLater
<1>9. o.ok => (\E p \in posts' : Logical(p.ref) = Logical(r)) \/ Logical(r) \in removed'
  BY <1>3, <1>5 DEF Live
<1>10. FailedKept(mem, mem')
  <2>1. CASE o.ok
    BY <1>2, <1>9, <2>1 DEF FailedKept
  <2>2. CASE ~o.ok
    BY <1>2, <2>2 DEF FailedKept
  <2> QED  BY <2>1, <2>2
<1>11. FailedKept(disk, disk') /\ unfinished \subseteq unfinished'
  BY <1>2, <1>3 DEF FailedKept
<1>12. ResentAccounted'
  <2> SUFFICES ASSUME Resending'
               PROVE  /\ \A s \in Text(Thing) : s \in todo' \/ AccountedBy(mem, s)'
                      /\ \A q \in mem'.sent : q.src[1] = Thing => Stood(q)'
    BY <1>4 DEF ResentAccounted
  <2>1. Resending /\ Thing \in Channel /\ Thing \in Item
    BY <1>4, AtWork DEF Resending
  <2>2. Logical(r) = <<Here, mem.map[Here[1]]>>
    BY <1>2, <1>4 DEF Logical
  <2>3. ASSUME NEW s \in Text(Thing), s \notin todo' PROVE AccountedBy(mem, s)'
    <3>1. CASE s = Here
      <4>1. CASE o.ok
        BY <1>2, <1>9, <2>2, <3>1, <4>1 DEF AccountedBy, Gone
      <4>2. CASE ~o.ok
        <5>1. r \in mem'.failed
          BY <1>2, <1>4, <2>1, <4>2
        <5> QED  BY <1>2, <2>2, <3>1, <5>1 DEF AccountedBy
      <4> QED  BY <4>1, <4>2
    <3>2. CASE s # Here
      <4>1. AccountedBy(mem, s) /\ s \in Source /\ s[1] = Thing
        BY <1>4, <2>1, <2>3, <3>2, Things DEF AccountInv, ResentAccounted
      <4>2. Copy(s[1])' \in alive'
        <5>1. Copy(Thing) \in alive
          BY <1>4, <2>1 DEF CopiesInv, Resending, Sending
        <5> QED  BY <1>2, <1>3, <4>1, <5>1 DEF Copy
      <4>3. mem'.map[s[1]] = mem.map[s[1]] /\ removed \subseteq removed'
        BY <1>2, <1>3
      <4>4. PICK n : n = mem'
        OBVIOUS
      <4>5. PICK m : m = mem
        OBVIOUS
      <4>6. AccountedBy(m, s) /\ FailedKept(m, n)
        BY <1>10, <4>1, <4>4, <4>5 DEF FailedKept, AccountedBy
      <4>7. AccountedBy(n, s)'
        BY <1>8, <4>1, <4>2, <4>3, <4>6, AccountSteady
      <4> QED  BY <4>4, <4>7 DEF AccountedBy
    <3> QED  BY <3>1, <3>2
  <2>4. \A q : Stood(q) => Stood(q)'
    BY <1>2, <1>3, <1>6 DEF Stood, Live, Vouched
  <2>5. ASSUME NEW q \in mem'.sent, q.src[1] = Thing PROVE Stood(q)'
    <3>1. CASE o.ok /\ q = r
      BY <1>5, <3>1
    <3>2. CASE q \in mem.sent
      BY <2>1, <2>4, <2>5, <3>2 DEF AccountInv, ResentAccounted
    <3> QED  BY <1>2, <1>7, <3>1, <3>2
  <2> QED  BY <2>3, <2>5
<1>13. \A c \in Channel : Copy(c) \in unfinished \union fresh => Copy(c) \in unfinished' \union fresh'
  BY <1>3, <1>11
<1>14. mem'.map = mem.map /\ removed \subseteq removed'
  BY <1>2, <1>3
<1> QED  BY <1>8, <1>10, <1>11, <1>12, <1>13, <1>14, AccountKept

LEMMA RetryAccount ==
    ASSUME Shapes, OneInv, AccountInv, NEW r, RetryOne(r) PROVE AccountInv'
<1>1. UNCHANGED <<disk, alive, removed, unfinished, fresh>> /\ step' = "retry"
  BY DEF RetryOne, history
<1>2. mem'.map = mem.map /\ mem'.failed = mem.failed
  BY RetryFacts
<1>3. posts \subseteq posts'
  <2>1. CASE \E o \in Sends \union Breaks \union Settled(r, Shown(mem, r.src)) : Pending(r) /\ Deliver(r, o)
    BY <2>1, DeliverOutcome DEF Attempt
  <2>2. CASE posts' = posts
    BY <2>2
  <2> QED  BY <2>1, <2>2, RetryFacts
<1>4. PostsKept /\ CopiesLater /\ FailedKept(mem, mem') /\ FailedKept(disk, disk')
  BY <1>1, <1>2, <1>3 DEF PostsKept, CopiesLater, FailedKept
<1>5. ResentAccounted'
  BY <1>1 DEF ResentAccounted, Resending
<1> QED  BY <1>1, <1>2, <1>4, <1>5, AccountKept

-----------------------------------------------------------------------------
(* TailInv: no lost last message is forgotten.                             *)

\* What a channel's window and its expected last message come down to.
TailLost(c) ==
    /\ Copy(c) \in alive /\ c \in mem.marked
    /\ \E r \in mem.sent : r.src = Last(c)
    /\ \A r \in mem.sent : r.src = Last(c) => \A p \in posts : p.ref = r => r.copy # mem.map[c]
    /\ (\E p \in posts : p.ref.src[1] = c /\ p.ref.copy = mem.map[c]) \/ c \in Busy
AllRetried(c) ==
    /\ c \notin Busy
    /\ \A p \in posts : p.ref.src[1] = c /\ p.ref.copy = mem.map[c] => Logical(p.ref) \in Retried
LEMMA TailParts ==
    \A c \in Channel : (TailAbsent(c) <=> TailLost(c)) /\ (WasEmpty(c) <=> AllRetried(c))
<1> SUFFICES ASSUME NEW c \in Channel
             PROVE  (TailAbsent(c) <=> TailLost(c)) /\ (WasEmpty(c) <=> AllRetried(c))
  OBVIOUS
<1>1. Expected(c) = {r \in mem.sent : c \in mem.marked /\ r.src = Last(c)}
  BY DEF Expected
<1>2. \A r : r \in Window(c) <=> \E p \in posts : p.ref = r /\ p.ref.src[1] = c /\ p.ref.copy = mem.map[c]
  BY DEF Window
<1>3. Last(c)[1] = c
  BY DEF Last
<1>4. Expected(c) # {} <=> c \in mem.marked /\ \E r \in mem.sent : r.src = Last(c)
  BY <1>1
<1>5. Window(c) # {} <=> \E p \in posts : p.ref.src[1] = c /\ p.ref.copy = mem.map[c]
  BY <1>2
<1>6. c \in mem.marked => (Expected(c) \intersect Window(c) = {} <=>
          \A r \in mem.sent : r.src = Last(c) => \A p \in posts : p.ref = r => r.copy # mem.map[c])
  BY <1>1, <1>2, <1>3
<1>7. TailAbsent(c) <=> TailLost(c)
  BY <1>4, <1>5, <1>6 DEF TailAbsent, TailLost
<1>8. WasEmpty(c) <=> AllRetried(c)
  BY <1>2 DEF WasEmpty, AllRetried
<1> QED  BY <1>7, <1>8

LEMMA TailPartsNext ==
    \A c \in Channel : (TailAbsent(c)' <=> TailLost(c)') /\ (WasEmpty(c)' <=> AllRetried(c)')
<1>1. (\A c \in Channel : (TailAbsent(c) <=> TailLost(c)) /\ (WasEmpty(c) <=> AllRetried(c)))'
  BY TailParts, PTL
<1> QED  BY <1>1

\* A channel of which nothing changed that its tail depends on.
LEMMA TailSteady ==
    ASSUME TailInv, Classified, NEW c \in Channel, TailAbsent(c)',
           Copy(c)' \in alive' => Copy(c) \in alive, mem'.map[c] = mem.map[c],
           c \in mem'.marked => c \in mem.marked,
           \A r : r.src[1] = c => (r \in mem'.sent <=> r \in mem.sent) /\ (r \in mem.failed => r \in mem'.failed),
           \A p \in posts : p.ref.src[1] = c => \E z \in posts' : z.ref = p.ref,
           \A p \in posts' : p.ref.src[1] = c => \E z \in posts : z.ref = p.ref,
           resolved \subseteq resolved', removed \subseteq removed', UNCHANGED deaths,
           <<"tail", c>> \in jobs => <<"tail", c>> \in jobs',
           step \in {"replace", "send"} /\ job = <<"tail", c>> /\ todo # {} =>
               step' \in {"replace", "send"} /\ job' = job /\ todo' = todo
    PROVE  TailExplained(c)'
<1>1. Last(c)[1] = c
  BY DEF Last
<1>2. TailAbsent(c)
  <2>1. TailLost(c)'
    BY TailPartsNext
  <2>2. \A r \in mem.sent : r.src = Last(c) => \A p \in posts : p.ref = r => r.copy # mem.map[c]
    <3> SUFFICES ASSUME NEW p \in posts, p.ref \in mem.sent, p.ref.src = Last(c), p.ref.copy = mem.map[c] PROVE FALSE
      OBVIOUS
    <3>1. PICK z \in posts' : z.ref = p.ref
      BY <1>1
    <3>2. p.ref \in mem'.sent
      BY <1>1
    <3> QED  BY <2>1, <3>1, <3>2 DEF TailLost
  <2>3. (\E p \in posts : p.ref.src[1] = c /\ p.ref.copy = mem.map[c]) \/ c \in Busy
    BY <2>1 DEF TailLost
  <2>4. \E r \in mem.sent : r.src = Last(c)
    BY <1>1, <2>1 DEF TailLost
  <2> QED  BY <2>1, <2>2, <2>3, <2>4, TailParts DEF TailLost
<1>3. TailExplained(c)
  BY <1>2 DEF TailInv
<1>4. CASE WasEmpty(c)
  <2>1. ASSUME NEW p \in posts', p.ref.src[1] = c, p.ref.copy = mem'.map[c] PROVE Logical(p.ref) \in Retried'
    <3>1. PICK z \in posts : z.ref = p.ref
      BY <2>1
    <3>2. Logical(p.ref) \in Retried
      BY <1>4, <2>1, <3>1, TailParts DEF AllRetried
    <3>3. CASE \E r \in mem.failed : Logical(p.ref) = Logical(r)
      <4>1. PICK r \in mem.failed : Logical(p.ref) = Logical(r)
        BY <3>3
      <4>2. r.src[1] = c
        BY <2>1, <4>1 DEF Logical
      <4> QED  BY <4>1, <4>2 DEF Retried
    <3> QED  BY <3>2, <3>3 DEF Retried
  <2> QED  BY <1>4, <2>1, TailParts, TailPartsNext DEF TailExplained, AllRetried
<1>5. CASE \E r \in mem.failed : r.src = Last(c)
  BY <1>1, <1>5 DEF TailExplained
<1>6. CASE Vouched(Last(c))
  BY <1>1, <1>6 DEF TailExplained, Vouched
<1> QED  BY <1>3, <1>4, <1>5, <1>6 DEF TailExplained

\* The other two parts, for a step that begins no sending.
LEMMA MarksKept ==
    ASSUME TailInv,
           step' \in {"dress", "replace", "send"} /\ Kind' \in {"channel", "tail"} =>
               /\ step \in {"dress", "replace", "send"} /\ Working /\ Kind' = Kind /\ Thing' = Thing
               /\ mem'.marked = mem.marked
               /\ Kind = "tail" /\ step' # "dress" => step # "dress" /\ todo' \subseteq todo
    PROVE  /\ Working' /\ Kind' = "channel" /\ step' \in {"dress", "replace", "send"} => Thing' \notin mem'.marked
           /\ step' \in {"replace", "send"} /\ Kind' = "tail" => todo' \subseteq {Last(Thing')}
BY DEF TailInv

LEMMA QuietTail ==
    ASSUME Shapes, OneInv, RecordsInv, TailInv,
           Prepare \/ TakeFailures \/ Decline \/ Make \/ Dress \/ Patch \/ Clear \/ Replace \/ Close
             \/ (\E s \in Source : Edit(s)) \/ EndEdits
    PROVE  TailInv'
<1>1. /\ step' \in {"dress", "replace", "send"} /\ Kind' \in {"channel", "tail"} =>
               /\ step \in {"dress", "replace", "send"} /\ Working /\ Kind' = Kind /\ Thing' = Thing
               /\ mem'.marked = mem.marked
               /\ Kind = "tail" /\ step' # "dress" => step # "dress" /\ todo' \subseteq todo
      /\ step \in {"replace", "send"} => step' \in {"replace", "send"} /\ job' = job /\ todo' = todo
  <2>1. CASE Prepare \/ TakeFailures \/ Decline \/ Make \/ Patch
    BY <2>1 DEF Prepare, TakeFailures, Decline, Make, Patch
  <2>2. CASE Dress
    <3>1. step = "dress" /\ Working /\ Kind' = Kind /\ Thing' = Thing /\ mem' = mem /\ Kind \in {"role", "channel", "index"}
      BY <2>2, AtWork, StepKinds DEF Dress, Working, Kind, Thing, files
    <3> QED  BY <3>1
  <2>3. CASE Clear
    BY <2>3, ClearFacts DEF Clear
  <2>4. CASE Replace
    <3>1. /\ step = "replace" /\ step' = "send" /\ Working /\ Kind' = Kind /\ Thing' = Thing /\ job' = job /\ todo' = todo
          /\ mem'.marked = mem.marked
      BY <2>4, ReplaceFacts
    <3> QED  BY <3>1
  <2>5. CASE Close
    BY <2>5, CloseFacts
  <2>6. CASE \E s \in Source : Edit(s)
    BY <2>6, EditFacts
  <2>7. CASE EndEdits
    BY <2>7, EndEditsFacts
  <2> QED  BY <2>1, <2>2, <2>3, <2>4, <2>5, <2>6, <2>7
<1>2. /\ jobs' = jobs /\ UNCHANGED <<removed, deaths>> /\ Classified
  <2>1. step \notin {"idle", "classify"}
    BY AtWork, CloseFacts, EditFacts, EndEditsFacts DEF Prepare, TakeFailures, Decline, Make, Dress, Patch, Clear, Replace, Close, Edit, EndEdits
  <2> QED  BY <2>1 DEF Prepare, TakeFailures, Decline, Make, Dress, Patch, Clear, Replace, Close, Edit, EndEdits, history, bounds, Classified
<1>3. resolved \subseteq resolved'
  <2>1. CASE TakeFailures
    BY <2>1 DEF TakeFailures, RecordsInv
  <2> QED  BY <2>1 DEF Prepare, Decline, Make, Dress, Patch, Clear, Replace, Close, Edit, EndEdits
<1>4. /\ mem'.map = mem.map /\ mem'.marked = mem.marked /\ mem'.failed = mem.failed
      /\ \A r : r.src[1] \in Channel => (r \in mem'.sent <=> r \in mem.sent)
  <2>1. CASE Clear
    <3>1. /\ Thing \notin Channel /\ mem'.sent = {r \in mem.sent : r.src # <<Thing, 0>>}
          /\ mem'.map = mem.map /\ mem'.marked = mem.marked /\ mem'.failed = mem.failed
      BY <2>1, ClearFacts, RepairAssumption
    <3> QED  BY <3>1
  <2>2. CASE Replace \/ Close \/ EndEdits
    <3>1. mem'.map = mem.map /\ mem'.marked = mem.marked /\ mem'.failed = mem.failed /\ mem'.sent = mem.sent
      BY <2>2, ReplaceFacts, CloseFacts, EndEditsFacts
    <3> QED  BY <3>1
  <2>3. CASE Prepare \/ TakeFailures \/ Decline \/ Make \/ Dress \/ Patch \/ (\E s \in Source : Edit(s))
    <3>1. mem' = mem
      BY <2>3 DEF Prepare, TakeFailures, Decline, Make, Dress, Patch, Edit, files
    <3> QED  BY <3>1
  <2> QED  BY <2>1, <2>2, <2>3
<1>5. \A c \in Channel : Copy(c)' \in alive' => Copy(c) \in alive
  <2>1. CASE Make
    <3>1. Thing \in Item /\ MakeCopy(Thing)
      BY <2>1, AtWork, StepKinds DEF Make, Working, Creating
    <3>2. ASSUME NEW c \in Channel, Copy(c)' \in alive' PROVE Copy(c) \in alive
      <4>1. Copy(c) \in Born /\ <<Thing, made[Thing] + 1>> \notin Born
        BY <3>1, CopyBorn, BornGrows DEF Item
      <4> QED  BY <1>4, <3>1, <3>2, <4>1 DEF Copy, MakeCopy
    <3> QED  BY <3>2
  <2>2. CASE ~Make
    <3>1. alive' = alive
      BY <2>2 DEF Prepare, TakeFailures, Decline, Dress, Patch, Clear, Replace, Close, Edit, EndEdits, server
    <3> QED  BY <1>4, <3>1 DEF Copy
  <2> QED  BY <2>1, <2>2
<1>6. (\A p \in posts : \E z \in posts' : z.ref = p.ref) /\ (\A p \in posts' : \E z \in posts : z.ref = p.ref)
  <2>1. CASE \E s \in Source : Edit(s)
    <3>1. PICK s \in Source : Edit(s)
      BY <2>1
    <3> DEFINE old == {p \in posts : p.ref \in mem.sent /\ p.ref.src = s}
               new == {[p EXCEPT !.emo = mem.map[Thing]] : p \in old}
    <3>2. /\ posts' = posts \/ posts' = (posts \ old) \union new
          /\ \A q \in old : \E p \in new : p.ref = q.ref
          /\ \A p \in new : \E q \in old : p.ref = q.ref
      BY <3>1, EditFacts
    <3>3. old \subseteq posts
      OBVIOUS
    <3> HIDE DEF old, new
    <3> QED  BY <3>2, <3>3
  <2>2. CASE ~(\E s \in Source : Edit(s))
    <3>1. posts' = posts
      BY <2>2 DEF Prepare, TakeFailures, Decline, Make, Dress, Patch, Clear, Replace, Close, EndEdits, server
    <3> QED  BY <3>1
  <2> QED  BY <2>1, <2>2
<1>7. ASSUME NEW c \in Channel, TailAbsent(c)' PROVE TailExplained(c)'
  <2>1. mem'.map[c] = mem.map[c] /\ (c \in mem'.marked => c \in mem.marked) /\ (Copy(c)' \in alive' => Copy(c) \in alive)
    BY <1>4, <1>5
  <2>2. \A r : r.src[1] = c => (r \in mem'.sent <=> r \in mem.sent) /\ (r \in mem.failed => r \in mem'.failed)
    BY <1>4
  <2> QED  BY <1>1, <1>2, <1>3, <1>6, <1>7, <2>1, <2>2, TailSteady
<1>8. /\ Working' /\ Kind' = "channel" /\ step' \in {"dress", "replace", "send"} => Thing' \notin mem'.marked
      /\ step' \in {"replace", "send"} /\ Kind' = "tail" => todo' \subseteq {Last(Thing')}
  BY <1>1, MarksKept
<1> QED  BY <1>7, <1>8 DEF TailInv

LEMMA OutsideTail ==
    ASSUME Shapes, OneInv, TailInv, Check \/ Halt \/ People PROVE TailInv'
<1>1. step' \in {"idle", "classify"}
  BY HaltFacts, PeopleFacts DEF Check
<1> QED  BY <1>1 DEF TailInv, Classified

LEMMA InitTail ==
    ASSUME Init PROVE TailInv
BY DEF Init, TailInv, Classified

LEMMA ClassifyTail ==
    ASSUME Classify PROVE TailInv'
<1>1. jobs' = Found /\ UNCHANGED <<mem, alive, posts>> /\ step' = "prepare"
  BY DEF Classify, server
<1>2. ASSUME NEW c \in Channel, TailAbsent(c)' PROVE TailExplained(c)'
  <2>1. TailAbsent(c)
    <3>1. TailLost(c)'
      BY <1>2, TailPartsNext
    <3>2. TailLost(c)
      BY <1>1, <3>1 DEF TailLost, Copy
    <3> QED  BY <3>2, TailParts
  <2>2. <<"tail", c>> \in Found
    BY <2>1 DEF Found
  <2> QED  BY <1>1, <2>2 DEF TailExplained
<1> QED  BY <1>1, <1>2 DEF TailInv

LEMMA TakeJobTail ==
    ASSUME Shapes, TailInv, TakeJob PROVE TailInv'
<1>1. PICK j \in jobs : /\ job' = j /\ jobs' = jobs \ {j} /\ step' = First[j[1]]
                        /\ todo' = CASE j[1] = "resume" -> Referencing(j[2])
                                     [] j[1] = "tail" -> {Last(j[2])}
                                     [] OTHER -> {}
  BY DEF TakeJob
<1>2. /\ step = "next" /\ UNCHANGED <<mem, posts, alive, resolved, removed, deaths>> /\ j \in Jobs /\ j = <<j[1], j[2]>>
  BY <1>1, JobThing DEF TakeJob, server, files, history, bounds, Shapes, RunShapes
<1>3. Kind' = j[1] /\ Thing' = j[2] /\ Classified
  BY <1>1, <1>2 DEF Kind, Thing, Classified
<1>4. First["tail"] = "replace" /\ First["channel"] = "make"
  BY DEF First
<1>5. ASSUME NEW c \in Channel, TailAbsent(c)' PROVE TailExplained(c)'
  <2>1. CASE <<"tail", c>> \in jobs /\ <<"tail", c>> \notin jobs'
    <3>1. j = <<"tail", c>>
      BY <1>1, <2>1
    <3>2. j[1] = "tail" /\ j[2] = c
      BY <3>1
    <3> QED  BY <1>1, <1>4, <3>1, <3>2 DEF TailExplained
  <2>2. CASE ~(<<"tail", c>> \in jobs /\ <<"tail", c>> \notin jobs')
    BY <1>2, <1>3, <1>5, <2>2, TailSteady DEF Copy
  <2> QED  BY <2>1, <2>2
<1>6. /\ ~(Kind' = "channel" /\ step' \in {"dress", "replace", "send"})
      /\ step' \in {"replace", "send"} /\ Kind' = "tail" => todo' \subseteq {Last(Thing')}
  BY <1>1, <1>3, <1>4
<1> QED  BY <1>5, <1>6 DEF TailInv

LEMMA RecordTail ==
    ASSUME Shapes, OneInv, TailInv, Record PROVE TailInv'
<1>1. /\ step = "made" /\ UNCHANGED <<alive, posts, jobs, resolved, removed, deaths>> /\ Kind \in Creating /\ Working
      /\ Thing \in Item /\ made[Thing] \in Nat /\ mem' \in State /\ Kind' = Kind /\ Thing' = Thing
      /\ step' \in {"edit", "dress"}
  BY RecordFacts DEF Record, server, history, bounds
<1>2. mem'.map = [mem.map EXCEPT ![Thing] = made[Thing]] /\ mem \in State
  BY RecordFacts, Basics
<1>3. \A x \in Item : x # Thing => mem'.map[x] = mem.map[x]
  BY <1>2 DEF State
<1>4. Kind = "channel" <=> Thing \in Channel
  BY <1>1, AtWork, RepairAssumption DEF Creating
<1>5. ASSUME NEW c \in Channel, TailAbsent(c)' PROVE TailExplained(c)'
  <2>1. c # Thing
    <3>1. Kind = "channel" => Thing \notin mem'.marked
      BY RecordFacts
    <3>2. c \in mem'.marked
      BY <1>5, TailPartsNext DEF TailLost
    <3> QED  BY <1>4, <3>1, <3>2
  <2>2. mem'.map[c] = mem.map[c] /\ Copy(c)' = Copy(c)
    BY <1>3, <2>1 DEF Item, Copy
  <2>3. c \in mem'.marked => c \in mem.marked
    <3>1. CASE Kind = "channel"
      BY <3>1, RecordFacts
    <3>2. CASE Kind # "channel"
      BY <3>2, RecordFacts
    <3> QED  BY <3>1, <3>2
  <2>4. \A r : r.src[1] = c => (r \in mem'.sent <=> r \in mem.sent) /\ (r \in mem.failed => r \in mem'.failed)
    <3>1. CASE Kind = "channel"
      <4>1. /\ mem'.sent = {r \in mem.sent : r.src[1] # Thing}
            /\ mem'.failed = {IF r.src[1] = Thing /\ r.copy = mem.map[Thing] THEN Ref(r.src, made[Thing], 0) ELSE r : r \in mem.failed}
        BY <3>1, RecordFacts
      <4> QED  BY <2>1, <4>1
    <3>2. CASE Kind # "channel"
      <4>1. mem'.sent = mem.sent /\ mem'.failed = mem.failed
        BY <3>2, RecordFacts
      <4> QED  BY <4>1
    <3> QED  BY <3>1, <3>2
  <2>5. Classified
    BY <1>1 DEF Classified
  <2> QED  BY <1>1, <1>5, <2>2, <2>3, <2>4, <2>5, TailSteady
<1>6. /\ Kind' = "channel" => Thing' \notin mem'.marked
      /\ step' \notin {"replace", "send"}
  <2>1. Kind = "channel" => mem'.marked = mem.marked \ {Thing}
    BY RecordFacts
  <2> QED  BY <1>1, <2>1
<1> QED  BY <1>5, <1>6 DEF TailInv

LEMMA AllSentTail ==
    ASSUME Shapes, OneInv, RecordsInv, AccountInv, TailInv, AllSent PROVE TailInv'
<1>1. /\ step = "replace" /\ todo = {} /\ Working /\ Kind' = Kind /\ Thing' = Thing /\ job' = job
      /\ step' = (IF Kind = "channel" THEN "patch" ELSE "close")
      /\ mem'.map = mem.map /\ mem'.sent = mem.sent /\ mem'.failed = mem.failed
      /\ mem'.marked = IF Kind = "channel" THEN mem.marked \union {Thing} ELSE mem.marked
  BY AllSentFacts
<1>2. UNCHANGED <<posts, alive, jobs, removed, deaths, resolved>> /\ Classified
  BY <1>1 DEF AllSent, server, history, bounds, Classified
<1>3. ASSUME NEW c \in Channel, TailAbsent(c)' PROVE TailExplained(c)'
  <2>1. CASE c \in mem.marked
    <3>1. \A r : r.src[1] = c => (r \in mem'.sent <=> r \in mem.sent) /\ (r \in mem.failed => r \in mem'.failed)
      BY <1>1
    <3> QED  BY <1>1, <1>2, <1>3, <2>1, <3>1, TailSteady DEF Copy
  <2>2. CASE c \notin mem.marked
    <3>1. TailLost(c)'
      BY <1>3, TailPartsNext
    <3>2. Kind = "channel" /\ c = Thing
      BY <1>1, <2>2, <3>1 DEF TailLost
    <3>3. PICK r \in mem.sent : r.src = Last(c)
      BY <1>1, <3>1 DEF TailLost
    <3>4. r.src[1] = c /\ r.copy = mem.map[c]
      BY <3>3 DEF Last, RecordsInv, Sound, Mapped
    <3>5. Stood(r)
      BY <1>1, <3>2, <3>3, <3>4 DEF AccountInv, ResentAccounted, Resending
    <3>6. Live(r) = {}
      BY <1>1, <1>2, <3>1, <3>3, <3>4 DEF TailLost, Live
    <3>7. Vouched(Last(c))'
      BY <1>1, <1>2, <3>3, <3>5, <3>6 DEF Stood, Vouched
    <3> QED  BY <3>7 DEF TailExplained
  <2> QED  BY <2>1, <2>2
<1> QED  BY <1>1, <1>3 DEF TailInv

LEMMA SendTail ==
    ASSUME Shapes, OneInv, CopiesInv, RecordsInv, StandInv, TailInv, Send PROVE TailInv'
<1>1. PICK r \in Begun(Here) : \E o \in Sends \union Breaks \union Settled(r, Shown(mem, r.src)) :
           /\ Pending(r) /\ Deliver(r, o) /\ r \in Refs /\ r.src = Here /\ r.copy = mem.map[Thing]
           /\ mem'.map = mem.map /\ mem'.marked = mem.marked
           /\ o.ok => /\ mem'.failed = {q \in mem.failed : Logical(q) # Logical(r)}
                      /\ mem'.done = mem.done \union {r}
                      /\ mem'.sent = {q \in mem.sent : q.src # r.src} \union {r}
                      /\ mem'.counted = mem.counted \union ({r.src[1]} \intersect Channel)
           /\ ~o.ok => /\ mem'.failed = IF r.src[1] \in Channel THEN mem.failed \union {r} ELSE mem.failed
                       /\ mem'.done = mem.done /\ mem'.sent = mem.sent /\ mem'.counted = mem.counted
  BY SendFacts
<1>2. PICK o \in Sends \union Breaks \union Settled(r, Shown(mem, r.src)) :
           /\ Pending(r) /\ Deliver(r, o) /\ r \in Refs /\ r.src = Here /\ r.copy = mem.map[Thing]
           /\ mem'.map = mem.map /\ mem'.marked = mem.marked
           /\ o.ok => /\ mem'.failed = {q \in mem.failed : Logical(q) # Logical(r)}
                      /\ mem'.done = mem.done \union {r}
                      /\ mem'.sent = {q \in mem.sent : q.src # r.src} \union {r}
                      /\ mem'.counted = mem.counted \union ({r.src[1]} \intersect Channel)
           /\ ~o.ok => /\ mem'.failed = IF r.src[1] \in Channel THEN mem.failed \union {r} ELSE mem.failed
                       /\ mem'.done = mem.done /\ mem'.sent = mem.sent /\ mem'.counted = mem.counted
  BY <1>1
<1>3. UNCHANGED <<disk, alive, removed, deaths, jobs, resolved>> /\ Classified
  BY DEF Send, Classified
<1>4. /\ step = "send" /\ step' = "replace" /\ todo' = todo \ {Here} /\ Here \in todo /\ Here \in Source /\ Here[1] = Thing
      /\ Kind' = Kind /\ Thing' = Thing /\ Working /\ Thing \in Channel \union Index /\ job' = job
  BY SendFacts
<1>5. o.ok \in BOOLEAN
  BY <1>2, DeliverOutcome
<1>6. o.ok => Stood(r)'
  BY <1>2, <1>3, AttemptStand
<1>7. /\ posts \subseteq posts' /\ \A p \in posts' \ posts : p.ref = r
  BY <1>2, DeliverOutcome DEF Attempt
<1>8. ASSUME NEW c \in Channel, c # Thing, TailAbsent(c)' PROVE TailExplained(c)'
  <2>1. r.src[1] = Thing
    BY <1>2, <1>4
  <2>2. \A q : q.src[1] = c => (q \in mem'.sent <=> q \in mem.sent) /\ (q \in mem.failed => q \in mem'.failed)
    <3>1. CASE o.ok
      BY <1>2, <1>8, <2>1, <3>1 DEF Logical
    <3>2. CASE ~o.ok
      BY <1>2, <3>2
    <3> QED  BY <3>1, <3>2
  <2>3. \A p \in posts' : p.ref.src[1] = c => p \in posts
    BY <1>7, <1>8, <2>1
  <2>4. job # <<"tail", c>>
    BY <1>8 DEF Thing
  <2>5. /\ Copy(c)' \in alive' => Copy(c) \in alive
        /\ mem'.map[c] = mem.map[c] /\ (c \in mem'.marked => c \in mem.marked)
        /\ \A p \in posts : p.ref.src[1] = c => \E z \in posts' : z.ref = p.ref
        /\ \A p \in posts' : p.ref.src[1] = c => \E z \in posts : z.ref = p.ref
    BY <1>2, <1>3, <1>7, <2>3 DEF Copy
  <2> QED  BY <1>2, <1>3, <1>8, <2>2, <2>4, <2>5, TailSteady
<1>9. ASSUME NEW c \in Channel, c = Thing, TailAbsent(c)' PROVE TailExplained(c)'
  <2>1. TailLost(c)'
    BY <1>9, TailPartsNext
  <2>2. Kind # "channel"
    BY <1>2, <1>4, <1>9, <2>1 DEF TailLost, TailInv
  <2>3. Kind = "tail"
    BY <1>4, <1>9, <2>2, AtWork, StepKinds, RepairAssumption DEF Sending
  <2>4. Here = Last(c)
    BY <1>4, <1>9, <2>3 DEF TailInv
  <2>5. CASE o.ok
    <3>1. r \in mem'.sent /\ r.src = Last(c) /\ r.copy = mem'.map[c]
      BY <1>2, <1>9, <2>4, <2>5
    <3>2. Live(r)' = {}
      BY <2>1, <3>1 DEF TailLost, Live
    <3>3. Vouched(r.src)'
      BY <1>6, <2>5, <3>2 DEF Stood
    <3>4. Vouched(Last(c))'
      BY <3>1, <3>3 DEF Vouched
    <3> QED  BY <3>4 DEF TailExplained
  <2>6. CASE ~o.ok
    <3>1. r \in mem'.failed /\ r.src = Last(c)
      BY <1>2, <1>4, <1>9, <2>4, <2>6
    <3> QED  BY <3>1 DEF TailExplained
  <2> QED  BY <1>5, <2>5, <2>6
<1>10. /\ Working' /\ Kind' = "channel" /\ step' \in {"dress", "replace", "send"} => Thing' \notin mem'.marked
       /\ step' \in {"replace", "send"} /\ Kind' = "tail" => todo' \subseteq {Last(Thing')}
  <2>1. mem'.marked = mem.marked
    BY <1>2
  <2> QED  BY <1>4, <2>1, MarksKept
<1> QED  BY <1>8, <1>9, <1>10 DEF TailInv

LEMMA RetryTail ==
    ASSUME Shapes, OneInv, CopiesInv, RecordsInv, StandInv, TailInv, NEW r, RetryOne(r) PROVE TailInv'
<1>1. UNCHANGED <<disk, alive, removed, deaths, jobs>> /\ step = "retry" /\ step' = "retry" /\ Classified
  BY DEF RetryOne, history, Classified
<1>2. /\ mem'.map = mem.map /\ mem'.failed = mem.failed /\ mem'.marked = mem.marked /\ r \in todo /\ r \in Refs
      /\ jobs = {} /\ r \in mem.failed
  BY <1>1, RetryFacts DEF Shapes, RunShapes, RecordsInv
<1>3. \A c \in Channel : Copy(c)' = Copy(c)
  BY <1>2 DEF Copy
<1>4. CASE UNCHANGED <<posts, receipts, mem, resolved, faults>>
  <2>1. ASSUME NEW c \in Channel, TailAbsent(c)' PROVE TailExplained(c)'
    BY <1>1, <1>3, <1>4, <2>1, TailSteady
  <2> QED  BY <1>1, <2>1 DEF TailInv
<1>5. CASE \E o \in Sends \union Breaks \union Settled(r, Shown(mem, r.src)) :
                   /\ Pending(r) /\ Deliver(r, o)
                   /\ mem' = IF o.ok THEN Delivered(mem, r) ELSE mem
                   /\ resolved' = IF o.ok THEN resolved \union {Logical(r)} ELSE resolved
                   /\ o.ok => /\ mem'.done = mem.done \union {r}
                              /\ mem'.sent = {q \in mem.sent : q.src # r.src} \union {r}
                              /\ mem'.counted = mem.counted \union ({r.src[1]} \intersect Channel)
  <2>1. PICK o \in Sends \union Breaks \union Settled(r, Shown(mem, r.src)) :
                   /\ Pending(r) /\ Deliver(r, o)
                   /\ mem' = IF o.ok THEN Delivered(mem, r) ELSE mem
                   /\ resolved' = IF o.ok THEN resolved \union {Logical(r)} ELSE resolved
                   /\ o.ok => /\ mem'.done = mem.done \union {r}
                              /\ mem'.sent = {q \in mem.sent : q.src # r.src} \union {r}
                              /\ mem'.counted = mem.counted \union ({r.src[1]} \intersect Channel)
    BY <1>5
  <2>2. ~o.ok => mem' = mem
    BY <2>1
  <2>3. o.ok => Stood(r)'
    BY <1>1, <1>2, <2>1, <2>2, AttemptStand
  <2>4. /\ posts \subseteq posts' /\ \A p \in posts' \ posts : p.ref = r
    BY <2>1, DeliverOutcome DEF Attempt
  <2>5. o.ok \in BOOLEAN
    BY <2>1, DeliverOutcome
  <2>6. r.copy = mem.map[r.src[1]] /\ resolved \subseteq resolved' /\ Logical(r) \in Retried'
    <3>1. Mapped(r, mem)
      BY <2>1, MayAttempt DEF Attempted
    <3>2. resolved \subseteq resolved'
      BY <2>1, <2>5
    <3>3. Logical(r) \in Retried'
      BY <1>2 DEF Retried
    <3> QED  BY <3>1, <3>2, <3>3 DEF Mapped
  <2>7. Retried \subseteq Retried'
    BY <1>2, <2>6 DEF Retried
  <2>8. ASSUME NEW c \in Channel, TailAbsent(c)', o.ok /\ r.src = Last(c) PROVE TailExplained(c)'
    <3>1. TailLost(c)' /\ Last(c)[1] = c
      BY <2>8, TailPartsNext DEF Last
    <3>2. r \in mem'.sent /\ r.copy = mem'.map[c]
      BY <1>2, <2>1, <2>6, <2>8, <3>1
    <3>3. Live(r)' = {}
      BY <2>8, <3>1, <3>2 DEF TailLost, Live
    <3>4. Vouched(r.src)'
      BY <2>3, <2>8, <3>3 DEF Stood
    <3>5. Vouched(Last(c))'
      BY <2>8, <3>4 DEF Vouched
    <3> QED  BY <3>5 DEF TailExplained
  <2>9. ASSUME NEW c \in Channel, TailAbsent(c)', ~(o.ok /\ r.src = Last(c)) PROVE TailExplained(c)'
    <3>1. TailLost(c)' /\ Last(c)[1] = c
      BY <2>9, TailPartsNext DEF Last
    <3>2. \A q : q.src = Last(c) => (q \in mem'.sent <=> q \in mem.sent)
      <4>1. CASE o.ok
        BY <2>1, <2>9, <4>1
      <4>2. CASE ~o.ok
        BY <2>2, <4>2
      <4> QED  BY <2>5, <4>1, <4>2
    <3>3. CASE WasEmpty(c)
      <4>1. AllRetried(c)
        BY <3>3, TailParts
      <4>2. ASSUME NEW p \in posts', p.ref.src[1] = c, p.ref.copy = mem'.map[c] PROVE Logical(p.ref) \in Retried'
        <5>1. CASE p \in posts
          BY <1>2, <2>7, <4>1, <4>2, <5>1 DEF AllRetried
        <5>2. CASE p \notin posts
          BY <2>4, <2>6, <5>2
        <5> QED  BY <5>1, <5>2
      <4>3. AllRetried(c)'
        BY <4>1, <4>2 DEF AllRetried
      <4> QED  BY <4>3, TailPartsNext DEF TailExplained
    <3>4. CASE TailAbsent(c) /\ ~WasEmpty(c)
      <4>1. TailExplained(c)
        BY <1>1, <3>4 DEF TailInv
      <4>2. (\E q \in mem.failed : q.src = Last(c)) \/ Vouched(Last(c))
        BY <1>1, <1>2, <3>4, <4>1 DEF TailExplained
      <4>3. Vouched(Last(c)) => Vouched(Last(c))'
        BY <1>1, <1>2 DEF Vouched
      <4> QED  BY <1>2, <4>2, <4>3 DEF TailExplained
    <3>5. CASE ~TailAbsent(c) /\ ~WasEmpty(c)
      <4>1. Copy(c) \in alive /\ c \in mem.marked /\ \E q \in mem.sent : q.src = Last(c)
        BY <1>1, <1>2, <1>3, <3>1, <3>2 DEF TailLost
      <4>2. \A q \in mem.sent : q.src = Last(c) => \A p \in posts : p.ref = q => q.copy # mem.map[c]
        <5> SUFFICES ASSUME NEW p \in posts, p.ref \in mem.sent, p.ref.src = Last(c), p.ref.copy = mem.map[c] PROVE FALSE
          OBVIOUS
        <5>1. p \in posts' /\ p.ref \in mem'.sent
          BY <2>4, <3>2
        <5> QED  BY <1>2, <3>1, <5>1 DEF TailLost
      <4>3. ~TailLost(c)
        BY <3>5, TailParts
      <4>4. c \notin Busy /\ \A p \in posts : ~(p.ref.src[1] = c /\ p.ref.copy = mem.map[c])
        BY <4>1, <4>2, <4>3 DEF TailLost
      <4> QED  BY <3>5, <4>4, TailParts DEF AllRetried
    <3> QED  BY <3>3, <3>4, <3>5
  <2> QED  BY <1>1, <2>8, <2>9 DEF TailInv
<1> QED  BY <1>4, <1>5, RetryFacts

LEMMA EndRetryTail ==
    ASSUME Shapes, OneInv, StandInv, TailInv, EndRetry PROVE TailInv'
<1>1. /\ UNCHANGED <<posts, alive, removed, deaths, resolved, jobs>> /\ step = "retry" /\ step' = "finish" /\ Classified
  BY EndRetryFacts DEF EndRetry, server, history, bounds, Classified
<1>2. /\ mem'.map = mem.map /\ mem'.sent = mem.sent /\ mem'.marked = mem.marked
      /\ mem'.failed = {r \in mem.failed : Logical(r) \notin resolved} /\ jobs = {}
  BY <1>1, EndRetryFacts DEF Shapes, RunShapes
<1>3. ASSUME NEW c \in Channel, TailAbsent(c)' PROVE TailExplained(c)'
  <2>1. TailLost(c)'
    BY <1>3, TailPartsNext
  <2>2. TailLost(c)
    BY <1>1, <1>2, <2>1 DEF TailLost, Copy
  <2>3. TailExplained(c)
    BY <1>1, <2>2, TailParts DEF TailInv
  <2>4. CASE WasEmpty(c)
    <3>1. Retried' = Retried
      BY <1>1, <1>2 DEF Retried
    <3>2. AllRetried(c)'
      BY <1>1, <1>2, <2>4, <3>1, TailParts DEF AllRetried
    <3> QED  BY <3>2, TailPartsNext DEF TailExplained
  <2>5. CASE \E r \in mem.failed : r.src = Last(c)
    <3>1. PICK r \in mem.failed : r.src = Last(c)
      BY <2>5
    <3>2. CASE Logical(r) \notin resolved
      BY <1>2, <3>1, <3>2 DEF TailExplained
    <3>3. CASE Logical(r) \in resolved
      <4>1. PICK q \in mem.sent : Logical(q) = Logical(r) /\ Mapped(q, mem) /\ Stood(q)
        BY <3>3 DEF StandInv, ResolvedStand
      <4>2. q.src = Last(c) /\ q.copy = mem.map[c]
        BY <3>1, <4>1 DEF Logical, Mapped, Last
      <4>3. Live(q) = {}
        BY <2>2, <4>2 DEF TailLost, Live
      <4>4. Vouched(Last(c))'
        BY <1>1, <1>2, <4>1, <4>2, <4>3 DEF Stood, Vouched
      <4> QED  BY <4>4 DEF TailExplained
    <3> QED  BY <3>2, <3>3
  <2>6. CASE Vouched(Last(c))
    BY <1>1, <1>2, <2>6 DEF TailExplained, Vouched
  <2> QED  BY <1>1, <1>2, <2>3, <2>4, <2>5, <2>6 DEF TailExplained
<1> QED  BY <1>1, <1>3 DEF TailInv

-----------------------------------------------------------------------------
(* All steps together.                                                     *)

\* A step is one of these.
Step ==
  Check \/ Classify \/ Prepare \/ TakeJob \/ TakeFailures \/ Decline \/ Make \/ Record \/ Dress
  \/ Patch \/ Clear \/ Replace \/ Send \/ AllSent \/ Close \/ (\E s \in Source : Edit(s))
  \/ EndEdits \/ (\E r : RetryOne(r)) \/ EndRetry \/ Halt \/ People
LEMMA NextCases == Next => Step
BY DEF Next, Repairing, Halt, Step

\* The deliveries.
LEMMA NextOne ==
    ASSUME Shapes, OneInv, Next
    PROVE  OneInv'
BY NextCases, CheckOne, ClassifyOne, PrepareOne, TakeJobOne, TakeFailuresOne, DeclineOne, MakeOne
   , RecordOne, DressOne, PatchOne, ClearOne, ReplaceOne, SendOne, AllSentOne, CloseOne, EditOne
   , EndEditsOne, RetryOneOne, EndRetryOne, HaltOne, PeopleOne DEF Step

\* The types.
LEMMA NextShapes ==
    ASSUME Shapes, OneInv, Next
    PROVE  Shapes'
BY NextCases, CheckShapes, ClassifyShapes, PrepareShapes, TakeJobShapes, TakeFailuresShapes
   , DeclineShapes, MakeShapes, RecordShapes, DressShapes, PatchShapes, ClearShapes, ReplaceShapes
   , SendShapes, AllSentShapes, CloseShapes, EditShapes, EndEditsShapes, RetryShapes, EndRetryShapes
   , HaltShapes, PeopleShapes DEF Step, OneInv

\* The records.
LEMMA NextRecords ==
    ASSUME Shapes, OneInv, RecordsInv, Next
    PROVE  RecordsInv'
BY NextCases, ReadingRecords, TakeFailuresRecords, RecordRecords, ClearRecords, ReplaceRecords
   , SendRecords, AllSentRecords, CloseRecords, EndEditsRecords, RetryRecords, EndRetryRecords
   , HaltRecords, PeopleRecords DEF Step

\* The copies.
LEMMA NextCopies ==
    ASSUME Shapes, OneInv, RecordsInv, CopiesInv, Next
    PROVE  CopiesInv'
BY NextCases, CheckCopies, ClassifyCopies, AtWorkCopies, TakeJobCopies, DeclineCopies, MakeCopies
   , RecordCopies, SendCopies, RetryCopies, HaltCopies, PeopleCopies DEF Step

\* The emoji.
LEMMA NextEmoji ==
    ASSUME Shapes, OneInv, OneInv', RecordsInv, CopiesInv, EmojiInv, Next
    PROVE  EmojiInv'
BY NextCases, QuietEmoji, TakeJobEmoji, RecordEmoji, SendEmoji, EditEmoji, EndEditsEmoji, RetryEmoji
   , EndRetryEmoji, HaltEmoji, PeopleEmoji DEF Step

\* The lists.
LEMMA NextLists ==
    ASSUME Shapes, OneInv, ListsInv, Next
    PROVE  ListsInv'
BY NextCases, QuietLists, RecordLists, DressLists, PatchLists, CloseLists, HaltLists, PeopleLists DEF Step

\* The order of the jobs.
LEMMA NextOrder ==
    ASSUME Shapes, OneInv, ListsInv, OrderInv, Next
    PROVE  OrderInv'
BY NextCases, BeginOrder, TakeJobOrder, QuietOrder, MakeOrder, RecordOrder, DressOrder, CloseOrder
   , HaltOrder, PeopleOrder DEF Step

\* Categories and indexes.
LEMMA NextCategories ==
    ASSUME Shapes, OneInv, CopiesInv, ListsInv, OrderInv, CategoriesInv, Next
    PROVE  CategoriesInv'
BY NextCases, QuietCategories, ClassifyCategories, TakeJobCategories, DeclineCategories
   , MakeCategories, RecordCategories, PatchCategories DEF Step

\* What stands.
LEMMA NextStand ==
    ASSUME Shapes, OneInv, CopiesInv, RecordsInv, StandInv, Next
    PROVE  StandInv'
BY NextCases, QuietStand, RecordStand, SavingStand, SendStand, RetryStand, HaltStand, PeopleStand DEF Step

\* What is accounted for.
LEMMA NextAccount ==
    ASSUME Shapes, OneInv, CopiesInv, RecordsInv, ListsInv, StandInv, AccountInv, Next
    PROVE  AccountInv'
BY NextCases, QuietAccount, RecordAccount, SavingAccount, SendAccount, RetryAccount, HaltAccount
   , PeopleAccount DEF Step

\* The last messages.
LEMMA NextTail ==
    ASSUME Shapes, OneInv, CopiesInv, RecordsInv, StandInv, AccountInv, TailInv, Next
    PROVE  TailInv'
BY NextCases, OutsideTail, ClassifyTail, QuietTail, TakeJobTail, RecordTail, SendTail, AllSentTail
   , RetryTail, EndRetryTail DEF Step
\* A migration that has just ended leaves the invariant true.
LEMMA InitCategories == Init => CategoriesInv
BY DEF Init, CategoriesInv, Classified

LEMMA InitInv == Init => IInv
BY InitShapes, InitOne, InitRecords, InitCopies, InitEmoji, InitLists, InitOrder, InitCategories,
   InitStand, InitAccount, InitTail DEF IInv, KeptInv, EndInv

LEMMA NextInv ==
    ASSUME IInv, Next
    PROVE  IInv'
<1> USE DEF IInv, KeptInv, EndInv
<1>1. Shapes' /\ OneInv'
  BY NextShapes, NextOne
<1>2. RecordsInv' /\ CopiesInv' /\ ListsInv'
  BY NextRecords, NextCopies, NextLists
<1>3. EmojiInv'
  BY <1>1, NextEmoji
<1>4. OrderInv' /\ CategoriesInv'
  BY NextOrder, NextCategories
<1>5. StandInv' /\ AccountInv' /\ TailInv'
  BY NextStand, NextAccount, NextTail
<1> QED  BY <1>1, <1>2, <1>3, <1>4, <1>5

\* The invariant speaks of the variables only.
LEMMA Stutters ==
    ASSUME IInv, UNCHANGED vars
    PROVE  IInv'
<1>1. UNCHANGED <<made, alive, lists, dressed, posts>> /\ UNCHANGED <<receipts, uuid, disk, mem>>
      /\ UNCHANGED <<jobs, job, step, todo, flawed, resolved, view, proved, fresh>>
      /\ UNCHANGED <<unfinished, removed, runs, losses, faults, deaths>>
  BY DEF vars, server, files, work, history, bounds
<1>2. Kind' = Kind /\ Thing' = Thing /\ Born' = Born /\ (Working <=> Working') /\ (Classified <=> Classified')
  BY <1>1 DEF Kind, Thing, Born, Working, Classified
<1>3. Here' = Here /\ Begun(Here)' = Begun(Here) /\ \A x : Copy(x)' = Copy(x)
  BY <1>1, <1>2 DEF Here, Current, Begun, Copy
<1>4. WorldShapes'
  BY <1>1, <1>2 DEF IInv, Shapes, WorldShapes, IsLists
<1>5. RunShapes'
  BY <1>1, <1>2, <1>3 DEF IInv, Shapes, RunShapes
<1>6. OneInv'
  <2>1. Synced' /\ DoneInv' /\ JobsApart'
    BY <1>1, <1>2 DEF IInv, OneInv, Synced, DoneInv, JobsApart
  <2>2. AheadClear'
    BY <1>1, <1>2 DEF IInv, OneInv, AheadClear, Ahead, UnderWay
  <2>3. Deliveries(posts, receipts, mem)' /\ Deliveries(posts, receipts, disk)'
    BY <1>1 DEF IInv, OneInv, Deliveries, CopyBounds, OneEach, Backed, Owed, Mapped, Receipted
  <2> QED  BY <1>1, <1>2, <2>1, <2>2, <2>3 DEF IInv, OneInv
<1>7. CopiesInv' /\ RecordsInv'
  <2>1. CopiesInv'
    BY <1>1, <1>2, <1>3 DEF IInv, KeptInv, CopiesInv, OrphansExplained, Orphans, Making
  <2>2. RecordsInv'
    BY <1>1 DEF IInv, KeptInv, RecordsInv, Sound, Mapped
  <2> QED  BY <2>1, <2>2
<1>8. EmojiInv' /\ ListsInv'
  <2>1. EmojiInv'
    BY <1>1, <1>2 DEF IInv, KeptInv, EmojiInv, OwnedBy, Agree, Shows
  <2>2. ListsInv'
    BY <1>1, <1>2, <1>3 DEF IInv, KeptInv, ListsInv, Attaching
  <2> QED  BY <2>1, <2>2
<1>9. OrderInv' /\ CategoriesInv'
  <2>1. OrderInv'
    BY <1>1, <1>2, <1>3 DEF IInv, EndInv, OrderInv, RolesLeft, RolesToMake
  <2>2. CategoriesInv'
    BY <1>1, <1>2, <1>3 DEF IInv, EndInv, CategoriesInv, CategoriesOver, Making
  <2> QED  BY <2>1, <2>2
<1>10. StandInv'
  BY <1>1, <1>3 DEF IInv, EndInv, StandInv, AckedStand, AckedKnown, CountedStand, ResolvedStand, Gone, Stood,
     Live, Vouched, Window, Mapped
<1>11. AccountInv'
  BY <1>1, <1>2, <1>3 DEF IInv, EndInv, AccountInv, ChannelsAccounted, AccountedBy, Gone, ResentAccounted, Resending,
     Stood, Live, Vouched
<1>12. TailInv'
  BY <1>1, <1>2, <1>3 DEF IInv, EndInv, TailInv, TailAbsent, TailExplained, Expected, Window, WasEmpty, Retried, Vouched
<1> QED  BY <1>4, <1>5, <1>6, <1>7, <1>8, <1>9, <1>10, <1>11, <1>12 DEF IInv, Shapes, KeptInv, EndInv

\* The invariant of every repair.
THEOREM RepairIInv == Spec => []IInv
<1>1. IInv /\ [Next]_vars => IInv'
  BY NextInv, Stutters
<1> QED  BY InitInv, <1>1, PTL DEF Spec

-----------------------------------------------------------------------------
(* What the runs check.                                                    *)

\* However often a repair is stopped, dies or is run again, a message stands once in a
\* copy of its channel: begin_delivery_replacement keeps one generation per message.
THEOREM RepairOnePost == Spec => []OnePost
<1>1. IInv => OnePost
  BY DEF IInv, OneInv, Deliveries, OneEach, OnePost
<1> QED  BY <1>1, RepairIInv, PTL

\* The copies of the invariant are those of its types.
LEMMA ShapesTypeOK ==
    ASSUME IInv
    PROVE  TypeOK
<1> USE DEF IInv, Shapes
<1>1. \A c \in Born : c[1] \in Item /\ c[2] \in 1..made[c[1]]
  BY DEF Born, Copies
<1>2. /\ made \in [Item -> Nat]
      /\ \A c \in alive \union dressed \union fresh \union unfinished : c[1] \in Item /\ c[2] \in 1..made[c[1]]
  BY <1>1 DEF WorldShapes
<1>3. /\ \A k \in DOMAIN lists : k \in Category \union UserCategory
      /\ \A k \in DOMAIN lists : \A c \in lists[k] : c[2] \in 1..made[c[1]]
  BY <1>1 DEF WorldShapes, IsLists
<1>4. \A m \in {disk, mem} :
          /\ DOMAIN m = DOMAIN Migrated({})
          /\ m.marked \subseteq Channel /\ m.counted \subseteq Channel /\ m.rewrite \subseteq Emoji
  BY DEF RunShapes, State, Migrated
<1>5. \A m \in {disk, mem} : \A x \in Item : m.map[x] \in 1..made[x]
  BY DEF RunShapes, OneInv, Synced
<1>6. \A m \in {disk, mem} :
          /\ \A r, q \in m.sent : r.src = q.src => r = q
          /\ \A r, q \in m.next : Logical(r) = Logical(q) => r = q
  BY DEF OneInv, Deliveries, OneEach
<1>7. \A q \in receipts : q.st \in {"rejected", "unsure", "acked"}
  BY DEF WorldShapes, Statuses
<1> QED  BY <1>2, <1>3, <1>4, <1>5, <1>6, <1>7 DEF TypeOK, RunShapes, Steps

\* At the end nothing is left to do.
LEMMA NothingLeft ==
    ASSUME IInv, Over
    PROVE  jobs = {} /\ ~Working /\ Making = {} /\ Classified /\ ~RolesLeft /\ \A x \in Channel : Copy(x) \notin fresh
<1>1. jobs = {} /\ ~Working /\ Making = {} /\ Classified
  BY DEF IInv, Shapes, RunShapes, Over, Working, Kinds, Making, Classified
<1>2. ~RolesLeft
  BY <1>1 DEF RolesLeft, RolesToMake
<1>3. fresh \subseteq Role \X Nat
  BY <1>1 DEF IInv, KeptInv, ListsInv, Attaching
<1> QED  BY <1>1, <1>2, <1>3, RepairAssumption DEF Copy

\* What holds during every repair: no copy of a thing without a death or an unconfirmed
\* creation to explain it, no emoji shown that nothing will rewrite, and no category
\* lost from a list that a repair writes back.
THEOREM RepairSafe == Spec => []RepairInv
<1>1. ASSUME IInv PROVE OrphansExplained
  BY <1>1 DEF IInv, KeptInv, CopiesInv
<1>2. ASSUME IInv PROVE EmojiOwned
  <2> SUFFICES ASSUME NEW p \in posts, p.ref \in disk.sent, p.ref.src \in DOMAIN EmojiIn
               PROVE  p.emo = disk.map[EmojiIn[p.ref.src]] \/ EmojiIn[p.ref.src] \in disk.rewrite
    BY DEF EmojiOwned
  <2>1. EmojiIn[p.ref.src] \in Emoji
    BY RepairAssumption
  <2> QED  BY <1>2, <2>1 DEF IInv, KeptInv, EmojiInv, OwnedBy, Shows
<1>3. ASSUME IInv PROVE ListsKept
  BY <1>3, NothingLeft DEF IInv, KeptInv, ListsInv, ListsKept
<1>4. IInv => RepairInv
  BY <1>1, <1>2, <1>3, ShapesTypeOK DEF RepairInv
<1> QED  BY <1>4, RepairIInv, PTL

\* Everything the check looks for stands at the end, or what is missing is recorded.
LEMMA EndRepaired ==
    ASSUME IInv
    PROVE  Repaired
<1> SUFFICES ASSUME Over
             PROVE  /\ \A x \in Role \union Channel \union Emoji : Stands(x)
                    /\ Named \subseteq DOMAIN lists
                    /\ \A i \in Index : CategoryOf[i] \in DOMAIN lists => Stands(i)
                    /\ \A c \in Channel : ChannelEmpty(c) =>
                                          \E s \in Text(c) : <<s, mem.map[c]>> \in removed
                    /\ \A c \in Channel : TailAbsent(c) => \/ \E r \in mem.failed : r.src = Last(c)
                                                         \/ WasEmpty(c) \/ Vouched(Last(c))
  BY DEF Repaired
<1>0. jobs = {} /\ ~Working /\ Making = {} /\ Classified /\ ~RolesLeft
  BY NothingLeft
<1>1. \A x \in Channel \union Index : Copy(x) \in alive => Copy(x) \in dressed
  BY <1>0 DEF IInv, EndInv, OrderInv, Over
<1>2. \A x \in Role : Copy(x) \in alive => Copy(x) \in dressed \union unfinished
  <2>1. \A x \in Role : Copy(x) \notin fresh
    BY <1>0 DEF IInv, EndInv, OrderInv, Copy
  <2> QED  BY <2>1 DEF IInv, EndInv, OrderInv
<1>3. \A x \in Role \union Channel \union Emoji : Stands(x)
  <2>1. \A x \in Role \union Channel \union Emoji : Copy(x) \in alive
    BY <1>0 DEF IInv, KeptInv, CopiesInv
  <2> QED  BY <1>1, <1>2, <2>1 DEF Stands
<1>4. Named \subseteq DOMAIN lists
  BY <1>0 DEF IInv, EndInv, CategoriesInv, Working, Kinds, Over
<1>5. \A i \in Index : CategoryOf[i] \in DOMAIN lists => Stands(i)
  <2>1. \A i \in Index : CategoryOf[i] \in DOMAIN lists => Copy(i) \in alive
    BY <1>0 DEF IInv, EndInv, CategoriesInv
  <2> QED  BY <1>1, <2>1 DEF Stands
<1>6. \A c \in Channel : ChannelEmpty(c) => \E s \in Text(c) : <<s, mem.map[c]>> \in removed
  <2> SUFFICES ASSUME NEW c \in Channel, ChannelEmpty(c)
               PROVE  \E s \in Text(c) : <<s, mem.map[c]>> \in removed
    OBVIOUS
  <2>1. Copy(c) \in alive
    BY <1>0 DEF IInv, KeptInv, CopiesInv
  <2>2. \A r \in Expected(c) : r \in mem.sent /\ r.src[1] = c
    BY DEF Expected, Last
  <2>3. c \in mem.counted \/ \E r \in mem.sent : r.src[1] = c
    BY <2>2 DEF ChannelEmpty
  <2>4. PICK s \in Text(c) : Gone(s)
    BY <2>1, <2>3 DEF IInv, EndInv, StandInv, CountedStand, ChannelEmpty
  <2>5. s[1] = c
    BY DEF Text
  <2> QED  BY <2>4, <2>5 DEF Gone
<1>7. ASSUME NEW c \in Channel, TailAbsent(c)
      PROVE  (\E r \in mem.failed : r.src = Last(c)) \/ WasEmpty(c) \/ Vouched(Last(c))
  BY <1>0, <1>7 DEF IInv, EndInv, TailInv, TailExplained, Over
<1> QED  BY <1>3, <1>4, <1>5, <1>6, <1>7

\* A channel whose repair was not cut short has every message, or a record of it.
LEMMA EndResent ==
    ASSUME IInv
    PROVE  Resent
<1> SUFFICES ASSUME Over, NEW c \in Channel, Copy(c) \notin unfinished, NEW s \in Text(c)
             PROVE  \/ \E p \in posts : Logical(p.ref) = <<s, mem.map[c]>>
                    \/ \E r \in mem.failed : Logical(r) = <<s, mem.map[c]>>
                    \/ <<s, mem.map[c]>> \in removed
  BY DEF Resent, Accounted
<1>1. Copy(c) \in alive
  BY NothingLeft DEF IInv, KeptInv, CopiesInv
<1>2. AccountedBy(mem, s)
  BY <1>1, NothingLeft DEF IInv, EndInv, AccountInv, ChannelsAccounted
<1>3. s[1] = c
  BY DEF Text
<1> QED  BY <1>2, <1>3 DEF AccountedBy, Gone

\* A repair that comes to its end has made again everything its check can find missing
\* and resent every message of a channel it made, or has a record of what failed.
THEOREM RepairCompletes == Spec => []RepairComplete
<1>1. IInv => RepairComplete
  BY EndRepaired, EndResent DEF RepairComplete
<1> QED  BY <1>1, RepairIInv, PTL
=============================================================================
