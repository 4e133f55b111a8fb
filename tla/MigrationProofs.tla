--------------------------- MODULE MigrationProofs ---------------------------
(***************************************************************************)
(* Proofs about Migration, for any roles, channels and other resources,    *)
(* any follow-ups and any number of runs, deaths and lost answers.         *)
(***************************************************************************)
EXTENDS MigrationProps, FiniteSetTheorems, TLAPS

-----------------------------------------------------------------------------
(* The inductive invariant.                                                *)

\* What the record says of the service, where m copies of each resource exist, d
\* are dressed and h is in the server's list: an identifier on record names a
\* copy, what is finalized and what received messages is dressed, the list holds
\* channels on record only, and no channel is dressed before every role is known.
Good(s, m, d, h, cut) ==
    /\ s \in State
    /\ \A i \in Resource : s.map[i] <= m[i]
    /\ \A c \in s.placed : s.map[c] # 0
    /\ \A r \in s.finalized : s.map[r] # 0 /\ <<r, s.map[r]>> \in d
    /\ \A f \in s.sent : s.map[Home[f]] # 0 /\ <<Home[f], s.map[Home[f]]>> \in d
    /\ \A c \in Channel, n \in Nat : <<c, n>> \in h => c \in s.placed /\ s.map[c] = n
    /\ \A c \in Channel, n \in Nat, r \in Role : <<c, n>> \in d => s.map[r] # 0
    /\ ~cut /\ Rank(s.phase) > 3 => \A r \in Role : s.map[r] # 0 => r \in s.finalized

\* Every channel of the export is on record and in the list, with every category.
Settled(s, export, cats, h) ==
    /\ \A c \in export : s.map[c] # 0
    /\ s.cats \subseteq cats
    /\ \A c \in s.placed \union export : <<c, s.map[c]>> \in h

\* The follow-ups that are neither applied nor dropped yet.
Queue == IF Following THEN Others \union rest \union todo ELSE mem.pending

Balance(s, q, again) ==
    again \/ s.counted + Cardinality(q) + Cardinality(s.capped) <= Cardinality(s.sent)

Records ==
    /\ Good(disk, made, dressed, layout.holds, cutShort)
    /\ mode # "none" => Good(mem, made, dressed, layout.holds, cutShort)
    /\ Balance(disk, disk.pending, recounted)
    /\ mode # "none" => Balance(mem, Queue, recounted)

\* Where the loop is, and how far the record on disk is behind.
Position ==
    /\ phase # "between" => mode # "none" /\ next <= Last /\ phase = PHASE_ORDER[next] /\ mem.phase = phase
    /\ mode # "none" /\ phase = "between" =>
         \/ Rank(mem.phase) = next - 1
         \/ mode = "resume" /\ next <= Rank(mem.phase)
    /\ mode # "none" /\ ~Unsaved => Rank(disk.phase) <= Rank(mem.phase)

Lockstep ==
    mode # "none" => \A i \in Durable :
        disk.map[i] = mem.map[i] \/ (stage = "save" /\ i = hand /\ disk.map[i] = 0)

Handled ==
    /\ stage = "save" => /\ hand \in Durable /\ mem.map[hand] # 0
                         /\ phase = "channels" => hand \in Channel
    /\ stage \in {"dress", "place"} => hand \in Channel /\ mem.map[hand] # 0
    /\ stage = "place" => Named(mem, hand) \in dressed

Doing ==
    /\ phase \in {"server", "roles", "emoji", "avatars"} /\ stage \in {"loop", "save"} =>
         \A i \in todo : i \in Resource /\ mem.map[i] = 0
    /\ phase = "server" => todo \subseteq {"server"}
    /\ phase = "roles" => todo \subseteq Role \union {"server"} /\ (stage \in {"loop", "save"} => todo \subseteq Role)
    /\ phase = "channels" => todo \subseteq seen
    /\ phase = "emoji" => todo \subseteq Emoji
    /\ phase = "avatars" => todo \subseteq Avatar
    /\ phase = "messages" => todo \subseteq FollowUp \ mem.sent
    /\ phase = "reactions" => todo \union rest \subseteq Reaction
    /\ phase = "pins" => todo \union rest \subseteq Pin
    /\ Following => /\ todo \cap rest = {}
                    /\ \A f \in mem.pending \ Others : f \in todo \union rest \union applied \union mem.capped

Granting ==
    stage = "grant" => \A r \in Role :
        mem.map[r] # 0 => r \in mem.finalized \/ r \in todo \/ Named(mem, r) \in dressed

ChannelsDressed ==
    mode # "none" => \A c \in Channel :
        mem.map[c] # 0 => \/ Named(mem, c) \in dressed
                          \/ phase = "channels" /\ stage \in {"save", "dress"} /\ c = hand

Placed ==
    phase = "channels" => \A c \in seen :
        c \in todo \/ c \in mem.placed \/ (stage \in {"save", "dress", "place"} /\ c = hand)

Past ==
    /\ mode # "none" /\ ~cutShort /\ next > 3 =>
         \A r \in Role : mem.map[r] # 0 => r \in mem.finalized
    /\ mode # "none" /\ ~cutShort /\ (next > 5 \/ Rank(mem.phase) > 5) =>
         Settled(mem, seen, layout.cats, layout.holds)
    /\ ~cutShort /\ ~Unsaved /\ Rank(disk.phase) > 5 =>
         Settled(disk, seen, layout.cats, layout.holds)

Numbers ==
    /\ \A i \in Resource : made[i] <= runs + losses
    /\ mode # "none" => \A i \in Resource : mem.map[i] = 0 => made[i] + 1 <= runs + losses
    /\ runs = 0 => disk = EmptyState /\ mode = "none"
    /\ mode # "none" => seen # {}

IInv ==
    /\ TypeOK /\ Records /\ Position /\ Lockstep /\ Handled /\ Doing /\ Granting
    /\ ChannelsDressed /\ Placed /\ Past /\ Numbers /\ OrphansExplained

-----------------------------------------------------------------------------
(* The phases.                                                             *)

LEMMA PhaseOrder ==
    /\ Len(PHASE_ORDER) = 11 /\ Last = 10 /\ DOMAIN PHASE_ORDER = 1..11
    /\ PHASE_ORDER[1] = "connect" /\ PHASE_ORDER[2] = "server" /\ PHASE_ORDER[3] = "roles"
    /\ PHASE_ORDER[4] = "categories" /\ PHASE_ORDER[5] = "channels"
    /\ PHASE_ORDER[6] = "emoji" /\ PHASE_ORDER[7] = "avatars" /\ PHASE_ORDER[8] = "messages"
    /\ PHASE_ORDER[9] = "reactions" /\ PHASE_ORDER[10] = "pins" /\ PHASE_ORDER[11] = "report"
  BY DEF PHASE_ORDER, Last

LEMMA PhaseDistinct ==
    \A m, n \in 1..11 : PHASE_ORDER[m] = PHASE_ORDER[n] => m = n
<1> SUFFICES ASSUME NEW m \in 1..11, NEW n \in 1..11, PHASE_ORDER[m] = PHASE_ORDER[n]
             PROVE  m = n
  OBVIOUS
<1>1. m \in {1, 2, 3, 4, 5, 6, 7, 8, 9, 10, 11} /\ n \in {1, 2, 3, 4, 5, 6, 7, 8, 9, 10, 11}
  OBVIOUS
<1>. QED  BY <1>1, PhaseOrder

LEMMA NoPhaseIs ==
    /\ NoPhase # "connect" /\ NoPhase # "server" /\ NoPhase # "roles" /\ NoPhase # "categories"
    /\ NoPhase # "channels" /\ NoPhase # "emoji" /\ NoPhase # "avatars" /\ NoPhase # "messages"
    /\ NoPhase # "reactions" /\ NoPhase # "pins" /\ NoPhase # "report"
  BY Zenon DEF NoPhase

LEMMA RankOf ==
    ASSUME NEW n \in 1..11
    PROVE  Rank(PHASE_ORDER[n]) = n
<1>1. PHASE_ORDER[n] # NoPhase
  <2>1. n \in {1, 2, 3, 4, 5, 6, 7, 8, 9, 10, 11}
    OBVIOUS
  <2>. QED  BY <2>1, PhaseOrder, NoPhaseIs
<1>2. \A k \in DOMAIN PHASE_ORDER : PHASE_ORDER[k] = PHASE_ORDER[n] <=> k = n
  BY PhaseOrder, PhaseDistinct
<1>3. (CHOOSE k \in DOMAIN PHASE_ORDER : PHASE_ORDER[k] = PHASE_ORDER[n]) = n
  BY <1>2, PhaseOrder
<1>. QED  BY <1>1, <1>3 DEF Rank

LEMMA Ranks ==
    /\ Rank(NoPhase) = 0 /\ Rank("connect") = 1 /\ Rank("server") = 2 /\ Rank("roles") = 3
    /\ Rank("categories") = 4 /\ Rank("channels") = 5 /\ Rank("emoji") = 6 /\ Rank("avatars") = 7
    /\ Rank("messages") = 8 /\ Rank("reactions") = 9 /\ Rank("pins") = 10 /\ Rank("report") = 11
<1>1. Rank(NoPhase) = 0
  BY DEF Rank
<1>2. /\ Rank(PHASE_ORDER[1]) = 1 /\ Rank(PHASE_ORDER[2]) = 2 /\ Rank(PHASE_ORDER[3]) = 3
      /\ Rank(PHASE_ORDER[4]) = 4 /\ Rank(PHASE_ORDER[5]) = 5 /\ Rank(PHASE_ORDER[6]) = 6
      /\ Rank(PHASE_ORDER[7]) = 7 /\ Rank(PHASE_ORDER[8]) = 8 /\ Rank(PHASE_ORDER[9]) = 9
      /\ Rank(PHASE_ORDER[10]) = 10 /\ Rank(PHASE_ORDER[11]) = 11
  BY RankOf
<1>. QED  BY <1>1, <1>2, PhaseOrder

\* The names that a record's phase may have.
Name == {NoPhase, "connect", "server", "roles", "categories", "channels", "emoji",
         "avatars", "messages", "reactions", "pins", "report"}

LEMMA Names ==
    /\ {NoPhase} \union {PHASE_ORDER[n] : n \in DOMAIN PHASE_ORDER} = Name
    /\ \A n \in 1..11 : PHASE_ORDER[n] \in Name \ {NoPhase}
    /\ \A p \in Name : Rank(p) \in 0..11 /\ (p # NoPhase => PHASE_ORDER[Rank(p)] = p)
<1>1. \A n \in 1..11 : PHASE_ORDER[n] \in Name \ {NoPhase}
  <2> SUFFICES ASSUME NEW n \in 1..11 PROVE PHASE_ORDER[n] \in Name \ {NoPhase}
    OBVIOUS
  <2>1. n \in {1, 2, 3, 4, 5, 6, 7, 8, 9, 10, 11}
    OBVIOUS
  <2>. QED  BY <2>1, PhaseOrder, NoPhaseIs DEF Name
<1>2. \A p \in Name \ {NoPhase} : \E n \in DOMAIN PHASE_ORDER : p = PHASE_ORDER[n]
  <2> SUFFICES ASSUME NEW p \in Name \ {NoPhase} PROVE \E n \in 1..11 : p = PHASE_ORDER[n]
    BY PhaseOrder
  <2>1. \/ p = PHASE_ORDER[1] \/ p = PHASE_ORDER[2] \/ p = PHASE_ORDER[3] \/ p = PHASE_ORDER[4]
        \/ p = PHASE_ORDER[5] \/ p = PHASE_ORDER[6] \/ p = PHASE_ORDER[7] \/ p = PHASE_ORDER[8]
        \/ p = PHASE_ORDER[9] \/ p = PHASE_ORDER[10] \/ p = PHASE_ORDER[11]
    BY PhaseOrder DEF Name
  <2>. QED  BY <2>1
<1>3. {NoPhase} \union {PHASE_ORDER[n] : n \in DOMAIN PHASE_ORDER} = Name
  <2>1. NoPhase \in Name
    BY DEF Name
  <2>2. DOMAIN PHASE_ORDER = 1..11
    BY PhaseOrder
  <2>. QED  BY <1>1, <1>2, <2>1, <2>2
<1>4. \A p \in Name : Rank(p) \in 0..11 /\ (p # NoPhase => PHASE_ORDER[Rank(p)] = p)
  <2>1. Rank(NoPhase) \in 0..11
    BY Ranks
  <2>2. \A n \in 1..11 : Rank(PHASE_ORDER[n]) \in 0..11 /\ PHASE_ORDER[Rank(PHASE_ORDER[n])] = PHASE_ORDER[n]
    BY RankOf
  <2>. QED  BY <1>2, <2>1, <2>2, PhaseOrder
<1>. QED  BY <1>1, <1>3, <1>4

LEMMA StageOf ==
    /\ DOMAIN Stages = {"connect", "server", "roles", "categories", "channels", "emoji",
                        "avatars", "messages", "reactions", "pins"}
    /\ Stages["server"] = {"loop", "save"}
    /\ Stages["roles"] = {"loop", "save", "colour", "grant"}
    /\ Stages["categories"] = {"upsert"}
    /\ Stages["channels"] = {"loop", "save", "dress", "place"}
    /\ \A p \in {"connect", "emoji", "avatars", "messages", "reactions", "pins"} : Stages[p] = {"loop"}
<1>1. {PHASE_ORDER[n] : n \in 1..Last} = {"connect", "server", "roles", "categories", "channels",
                        "emoji", "avatars", "messages", "reactions", "pins"}
  <2>1. \A n \in 1..Last : n \in {1, 2, 3, 4, 5, 6, 7, 8, 9, 10}
    BY PhaseOrder
  <2>2. \A n \in {1, 2, 3, 4, 5, 6, 7, 8, 9, 10} : n \in 1..Last
    BY PhaseOrder
  <2>. QED  BY <2>1, <2>2, PhaseOrder
<1>. QED  BY <1>1 DEF Stages

LEMMA StateFields ==
    ASSUME NEW s \in State
    PROVE  /\ s.map \in [Resource -> Nat] /\ s.cats \subseteq Category /\ s.placed \subseteq Channel
           /\ s.finalized \subseteq Role /\ s.sent \subseteq FollowUp /\ s.pending \subseteq FollowUp
           /\ s.tally \subseteq Reaction /\ s.counted \in Nat /\ s.capped \subseteq Reaction
           /\ s.phase \in Name
  BY Names DEF State

LEMMA Kinds ==
    /\ Role \subseteq Durable /\ Channel \subseteq Durable /\ "server" \in Durable
    /\ Durable \subseteq Resource /\ Emoji \subseteq Resource /\ Avatar \subseteq Resource
    /\ Role \cap Channel = {} /\ "server" \notin Role \union Channel
    /\ Durable \cap (Emoji \union Avatar) = {}
    /\ Reaction \subseteq FollowUp /\ Pin \subseteq FollowUp
    /\ \A f \in FollowUp : Home[f] \in Channel
    /\ IsFiniteSet(Durable) /\ IsFiniteSet(FollowUp)
<1>1. IsFiniteSet(Durable)
  BY MigrationAssumption, FS_Subset DEF Resource
<1>. QED  BY <1>1, MigrationAssumption DEF Durable, Resource, FollowUp

LEMMA Limits == MaxReactions \in Nat /\ MaxRuns \in Nat /\ MaxEnds \in Nat /\ MaxLosses \in Nat
  BY MigrationAssumption

-----------------------------------------------------------------------------
(* The record and the service.                                             *)

\* The service has gained copies, dressed some, and lists no channel more.
LEMMA GoodMore ==
    ASSUME NEW s, NEW m, NEW d, NEW h, NEW cut, NEW m2, NEW d2, NEW h2, NEW cut2,
           Good(s, m, d, h, cut), m \in [Resource -> Nat], m2 \in [Resource -> Nat],
           \A i \in Resource : m[i] <= m2[i],
           d \subseteq d2, h2 \subseteq h, cut => cut2,
           \A c \in Channel, n \in Nat : <<c, n>> \in d2 =>
               <<c, n>> \in d \/ \A r \in Role : s.map[r] # 0
    PROVE  Good(s, m2, d2, h2, cut2)
<1>1. s \in State /\ s.map \in [Resource -> Nat]
  BY StateFields DEF Good
<1>2. \A i \in Resource : s.map[i] <= m2[i]
  BY <1>1 DEF Good
<1>3. \A c \in Channel, n \in Nat, r \in Role : <<c, n>> \in d2 => s.map[r] # 0
  BY DEF Good
<1>. QED  BY <1>1, <1>2, <1>3 DEF Good

\* Another record with the same facts.
LEMMA GoodSame ==
    ASSUME NEW s, NEW t, NEW m, NEW d, NEW h, NEW cut,
           Good(s, m, d, h, cut), t \in State,
           t.map = s.map, t.placed = s.placed, t.finalized = s.finalized, t.sent = s.sent,
           ~cut /\ Rank(t.phase) > 3 =>
               Rank(s.phase) > 3 \/ \A r \in Role : s.map[r] # 0 => r \in s.finalized
    PROVE  Good(t, m, d, h, cut)
  BY DEF Good

LEMMA SubsetCount ==
    ASSUME NEW A, NEW B, IsFiniteSet(B), A \subseteq B
    PROVE  IsFiniteSet(A) /\ Cardinality(A) \in Nat /\ Cardinality(B) \in Nat
           /\ Cardinality(A) <= Cardinality(B)
  BY FS_Subset, FS_CardinalityType

LEMMA AddCount ==
    ASSUME NEW A, NEW B, NEW x, IsFiniteSet(A), B \subseteq A \union {x}
    PROVE  IsFiniteSet(B) /\ Cardinality(B) \in Nat /\ Cardinality(B) <= Cardinality(A) + 1
<1>1. IsFiniteSet(A \union {x}) /\ Cardinality(A \union {x}) <= Cardinality(A) + 1
      /\ Cardinality(A \union {x}) \in Nat /\ Cardinality(A) \in Nat
  BY FS_AddElement, FS_CardinalityType
<1>. QED  BY <1>1, SubsetCount

LEMMA TakeCount ==
    ASSUME NEW A, NEW x \in A, IsFiniteSet(A), NEW B, B \subseteq A \ {x}
    PROVE  Cardinality(B) \in Nat /\ Cardinality(A) \in Nat /\ Cardinality(B) + 1 <= Cardinality(A)
<1>1. IsFiniteSet(A \ {x}) /\ Cardinality(A \ {x}) = Cardinality(A) - 1
      /\ Cardinality(A \ {x}) \in Nat /\ Cardinality(A) \in Nat
  BY FS_RemoveElement, FS_CardinalityType
<1>. QED  BY <1>1, SubsetCount

\* The copies that nothing explains.
LEMMA OrphansAre ==
    /\ \A s : IsFiniteSet(Orphans(s))
    /\ \A s, i, n : <<i, n>> \in Orphans(s) <=>
         i \in Durable /\ n \in 1..MaxRuns + MaxLosses /\ n <= made[i] /\ n # s.map[i]
    /\ \A s : \A o \in Orphans(s) : o = <<o[1], o[2]>>
<1>1. \A s : Orphans(s) \subseteq Durable \X (1..MaxRuns + MaxLosses)
  BY DEF Orphans
<1>2. IsFiniteSet(Durable \X (1..MaxRuns + MaxLosses))
  <2>1. IsFiniteSet(1..MaxRuns + MaxLosses)
    <3>1. MaxRuns + MaxLosses \in Int
      BY Limits
    <3>. QED  BY <3>1, FS_Interval
  <2>. QED  BY <2>1, Kinds, FS_Product
<1>3. \A s : IsFiniteSet(Orphans(s))
  BY <1>1, <1>2, FS_Subset
<1>. QED  BY <1>1, <1>3 DEF Orphans

\* No copy more that nothing explains.
LEMMA OrphansKept ==
    ASSUME TypeOK, OrphansExplained,
           \A i \in Durable : made'[i] = made[i] /\ Known'.map[i] = Known.map[i],
           losses' = losses \/ losses' = losses + 1, ends' = ends \/ ends' = ends + 1
    PROVE  OrphansExplained'
<1>1. Orphans(Known)' \subseteq Orphans(Known)
  BY Kinds DEF Orphans, TypeOK
<1>2. IsFiniteSet(Orphans(Known))
  BY OrphansAre
<1>3. Cardinality(Orphans(Known)') <= Cardinality(Orphans(Known))
      /\ Cardinality(Orphans(Known)) \in Nat /\ Cardinality(Orphans(Known)') \in Nat
  BY <1>1, <1>2, SubsetCount
<1>4. losses \in Nat /\ ends \in Nat
  <2>1. losses \in 0..MaxLosses /\ ends \in 0..MaxEnds
    BY DEF TypeOK
  <2>. QED  BY <2>1, Limits
<1>5. Cardinality(Orphans(Known)) <= losses + ends
  BY DEF OrphansExplained
<1>6. Cardinality(Orphans(Known)') <= losses + ends
  BY <1>3, <1>4, <1>5
<1>7. Cardinality(Orphans(Known)') <= losses' + ends'
  BY <1>3, <1>4, <1>6
<1>. QED  BY <1>7 DEF OrphansExplained

LEMMA Shapes ==
    ASSUME TypeOK
    PROVE  /\ runs \in Nat /\ ends \in Nat /\ losses \in Nat
           /\ runs <= MaxRuns /\ ends <= MaxEnds /\ losses <= MaxLosses
           /\ mem \in State /\ disk \in State /\ made \in [Resource -> Nat]
           /\ \A i \in Resource : made[i] \in Nat /\ mem.map[i] \in Nat /\ disk.map[i] \in Nat
           /\ next \in 1..11 /\ Rank(mem.phase) \in 0..11 /\ Rank(disk.phase) \in 0..11
           /\ mem.phase \in Name /\ disk.phase \in Name
<1>1. /\ runs \in 0..MaxRuns /\ ends \in 0..MaxEnds /\ losses \in 0..MaxLosses
      /\ mem \in State /\ disk \in State /\ made \in [Resource -> 0..MaxRuns + MaxLosses]
      /\ next \in 1..Len(PHASE_ORDER)
  BY DEF TypeOK
<1>2. /\ runs \in Nat /\ ends \in Nat /\ losses \in Nat
      /\ runs <= MaxRuns /\ ends <= MaxEnds /\ losses <= MaxLosses
  BY <1>1, Limits
<1>3. made \in [Resource -> Nat]
  BY <1>1, Limits
<1>4. /\ mem.map \in [Resource -> Nat] /\ disk.map \in [Resource -> Nat]
      /\ mem.phase \in Name /\ disk.phase \in Name
  BY <1>1, StateFields
<1>5. Rank(mem.phase) \in 0..11 /\ Rank(disk.phase) \in 0..11
  BY <1>4, Names
<1>6. next \in 1..11
  BY <1>1, PhaseOrder
<1>. QED  BY <1>1, <1>2, <1>3, <1>4, <1>5, <1>6

-----------------------------------------------------------------------------
(* What a step within a run leaves alone.                                  *)

\* A record with other fields, of the same types.
LEMMA StateWith ==
    ASSUME NEW s \in State
    PROVE  /\ \A p \in Name : [s EXCEPT !.phase = p] \in State
           /\ \A m \in [Resource -> Nat] : [s EXCEPT !.map = m] \in State
           /\ \A c \in SUBSET Channel : [s EXCEPT !.placed = c] \in State
           /\ \A c \in SUBSET Category : [s EXCEPT !.cats = c] \in State
           /\ \A r \in SUBSET Role : [s EXCEPT !.finalized = r] \in State
           /\ \A f \in SUBSET FollowUp : [s EXCEPT !.pending = f] \in State
           /\ \A r \in SUBSET Reaction : [s EXCEPT !.capped = r] \in State
           /\ \A f \in SUBSET FollowUp, g \in SUBSET FollowUp :
                  [s EXCEPT !.sent = f, !.pending = g] \in State
           /\ \A n \in Nat, r \in SUBSET Reaction : [s EXCEPT !.counted = n, !.tally = r] \in State
  BY Names DEF State

LEMMA GoodPlaced ==
    ASSUME NEW s, NEW t, NEW m, NEW d, NEW h, NEW cut, NEW c,
           Good(s, m, d, h, cut), t \in State, s.map[c] # 0,
           t.map = s.map, t.placed = s.placed \union {c}, t.finalized = s.finalized,
           t.sent = s.sent, t.phase = s.phase
    PROVE  Good(t, m, d, h, cut)
  BY DEF Good

LEMMA GoodSent ==
    ASSUME NEW s, NEW t, NEW m, NEW d, NEW h, NEW cut, NEW f,
           Good(s, m, d, h, cut), t \in State,
           s.map[Home[f]] # 0, <<Home[f], s.map[Home[f]]>> \in d,
           t.map = s.map, t.placed = s.placed, t.finalized = s.finalized,
           t.sent = s.sent \union {f}, t.phase = s.phase
    PROVE  Good(t, m, d, h, cut)
  BY DEF Good

\* The record in memory changes, and perhaps the one on disk with it.
LEMMA GoodBoth ==
    ASSUME IInv, made' = made, dressed' = dressed, layout' = layout, cutShort' = cutShort,
           Good(mem', made, dressed, layout.holds, cutShort),
           disk' = disk \/ disk' = mem'
    PROVE  /\ Good(mem, made, dressed, layout.holds, cutShort)'
           /\ Good(disk, made, dressed, layout.holds, cutShort)'
<1>1. Good(disk, made, dressed, layout.holds, cutShort)
  BY DEF IInv, Records
<1>. QED  BY <1>1

LEMMA PastSame ==
    ASSUME IInv, mode # "none", UNCHANGED <<layout, mode, seen, phase, next, cutShort>>,
           mem'.map = mem.map, mem'.finalized = mem.finalized, mem'.cats = mem.cats,
           mem'.phase = mem.phase,
           mem'.placed = mem.placed \/ phase = "channels",
           disk' = disk \/ disk' = mem'
    PROVE  Past'
<1>1. Past /\ Position /\ TypeOK
  BY DEF IInv
<1>2. phase = "channels" => next = 5 /\ Rank(mem.phase) = 5
  BY <1>1, Shapes, PhaseOrder, PhaseDistinct, Ranks DEF Position
<1>3. mode # "none" /\ ~cutShort /\ (next > 5 \/ Rank(mem.phase) > 5) =>
         Settled(mem', seen, layout.cats, layout.holds)
  BY <1>1, <1>2 DEF Past, Settled
<1>. QED  BY <1>1, <1>2, <1>3 DEF Past, Unsaved

LEMMA NumbersSame ==
    ASSUME Numbers, mode # "none", UNCHANGED <<made, runs, losses, mode, seen>>, mem'.map = mem.map
    PROVE  Numbers'
  BY DEF Numbers

LEMMA OrphansInRun ==
    ASSUME TypeOK, OrphansExplained, mode # "none", mode' = mode,
           \A i \in Durable : made'[i] = made[i] /\ mem'.map[i] = mem.map[i],
           losses' = losses \/ losses' = losses + 1, ends' = ends \/ ends' = ends + 1
    PROVE  OrphansExplained'
<1>1. \A i \in Durable : Known'.map[i] = Known.map[i]
  BY DEF Known
<1>. QED  BY <1>1, OrphansKept

\* The numbers of a queue that loses at most what the record counts.
LEMMA FollowUpsFinite ==
    \A S \in SUBSET FollowUp : IsFiniteSet(S) /\ Cardinality(S) \in Nat
  BY Kinds, FS_Subset, FS_CardinalityType

LEMMA QueueFinite ==
    ASSUME TypeOK, Doing
    PROVE  Queue \subseteq FollowUp
  BY StateFields, Kinds DEF TypeOK, Doing, Queue, Others, Following

LEMMA DressedMore ==
    ASSUME IInv, mode # "none", NEW i \in Durable, dressed' = dressed \union {Named(mem, i)},
           i \in Channel => Role \subseteq Mapped(mem, Role) /\ stage # "save",
           made' = made, layout' = layout, cutShort' = cutShort, disk' = disk \/ disk' = mem
    PROVE  /\ Good(mem, made', dressed', layout'.holds, cutShort')
           /\ Good(disk, made, dressed, layout.holds, cutShort)'
           /\ dressed' \subseteq Durable \X Nat
<1>1. /\ Good(mem, made, dressed, layout.holds, cutShort)
      /\ Good(disk, made, dressed, layout.holds, cutShort) /\ Lockstep /\ TypeOK
  BY DEF IInv, Records
<1>2. made \in [Resource -> Nat] /\ mem.map[i] \in Nat /\ \A j \in Resource : made[j] <= made[j]
  BY <1>1, Shapes, Kinds
<1>3. \A c \in Channel, n \in Nat : <<c, n>> \in dressed' =>
          <<c, n>> \in dressed \/ (c = i /\ \A r \in Role : mem.map[r] # 0)
  BY DEF Named, Mapped
<1>4. \A r \in Role : stage # "save" => disk.map[r] = mem.map[r]
  BY <1>1, Kinds DEF Lockstep
<1>5. \A c \in Channel, n \in Nat : <<c, n>> \in dressed' =>
          <<c, n>> \in dressed \/ \A r \in Role : disk.map[r] # 0
  <2> SUFFICES ASSUME NEW c \in Channel, NEW n \in Nat, <<c, n>> \in dressed', <<c, n>> \notin dressed
               PROVE  \A r \in Role : disk.map[r] # 0
    OBVIOUS
  <2>1. c = i /\ \A r \in Role : mem.map[r] # 0
    BY <1>3
  <2>. QED  BY <2>1, <1>4
<1>6. dressed \subseteq dressed'
  OBVIOUS
<1>7. Good(mem, made, dressed', layout.holds, cutShort)
  BY <1>1, <1>2, <1>3, <1>6, GoodMore
<1>8. Good(disk, made, dressed', layout.holds, cutShort)
  BY <1>1, <1>2, <1>5, <1>6, GoodMore
<1>9. dressed' \subseteq Durable \X Nat
  BY <1>1, <1>2 DEF TypeOK, Named
<1>. QED  BY <1>7, <1>8, <1>9

LEMMA GoodMade ==
    ASSUME NEW s, NEW m, NEW d, NEW h, NEW cut, NEW m2 \in [Resource -> Nat],
           Good(s, m, d, h, cut), m \in [Resource -> Nat], \A j \in Resource : m[j] <= m2[j]
    PROVE  Good(s, m2, d, h, cut)
<1>1. \A c \in Channel, n \in Nat : <<c, n>> \in d => <<c, n>> \in d
  OBVIOUS
<1>. QED  BY <1>1, GoodMore

\* A copy is made that the record in memory does not name.
LEMMA MadeMore ==
    ASSUME IInv, mode # "none", NEW i \in Resource, mem.map[i] = 0,
           made' = [made EXCEPT ![i] = made[i] + 1]
    PROVE  /\ made' \in [Resource -> 0..MaxRuns + MaxLosses] /\ made' \in [Resource -> Nat]
           /\ made'[i] = made[i] + 1 /\ made'[i] \in Nat
           /\ \A j \in Resource : j # i => made'[j] = made[j]
           /\ Good(mem, made', dressed, layout.holds, cutShort)
           /\ Good(disk, made', dressed, layout.holds, cutShort)
<1>1. /\ Good(mem, made, dressed, layout.holds, cutShort)
      /\ Good(disk, made, dressed, layout.holds, cutShort) /\ Numbers /\ TypeOK
  BY DEF IInv, Records
<1>2. /\ made \in [Resource -> Nat] /\ made[i] \in Nat /\ runs \in Nat /\ losses \in Nat
      /\ runs <= MaxRuns /\ losses <= MaxLosses /\ \A j \in Resource : made[j] \in Nat
  BY <1>1, Shapes
<1>3. /\ made'[i] = made[i] + 1 /\ \A j \in Resource : j # i => made'[j] = made[j]
  BY <1>2
<1>4. made[i] + 1 \in Nat /\ made[i] + 1 <= MaxRuns + MaxLosses
  BY <1>1, <1>2, Limits DEF Numbers
<1>5. made' \in [Resource -> 0..MaxRuns + MaxLosses]
  <2>1. made[i] + 1 \in 0..MaxRuns + MaxLosses
    BY <1>4, Limits
  <2>2. made \in [Resource -> 0..MaxRuns + MaxLosses]
    BY <1>1 DEF TypeOK
  <2>. QED  BY <2>1, <2>2
<1>6. made' \in [Resource -> Nat]
  BY <1>2, <1>4
<1>7. \A j \in Resource : made[j] <= made'[j]
  BY <1>2, <1>3
<1>9. Good(mem, made', dressed, layout.holds, cutShort) /\ Good(disk, made', dressed, layout.holds, cutShort)
  BY <1>1, <1>2, <1>6, <1>7, GoodMade
<1>. QED  BY <1>3, <1>4, <1>5, <1>6, <1>9

\* The record names a new copy of a resource it did not name.
LEMMA GoodNamed ==
    ASSUME NEW s, NEW t, NEW m, NEW d, NEW h, NEW cut, NEW i,
           Good(s, m, d, h, cut), t \in State, s.map[i] = 0, t.map[i] # 0, t.map[i] <= m[i],
           \A j \in Resource : j # i => t.map[j] = s.map[j],
           i \in Role => Rank(t.phase) <= 3,
           t.placed = s.placed, t.finalized = s.finalized, t.sent = s.sent, t.phase = s.phase
    PROVE  Good(t, m, d, h, cut)
<1>1. /\ s \in State /\ s.placed \subseteq Channel /\ s.finalized \subseteq Role /\ s.sent \subseteq FollowUp
      /\ Channel \subseteq Resource /\ Role \subseteq Resource /\ \A f \in FollowUp : Home[f] \in Channel
      /\ Rank(t.phase) \in 0..11
  BY StateFields, Kinds, Names DEF Good
<1>2. \A j \in Resource : t.map[j] <= m[j]
  BY DEF Good
<1>3. \A c \in t.placed : t.map[c] # 0
  BY <1>1 DEF Good
<1>4. \A r \in t.finalized : t.map[r] # 0 /\ <<r, t.map[r]>> \in d
  <2> SUFFICES ASSUME NEW r \in t.finalized PROVE t.map[r] # 0 /\ <<r, t.map[r]>> \in d
    OBVIOUS
  <2>1. s.map[r] # 0 /\ <<r, s.map[r]>> \in d /\ r \in Resource
    BY <1>1 DEF Good
  <2>2. t.map[r] = s.map[r]
    BY <2>1
  <2>. QED  BY <2>1, <2>2
<1>5. \A f \in t.sent : t.map[Home[f]] # 0 /\ <<Home[f], t.map[Home[f]]>> \in d
  <2> SUFFICES ASSUME NEW f \in t.sent PROVE t.map[Home[f]] # 0 /\ <<Home[f], t.map[Home[f]]>> \in d
    OBVIOUS
  <2>1. s.map[Home[f]] # 0 /\ <<Home[f], s.map[Home[f]]>> \in d /\ Home[f] \in Resource
    BY <1>1 DEF Good
  <2>2. t.map[Home[f]] = s.map[Home[f]]
    BY <2>1
  <2>. QED  BY <2>1, <2>2
<1>6. \A c \in Channel, n \in Nat : <<c, n>> \in h => c \in t.placed /\ t.map[c] = n
  BY <1>1 DEF Good
<1>7. \A c \in Channel, n \in Nat, r \in Role : <<c, n>> \in d => t.map[r] # 0
  BY <1>1 DEF Good
<1>8. ~cut /\ Rank(t.phase) > 3 => \A r \in Role : t.map[r] # 0 => r \in t.finalized
  BY <1>1 DEF Good
<1>. QED  BY <1>2, <1>3, <1>4, <1>5, <1>6, <1>7, <1>8 DEF Good

LEMMA GoodNamedNext ==
    ASSUME NEW i, Good(mem, made', dressed, layout.holds, cutShort), mem' \in State,
           mem.map[i] = 0, mem'.map[i] # 0, mem'.map[i] <= made'[i],
           \A j \in Resource : j # i => mem'.map[j] = mem.map[j],
           i \in Role => Rank(mem'.phase) <= 3,
           mem'.placed = mem.placed, mem'.finalized = mem.finalized, mem'.sent = mem.sent,
           mem'.phase = mem.phase
    PROVE  Good(mem', made', dressed, layout.holds, cutShort)
  BY GoodNamed

\* The record in memory with the new copy.
LEMMA NewCopy ==
    ASSUME IInv, mode # "none", NEW i \in Resource, mem.map[i] = 0, cutShort' = cutShort,
           made' = [made EXCEPT ![i] = made[i] + 1],
           mem' = [mem EXCEPT !.map[i] = made[i] + 1],
           i \in Role => Rank(mem.phase) <= 3,
           dressed' = dressed, layout' = layout
    PROVE  /\ mem' \in State /\ mem'.map[i] = made[i] + 1 /\ mem'.map[i] # 0
           /\ \A j \in Resource : j # i => mem'.map[j] = mem.map[j]
           /\ mem'.finalized = mem.finalized /\ mem'.cats = mem.cats /\ mem'.sent = mem.sent
           /\ mem'.pending = mem.pending /\ mem'.counted = mem.counted /\ mem'.capped = mem.capped
           /\ mem'.phase = mem.phase /\ mem'.placed = mem.placed
           /\ Good(mem, made, dressed, layout.holds, cutShort)'
           /\ Good(disk, made', dressed', layout'.holds, cutShort')
<1>1. TypeOK /\ mem \in State /\ made \in [Resource -> Nat] /\ mem.map \in [Resource -> Nat]
  BY Shapes, StateFields DEF IInv
<1>2. [mem.map EXCEPT ![i] = made[i] + 1] \in [Resource -> Nat]
  BY <1>1
<1>3. mem' = [mem EXCEPT !.map = [mem.map EXCEPT ![i] = made[i] + 1]]
  OBVIOUS
<1>4. mem' \in State
  <2>1. [mem EXCEPT !.map = [mem.map EXCEPT ![i] = made[i] + 1]] \in State
    BY <1>1, <1>2, StateWith, Zenon
  <2>. QED  BY <2>1, <1>3
<1>5. /\ mem'.map = [mem.map EXCEPT ![i] = made[i] + 1]
      /\ mem'.finalized = mem.finalized /\ mem'.cats = mem.cats /\ mem'.sent = mem.sent
      /\ mem'.pending = mem.pending /\ mem'.counted = mem.counted /\ mem'.capped = mem.capped
      /\ mem'.phase = mem.phase /\ mem'.placed = mem.placed
  BY <1>1, <1>3 DEF State
<1>6. /\ mem'.map[i] = made[i] + 1 /\ made[i] + 1 # 0
      /\ \A j \in Resource : j # i => mem'.map[j] = mem.map[j]
  BY <1>1, <1>5
<1>7. /\ made'[i] = made[i] + 1 /\ made'[i] \in Nat
      /\ Good(mem, made', dressed, layout.holds, cutShort)
      /\ Good(disk, made', dressed, layout.holds, cutShort)
  BY MadeMore
<1>8. mem'.map[i] <= made'[i]
  BY <1>6, <1>7
<1>9. i \in Role => Rank(mem'.phase) <= 3
  BY <1>5
<1>11. mem.map[i] = 0
  OBVIOUS
<1>10. Good(mem', made', dressed, layout.holds, cutShort)
  <2>. HIDE DEF Good
  <2>. QED  BY <1>4, <1>5, <1>6, <1>7, <1>8, <1>9, <1>11, GoodNamedNext
<1>. QED  BY <1>4, <1>5, <1>6, <1>7, <1>10

-----------------------------------------------------------------------------
(* How a run starts.                                                       *)

LEMMA EmptyStateIs ==
    /\ EmptyState \in State /\ Rank(EmptyState.phase) = 0 /\ EmptyState.sent = {} /\ EmptyState.pending = {}
    /\ EmptyState.capped = {} /\ EmptyState.counted = 0 /\ EmptyState.placed = {} /\ EmptyState.finalized = {}
    /\ EmptyState.cats = {} /\ EmptyState.phase = NoPhase
    /\ \A i \in Resource : EmptyState.map[i] = 0
  BY Ranks DEF EmptyState, State

LEMMA InitHolds ==
    ASSUME Init
    PROVE  IInv
<1>h. /\ \A i \in Resource : made[i] = 0
      /\ dressed = {} /\ applied = {} /\ layout.holds = {} /\ disk = EmptyState /\ mem = EmptyState /\ mode = "none"
      /\ seen = {} /\ phase = "between" /\ next = 1 /\ stage = "loop" /\ hand = "server" /\ todo = {} /\ rest = {}
      /\ recounted = FALSE /\ cutShort = FALSE /\ runs = 0 /\ ends = 0 /\ losses = 0
  BY DEF Init
<1>1. TypeOK
  <2>1. /\ "server" \in Resource /\ 1 \in 1..Len(PHASE_ORDER) /\ 0 \in 0..MaxRuns + MaxLosses
        /\ 0 \in 0..MaxRuns /\ 0 \in 0..MaxEnds /\ 0 \in 0..MaxLosses
    BY Kinds, PhaseOrder, Limits
  <2>. QED  BY <2>1, EmptyStateIs DEF Init, TypeOK
<1>2. Records
  <2>1. Good(disk, made, dressed, layout.holds, cutShort)
    <3>1. \A i \in Resource : disk.map[i] <= made[i]
      BY <1>h, EmptyStateIs
    <3>2. ~(Rank(disk.phase) > 3)
      BY <1>h, EmptyStateIs
    <3>. QED  BY <1>h, <3>1, <3>2, EmptyStateIs DEF Good
  <2>2. Balance(disk, disk.pending, recounted)
    <3>1. Cardinality({}) = 0
      BY FS_EmptySet
    <3>. QED  BY <1>h, <3>1, EmptyStateIs DEF Balance
  <2>. QED  BY <1>h, <2>1, <2>2 DEF Records
<1>3. Position /\ Lockstep /\ Handled /\ Doing /\ Granting /\ ChannelsDressed /\ Placed
  BY <1>h DEF Position, Lockstep, Handled, Doing, Granting, ChannelsDressed, Placed, Following
<1>4. Past
  <2>1. ~(Rank(disk.phase) > 5)
    BY <1>h, EmptyStateIs
  <2>. QED  BY <1>h, <2>1 DEF Past
<1>5. Numbers
  BY <1>h DEF Numbers
<1>6. OrphansExplained
  <2>1. Orphans(Known) = {}
    BY <1>h, Kinds DEF Orphans
  <2>2. Cardinality({}) = 0
    BY FS_EmptySet
  <2>. QED  BY <1>h, <2>1, <2>2 DEF OrphansExplained
<1>. QED  BY <1>1, <1>2, <1>3, <1>4, <1>5, <1>6 DEF IInv

LEMMA StutterKept ==
    ASSUME IInv, UNCHANGED vars
    PROVE  IInv'
<1>h. /\ made' = made /\ dressed' = dressed /\ layout' = layout /\ applied' = applied /\ disk' = disk /\ mem' = mem
      /\ mode' = mode /\ seen' = seen /\ phase' = phase /\ next' = next /\ stage' = stage /\ hand' = hand
      /\ todo' = todo /\ rest' = rest /\ cancel' = cancel /\ runs' = runs /\ ends' = ends /\ losses' = losses
      /\ recounted' = recounted /\ cutShort' = cutShort
  BY DEF vars, service, frame, bounds
<1>1. TypeOK'
  BY <1>h DEF IInv, TypeOK
<1>2. Records'
  BY <1>h DEF IInv, Records, Queue, Following, Others, Balance, Good
<1>3. Position'
  BY <1>h DEF IInv, Position, Unsaved
<1>4. Lockstep'
  BY <1>h DEF IInv, Lockstep
<1>5. Handled'
  BY <1>h DEF IInv, Handled, Named
<1>6. Doing'
  BY <1>h DEF IInv, Doing, Following, Others
<1>7. Granting'
  BY <1>h DEF IInv, Granting, Named
<1>8. ChannelsDressed'
  BY <1>h DEF IInv, ChannelsDressed, Named
<1>9. Placed'
  BY <1>h DEF IInv, Placed
<1>10. Past'
  BY <1>h DEF IInv, Past, Unsaved, Settled
<1>11. Numbers'
  BY <1>h DEF IInv, Numbers
<1>12. OrphansExplained'
  BY <1>h DEF IInv, Known, OrphansExplained, Orphans
<1>. QED  BY <1>1, <1>2, <1>3, <1>4, <1>5, <1>6, <1>7, <1>8, <1>9, <1>10, <1>11, <1>12 DEF IInv

\* How a run starts.
Starts(m, kept, exported) ==
    /\ mode = "none" /\ runs < MaxRuns
    /\ m = "fresh" <=> runs = 0
    /\ m = "resume" => exported = seen
    /\ Prepared(m, mem', exported)
    /\ mem' = Loaded(m, kept)
    /\ seen' = exported
    /\ disk' \in {disk, mem'}
    /\ mode' = m
    /\ runs' = runs + 1
    /\ Idle
    /\ UNCHANGED <<service, cancel, ends, losses, recounted, cutShort>>

LEMMA StartsKept ==
    ASSUME IInv, NEW m \in {"fresh"} \union Continuations, NEW kept \in SUBSET disk.pending,
           NEW exported \in (SUBSET Channel) \ {{}}, Starts(m, kept, exported)
    PROVE  IInv'
<1>i. /\ TypeOK /\ Records /\ Position /\ Lockstep /\ Handled /\ Doing /\ Granting
      /\ ChannelsDressed /\ Placed /\ Past /\ Numbers /\ OrphansExplained
  BY DEF IInv
<1>s. /\ runs \in Nat /\ ends \in Nat /\ losses \in Nat
      /\ runs <= MaxRuns /\ ends <= MaxEnds /\ losses <= MaxLosses
      /\ mem \in State /\ disk \in State /\ made \in [Resource -> Nat]
      /\ \A i \in Resource : made[i] \in Nat /\ mem.map[i] \in Nat /\ disk.map[i] \in Nat
      /\ next \in 1..11 /\ Rank(mem.phase) \in 0..11 /\ Rank(disk.phase) \in 0..11
      /\ mem.phase \in Name /\ disk.phase \in Name
  BY <1>i, Shapes
<1>h. /\ mode = "none" /\ runs < MaxRuns /\ mode' = m /\ runs' = runs + 1 /\ mem' = Loaded(m, kept) /\ seen' = exported
      /\ (disk' = disk \/ disk' = mem') /\ (m = "fresh" <=> runs = 0) /\ phase' = "between" /\ next' = 1 /\ stage' = "loop"
      /\ hand' = "server" /\ todo' = {} /\ rest' = {} /\ made' = made /\ dressed' = dressed /\ layout' = layout
      /\ applied' = applied /\ cancel' = cancel /\ ends' = ends /\ losses' = losses /\ recounted' = recounted
      /\ cutShort' = cutShort /\ m \in {"fresh", "resume", "incremental"} /\ m \in {"none", "fresh"} \union Continuations
  BY MigrationAssumption DEF Starts, Idle, service
<1>m. /\ mem' \in State /\ mem'.map = disk.map /\ mem'.placed = disk.placed /\ mem'.finalized = disk.finalized
      /\ mem'.sent = disk.sent /\ mem'.cats = disk.cats /\ mem'.counted = disk.counted
      /\ mem'.pending \subseteq disk.pending /\ mem'.capped \subseteq disk.capped
      /\ (m = "incremental" => mem'.phase = NoPhase) /\ (m # "incremental" => mem' = disk)
      /\ (m = "fresh" => mem'.phase = NoPhase)
  <2>1. CASE m = "fresh"
    <3>1. disk = EmptyState
      BY <1>i, <1>h, <2>1 DEF Numbers
    <3>. QED  BY <1>h, <2>1, <3>1, EmptyStateIs DEF Loaded
  <2>2. CASE m = "resume"
    BY <1>s, <1>h, <2>2 DEF Loaded
  <2>3. CASE m = "incremental"
    <3>1. mem' = [disk EXCEPT !.phase = NoPhase, !.pending = kept, !.tally = {}, !.capped = {}]
      BY <1>h, <2>3 DEF Loaded
    <3>2. kept \subseteq FollowUp
      BY <1>s, StateFields
    <3>3. mem' \in State
      BY <1>s, <3>1, <3>2 DEF State
    <3>. QED  BY <1>s, <2>3, <3>1, <3>3 DEF State
  <2>. QED  BY <1>h, <2>1, <2>2, <2>3
<1>g. Good(disk, made, dressed, layout.holds, cutShort) /\ Balance(disk, disk.pending, recounted)
  BY <1>i DEF Records
<1>1. TypeOK'
  <2>1. runs' \in 0..MaxRuns
    BY <1>s, <1>h, Limits
  <2>2. 1 \in 1..Len(PHASE_ORDER) /\ "server" \in Resource
    BY PhaseOrder, Kinds
  <2>3. disk' \in State
    BY <1>s, <1>h, <1>m
  <2>. QED  BY <1>i, <1>h, <1>m, <2>1, <2>2, <2>3 DEF TypeOK
<1>2. Records'
  <2>1. Good(mem', made, dressed, layout.holds, cutShort)
    <3>1. Rank(mem'.phase) > 3 => Rank(disk.phase) > 3
      BY <1>h, <1>m, Ranks
    <3>. HIDE DEF Good
    <3>. QED  BY <1>m, <1>g, <3>1, GoodSame
  <2>2. Balance(mem', mem'.pending, recounted)
    <3>1. /\ disk.pending \subseteq FollowUp /\ disk.capped \subseteq FollowUp /\ disk.counted \in Nat /\ disk.sent \subseteq FollowUp
      BY <1>s, StateFields DEF FollowUp
    <3>2. /\ Cardinality(mem'.pending) \in Nat /\ Cardinality(disk.pending) \in Nat
          /\ Cardinality(mem'.pending) <= Cardinality(disk.pending)
      BY <1>m, <3>1, FollowUpsFinite, SubsetCount
    <3>3. /\ Cardinality(mem'.capped) \in Nat /\ Cardinality(disk.capped) \in Nat
          /\ Cardinality(mem'.capped) <= Cardinality(disk.capped)
      BY <1>m, <3>1, FollowUpsFinite, SubsetCount
    <3>4. Cardinality(disk.sent) \in Nat
      BY <3>1, FollowUpsFinite
    <3>5. disk.counted + Cardinality(disk.pending) + Cardinality(disk.capped) <= Cardinality(disk.sent) =>
          disk.counted + Cardinality(mem'.pending) + Cardinality(mem'.capped) <= Cardinality(disk.sent)
      BY <3>1, <3>2, <3>3, <3>4
    <3>. QED  BY <1>m, <1>g, <3>5 DEF Balance
  <2>3. Queue' = mem'.pending
    BY <1>h DEF Queue, Following
  <2>4. Good(disk', made, dressed, layout.holds, cutShort) /\ Balance(disk', disk'.pending, recounted)
    BY <1>h, <1>g, <2>1, <2>2
  <2>5. Balance(mem', Queue', recounted)
    BY <2>2, <2>3
  <2>. QED  BY <1>h, <2>1, <2>4, <2>5 DEF Records
<1>3. Position'
  <2>1. Rank(mem'.phase) = 0 \/ (m = "resume" /\ 1 <= Rank(mem'.phase))
    BY <1>s, <1>h, <1>m, Ranks
  <2>2. m # "incremental" => Rank(disk'.phase) <= Rank(mem'.phase)
    BY <1>s, <1>h, <1>m
  <2>. QED  BY <1>h, <2>1, <2>2 DEF Position, Unsaved
<1>4. Lockstep'
  BY <1>h, <1>m DEF Lockstep
<1>5. Handled'
  BY <1>h DEF Handled
<1>6. Doing'
  BY <1>h DEF Doing, Following
<1>7. Granting'
  BY <1>h DEF Granting
<1>8. ChannelsDressed'
  <2>1. \A c \in Channel : mem'.map[c] # 0 => Named(mem', c) \in dressed
    BY <1>h DEF Starts, Prepared, CarriedDressed, Mapped
  <2>. QED  BY <1>h, <2>1 DEF ChannelsDressed, Named
<1>9. Placed'
  BY <1>h DEF Placed
<1>10. Past'
  <2>1. ~cutShort /\ Rank(mem'.phase) > 5 => m = "resume"
    BY <1>h, <1>m, Ranks
  <2>2. m = "resume" => seen' = seen
    BY <1>h DEF Starts
  <2>3. ~cutShort /\ Rank(disk.phase) > 5 => Settled(disk, seen, layout.cats, layout.holds)
    BY <1>i, <1>h DEF Past, Unsaved
  <2>4. ~cutShort /\ Rank(mem'.phase) > 5 => Settled(mem', seen', layout.cats, layout.holds)
    BY <1>m, <2>1, <2>2, <2>3
  <2>5. m # "incremental" => disk' = mem'
    BY <1>h, <1>m
  <2>. QED  BY <1>h, <2>4, <2>5 DEF Past, Unsaved
<1>11. Numbers'
  <2>1. \A i \in Resource : made[i] <= runs + 1 + losses /\ made[i] + 1 <= runs + 1 + losses
    BY <1>i, <1>s DEF Numbers
  <2>2. runs + 1 # 0 /\ exported # {}
    BY <1>s
  <2>. QED  BY <1>h, <2>1, <2>2 DEF Numbers
<1>12. OrphansExplained'
  <2>1. Known = disk /\ Known' = mem'
    BY <1>h DEF Known
  <2>2. \A i \in Durable : made'[i] = made[i] /\ Known'.map[i] = Known.map[i]
    BY <1>h, <1>m, <2>1
  <2>. QED  BY <1>i, <1>h, <2>2, OrphansKept
<1>. QED  BY <1>1, <1>2, <1>3, <1>4, <1>5, <1>6, <1>7, <1>8, <1>9, <1>10, <1>11, <1>12 DEF IInv

LEMMA BeginKept ==
    ASSUME IInv, NEW m \in {"fresh"} \union Continuations, Begin(m)
    PROVE  IInv'
<1>1. PICK kept \in SUBSET disk.pending, exported \in (SUBSET Channel) \ {{}} :
          /\ m = "resume" => exported = seen
          /\ Prepared(m, Loaded(m, kept), exported)
          /\ mem' = Loaded(m, kept)
          /\ seen' = exported
  BY DEF Begin
<1>2. Prepared(m, mem', exported)
  BY <1>1
<1>3. Starts(m, kept, exported)
  BY <1>1, <1>2 DEF Begin, Starts
<1>. QED  BY <1>3, StartsKept

-----------------------------------------------------------------------------
(* How it ends.                                                            *)

\* The run is over, and the record on disk says what the one in memory did.
LEMMA OrphansOver ==
    ASSUME IInv, mode # "none", mode' = "none", made' = made,
           \A i \in Durable : disk'.map[i] = mem.map[i],
           losses' = losses, ends' = ends \/ ends' = ends + 1
    PROVE  OrphansExplained'
<1>1. \A i \in Durable : made'[i] = made[i] /\ Known'.map[i] = Known.map[i]
  BY DEF Known
<1>2. TypeOK /\ OrphansExplained
  BY DEF IInv
<1>. QED  BY <1>1, <1>2, OrphansKept

LEMMA RunOverKept ==
    ASSUME IInv, mode # "none", mode' = "none", cancel' = FALSE, mem' = EmptyState, Idle,
           UNCHANGED <<made, layout, applied, seen, runs, losses>>,
           dressed' \subseteq Durable \X Nat, disk' \in State,
           Good(disk', made, dressed', layout.holds, cutShort'),
           Balance(disk', disk'.pending, recounted'),
           cutShort' \in BOOLEAN, recounted' \in BOOLEAN, ends' \in 0..MaxEnds,
           ~cutShort' /\ Rank(disk'.phase) > 5 => Settled(disk', seen, layout.cats, layout.holds),
           OrphansExplained'
    PROVE  IInv'
<1>i. /\ TypeOK /\ Records /\ Position /\ Lockstep /\ Handled /\ Doing /\ Granting
      /\ ChannelsDressed /\ Placed /\ Past /\ Numbers /\ OrphansExplained
  BY DEF IInv
<1>s. /\ runs \in Nat /\ ends \in Nat /\ losses \in Nat
      /\ runs <= MaxRuns /\ ends <= MaxEnds /\ losses <= MaxLosses
      /\ mem \in State /\ disk \in State /\ made \in [Resource -> Nat]
      /\ \A i \in Resource : made[i] \in Nat /\ mem.map[i] \in Nat /\ disk.map[i] \in Nat
      /\ next \in 1..11 /\ Rank(mem.phase) \in 0..11 /\ Rank(disk.phase) \in 0..11
      /\ mem.phase \in Name /\ disk.phase \in Name
  BY <1>i, Shapes
<1>h. /\ phase' = "between" /\ next' = 1 /\ stage' = "loop" /\ hand' = "server" /\ todo' = {} /\ rest' = {}
      /\ made' = made /\ layout' = layout /\ applied' = applied /\ seen' = seen /\ runs' = runs /\ losses' = losses
  BY DEF Idle
<1>1. TypeOK'
  <2>1. 1 \in 1..Len(PHASE_ORDER) /\ "server" \in Resource
    BY PhaseOrder, Kinds
  <2>. QED  BY <1>i, <1>h, <2>1, EmptyStateIs DEF TypeOK
<1>2. Records'
  BY <1>h DEF Records
<1>3. Position'
  BY <1>h DEF Position
<1>4. Lockstep'
  BY DEF Lockstep
<1>5. Handled'
  BY <1>h DEF Handled
<1>6. Doing'
  BY <1>h DEF Doing, Following
<1>7. Granting'
  BY <1>h DEF Granting
<1>8. ChannelsDressed'
  BY DEF ChannelsDressed
<1>9. Placed'
  BY <1>h DEF Placed
<1>10. Past'
  BY <1>h DEF Past
<1>11. Numbers'
  BY <1>i, <1>h DEF Numbers
<1>12. OrphansExplained'
  OBVIOUS
<1>. QED  BY <1>1, <1>2, <1>3, <1>4, <1>5, <1>6, <1>7, <1>8, <1>9, <1>10, <1>11, <1>12 DEF IInv

LEMMA StopMessagesKept ==
    ASSUME IInv, StopMessages
    PROVE  IInv'
<1>i. /\ TypeOK /\ Records /\ Position /\ Lockstep /\ Handled /\ Doing /\ Granting
      /\ ChannelsDressed /\ Placed /\ Past /\ Numbers /\ OrphansExplained
  BY DEF IInv
<1>s. /\ runs \in Nat /\ ends \in Nat /\ losses \in Nat
      /\ runs <= MaxRuns /\ ends <= MaxEnds /\ losses <= MaxLosses
      /\ mem \in State /\ disk \in State /\ made \in [Resource -> Nat]
      /\ \A i \in Resource : made[i] \in Nat /\ mem.map[i] \in Nat /\ disk.map[i] \in Nat
      /\ next \in 1..11 /\ Rank(mem.phase) \in 0..11 /\ Rank(disk.phase) \in 0..11
      /\ mem.phase \in Name /\ disk.phase \in Name
  BY <1>i, Shapes
<1>h. /\ mode # "none" /\ mode' = "none" /\ cancel' = FALSE /\ mem' = EmptyState /\ Idle
      /\ made' = made /\ layout' = layout /\ applied' = applied /\ seen' = seen /\ runs' = runs /\ losses' = losses
      /\ dressed' = dressed
      /\ phase = "messages" /\ disk' = mem /\ ends' = ends /\ recounted' = recounted /\ cutShort' = cutShort
      /\ ~Following /\ next = 8 /\ stage = "loop"
  <2>1. phase = "messages"
    BY DEF StopMessages
  <2>2. mode # "none" /\ next = 8
    BY <1>i, <1>s, <2>1, PhaseOrder, PhaseDistinct DEF Position
  <2>3. stage = "loop"
    BY <1>i, <2>1, StageOf DEF TypeOK
  <2>. QED  BY <2>1, <2>2, <2>3 DEF StopMessages, RunOver, service, Following
<1>g. /\ Good(mem, made, dressed, layout.holds, cutShort) /\ Good(disk, made, dressed, layout.holds, cutShort)
      /\ Balance(mem, Queue, recounted) /\ Balance(disk, disk.pending, recounted)
  BY <1>i, <1>h DEF Records
<1>t. cutShort \in BOOLEAN /\ recounted \in BOOLEAN /\ ends \in 0..MaxEnds /\ dressed \subseteq Durable \X Nat
  BY <1>i DEF TypeOK
<1>1. ~cutShort => Settled(mem, seen, layout.cats, layout.holds)
  BY <1>i, <1>h DEF Past
<1>2. Balance(mem, mem.pending, recounted)
  BY <1>h, <1>g DEF Queue
<1>3. OrphansExplained'
  <2>1. \A i \in Durable : disk'.map[i] = mem.map[i]
    BY <1>i, <1>h DEF Lockstep
  <2>. QED  BY <1>h, <2>1, OrphansOver
<1>. QED
  <2>. HIDE DEF Settled, Balance, Good, Idle
  <2>. QED  BY <1>i, <1>h, <1>s, <1>t, <1>g, <1>1, <1>2, <1>3, RunOverKept

LEMMA InterruptKept ==
    ASSUME IInv, Interrupt
    PROVE  IInv'
<1>i. /\ TypeOK /\ Records /\ Position /\ Lockstep /\ Handled /\ Doing /\ Granting
      /\ ChannelsDressed /\ Placed /\ Past /\ Numbers /\ OrphansExplained
  BY DEF IInv
<1>s. /\ runs \in Nat /\ ends \in Nat /\ losses \in Nat
      /\ runs <= MaxRuns /\ ends <= MaxEnds /\ losses <= MaxLosses
      /\ mem \in State /\ disk \in State /\ made \in [Resource -> Nat]
      /\ \A i \in Resource : made[i] \in Nat /\ mem.map[i] \in Nat /\ disk.map[i] \in Nat
      /\ next \in 1..11 /\ Rank(mem.phase) \in 0..11 /\ Rank(disk.phase) \in 0..11
      /\ mem.phase \in Name /\ disk.phase \in Name
  BY <1>i, Shapes
<1>h. /\ mode # "none" /\ mode' = "none" /\ cancel' = FALSE /\ mem' = EmptyState /\ Idle
      /\ made' = made /\ layout' = layout /\ applied' = applied /\ seen' = seen /\ runs' = runs /\ losses' = losses
      /\ dressed' = dressed
      /\ disk' = [mem EXCEPT !.phase = "report"] /\ ends' = ends + 1 /\ ends < MaxEnds /\ stage # "save" /\ cutShort' = TRUE
      /\ recounted' = (recounted \/ phase \in {"reactions", "pins"})
  BY DEF Interrupt, Fail, RunOver, service
<1>g. /\ Good(mem, made, dressed, layout.holds, cutShort) /\ Good(disk, made, dressed, layout.holds, cutShort)
      /\ Balance(mem, Queue, recounted) /\ Balance(disk, disk.pending, recounted)
  BY <1>i, <1>h DEF Records
<1>t. cutShort \in BOOLEAN /\ recounted \in BOOLEAN /\ ends \in 0..MaxEnds /\ dressed \subseteq Durable \X Nat
  BY <1>i DEF TypeOK
<1>e. ends + 1 \in 0..MaxEnds
  BY <1>s, <1>h, Limits
<1>m. /\ disk' \in State /\ disk'.phase = "report" /\ disk'.map = mem.map /\ disk'.finalized = mem.finalized /\ disk'.cats = mem.cats
      /\ disk'.sent = mem.sent /\ disk'.pending = mem.pending /\ disk'.counted = mem.counted /\ disk'.capped = mem.capped
      /\ disk'.placed = mem.placed
  <2>1. "report" \in Name
    BY DEF Name
  <2>2. disk' \in State
    BY <1>s, <1>h, <2>1, StateWith
  <2>. QED  BY <1>s, <1>h, <2>2 DEF State
<1>1. Good(disk', made, dressed, layout.holds, TRUE)
  <2>1. Good(mem, made, dressed, layout.holds, TRUE)
    BY <1>g DEF Good
  <2>. HIDE DEF Good
  <2>. QED  BY <1>m, <2>1, GoodSame
<1>2. Balance(disk', disk'.pending, recounted')
  <2>1. CASE Following
    BY <1>h, <2>1 DEF Balance, Following
  <2>2. CASE ~Following
    <3>1. Balance(mem, mem.pending, recounted)
      BY <1>g, <2>2 DEF Queue
    <3>2. recounted => recounted'
      BY <1>h
    <3>. QED  BY <1>m, <3>1, <3>2 DEF Balance
  <2>. QED  BY <2>1, <2>2
<1>3. OrphansExplained'
  <2>1. \A i \in Durable : disk'.map[i] = mem.map[i]
    BY <1>i, <1>h, <1>m DEF Lockstep
  <2>. QED  BY <1>h, <2>1, OrphansOver
<1>4. recounted' \in BOOLEAN
  BY <1>h, <1>t
<1>. QED
  <2>. HIDE DEF Settled, Balance, Good, Idle
  <2>. QED  BY <1>i, <1>h, <1>t, <1>e, <1>m, <1>1, <1>2, <1>3, <1>4, RunOverKept

LEMMA ReportKept ==
    ASSUME IInv, Report
    PROVE  IInv'
<1>i. /\ TypeOK /\ Records /\ Position /\ Lockstep /\ Handled /\ Doing /\ Granting
      /\ ChannelsDressed /\ Placed /\ Past /\ Numbers /\ OrphansExplained
  BY DEF IInv
<1>s. /\ runs \in Nat /\ ends \in Nat /\ losses \in Nat
      /\ runs <= MaxRuns /\ ends <= MaxEnds /\ losses <= MaxLosses
      /\ mem \in State /\ disk \in State /\ made \in [Resource -> Nat]
      /\ \A i \in Resource : made[i] \in Nat /\ mem.map[i] \in Nat /\ disk.map[i] \in Nat
      /\ next \in 1..11 /\ Rank(mem.phase) \in 0..11 /\ Rank(disk.phase) \in 0..11
      /\ mem.phase \in Name /\ disk.phase \in Name
  BY <1>i, Shapes
<1>h. /\ mode # "none" /\ mode' = "none" /\ cancel' = FALSE /\ mem' = EmptyState /\ Idle
      /\ made' = made /\ layout' = layout /\ applied' = applied /\ seen' = seen /\ runs' = runs /\ losses' = losses
      /\ dressed' = dressed
      /\ disk' = [mem EXCEPT !.phase = "report"] /\ ends' = ends /\ recounted' = recounted /\ cutShort' = cutShort
      /\ phase = "between" /\ next = 11 /\ ~Following /\ stage = "loop"
  <2>1. phase = "between" /\ next > Last
    BY DEF Report
  <2>2. stage = "loop"
    BY <1>i, <2>1 DEF TypeOK
  <2>3. next = 11
    BY <1>s, <2>1, PhaseOrder
  <2>. QED  BY <2>1, <2>2, <2>3 DEF Report, RunOver, service, Following
<1>g. /\ Good(mem, made, dressed, layout.holds, cutShort) /\ Good(disk, made, dressed, layout.holds, cutShort)
      /\ Balance(mem, Queue, recounted) /\ Balance(disk, disk.pending, recounted)
  BY <1>i, <1>h DEF Records
<1>t. cutShort \in BOOLEAN /\ recounted \in BOOLEAN /\ ends \in 0..MaxEnds /\ dressed \subseteq Durable \X Nat
  BY <1>i DEF TypeOK
<1>m. /\ disk' \in State /\ disk'.phase = "report" /\ disk'.map = mem.map /\ disk'.finalized = mem.finalized /\ disk'.cats = mem.cats
      /\ disk'.sent = mem.sent /\ disk'.pending = mem.pending /\ disk'.counted = mem.counted /\ disk'.capped = mem.capped
      /\ disk'.placed = mem.placed
  <2>1. "report" \in Name
    BY DEF Name
  <2>2. disk' \in State
    BY <1>s, <1>h, <2>1, StateWith
  <2>. QED  BY <1>s, <1>h, <2>2 DEF State
<1>1. /\ ~cutShort => \A r \in Role : mem.map[r] # 0 => r \in mem.finalized
      /\ ~cutShort => Settled(mem, seen, layout.cats, layout.holds)
  BY <1>i, <1>h DEF Past
<1>2. Good(disk', made, dressed, layout.holds, cutShort)
  <2>. HIDE DEF Good
  <2>. QED  BY <1>g, <1>m, <1>1, GoodSame
<1>3. Balance(disk', disk'.pending, recounted)
  BY <1>h, <1>g, <1>m DEF Queue, Balance
<1>4. ~cutShort => Settled(disk', seen, layout.cats, layout.holds)
  BY <1>m, <1>1 DEF Settled
<1>5. OrphansExplained'
  <2>1. \A i \in Durable : disk'.map[i] = mem.map[i]
    BY <1>i, <1>h, <1>m DEF Lockstep
  <2>. QED  BY <1>h, <2>1, OrphansOver
<1>. QED
  <2>. HIDE DEF Settled, Balance, Good, Idle
  <2>. QED  BY <1>i, <1>h, <1>s, <1>t, <1>m, <1>2, <1>3, <1>4, <1>5, RunOverKept

LEMMA RaiseKept ==
    ASSUME IInv, Raise
    PROVE  IInv'
<1>i. /\ TypeOK /\ Records /\ Position /\ Lockstep /\ Handled /\ Doing /\ Granting
      /\ ChannelsDressed /\ Placed /\ Past /\ Numbers /\ OrphansExplained
  BY DEF IInv
<1>s. /\ runs \in Nat /\ ends \in Nat /\ losses \in Nat
      /\ runs <= MaxRuns /\ ends <= MaxEnds /\ losses <= MaxLosses
      /\ mem \in State /\ disk \in State /\ made \in [Resource -> Nat]
      /\ \A i \in Resource : made[i] \in Nat /\ mem.map[i] \in Nat /\ disk.map[i] \in Nat
      /\ next \in 1..11 /\ Rank(mem.phase) \in 0..11 /\ Rank(disk.phase) \in 0..11
      /\ mem.phase \in Name /\ disk.phase \in Name
  BY <1>i, Shapes
<1>h. /\ mode # "none" /\ mode' = "none" /\ cancel' = FALSE /\ mem' = EmptyState /\ Idle
      /\ made' = made /\ layout' = layout /\ applied' = applied /\ seen' = seen /\ runs' = runs /\ losses' = losses
      /\ dressed' = dressed
      /\ ends' = ends + 1 /\ ends < MaxEnds /\ recounted' = recounted /\ cutShort' = cutShort
      /\ ~Following /\ phase # "between" /\ Rank(mem.phase) = next /\ stage # "save" /\ (phase = "categories" => next = 4)
      /\ disk' = (IF phase = "categories" THEN [mem EXCEPT !.cats = mem.cats \union SeenCategories] ELSE mem)
  <2>1. mode # "none" /\ phase \in {"connect", "server", "roles", "categories", "channels", "messages"} /\ stage # "save"
    BY DEF Raise
  <2>2. Rank(mem.phase) = next /\ (phase = "categories" => next = 4)
    BY <1>i, <1>s, <2>1, PhaseOrder, PhaseDistinct, RankOf DEF Position
  <2>. QED  BY <2>1, <2>2 DEF Raise, Fail, RunOver, service, Following
<1>g. /\ Good(mem, made, dressed, layout.holds, cutShort) /\ Good(disk, made, dressed, layout.holds, cutShort)
      /\ Balance(mem, Queue, recounted) /\ Balance(disk, disk.pending, recounted)
  BY <1>i, <1>h DEF Records
<1>t. cutShort \in BOOLEAN /\ recounted \in BOOLEAN /\ ends \in 0..MaxEnds /\ dressed \subseteq Durable \X Nat
  BY <1>i DEF TypeOK
<1>e. ends + 1 \in 0..MaxEnds
  BY <1>s, <1>h, Limits
<1>m. /\ disk' \in State /\ disk'.phase = mem.phase /\ disk'.map = mem.map /\ disk'.finalized = mem.finalized
      /\ disk'.sent = mem.sent /\ disk'.pending = mem.pending /\ disk'.counted = mem.counted /\ disk'.capped = mem.capped
      /\ disk'.placed = mem.placed /\ (next > 5 => disk' = mem)
  <2>1. CASE phase # "categories"
    BY <1>s, <1>h, <2>1
  <2>2. CASE phase = "categories"
    <3>1. SeenCategories \subseteq Category
      BY <1>i, MigrationAssumption DEF SeenCategories, TypeOK
    <3>2. mem.cats \union SeenCategories \in SUBSET Category
      BY <1>s, <3>1, StateFields
    <3>3. disk' = [mem EXCEPT !.cats = mem.cats \union SeenCategories]
      BY <1>h, <2>2
    <3>4. disk' \in State
      BY <1>s, <3>2, <3>3, StateWith
    <3>5. ~(next > 5)
      BY <1>h, <2>2
    <3>. QED  BY <1>s, <3>3, <3>4, <3>5 DEF State
  <2>. QED  BY <2>1, <2>2
<1>1. ~cutShort /\ next > 5 => Settled(mem, seen, layout.cats, layout.holds)
  BY <1>i, <1>h DEF Past
<1>2. Good(disk', made, dressed, layout.holds, cutShort)
  <2>. HIDE DEF Good
  <2>. QED  BY <1>g, <1>m, GoodSame
<1>3. Balance(disk', disk'.pending, recounted)
  BY <1>h, <1>g, <1>m DEF Queue, Balance
<1>4. ~cutShort /\ Rank(disk'.phase) > 5 => Settled(disk', seen, layout.cats, layout.holds)
  BY <1>h, <1>m, <1>1
<1>5. OrphansExplained'
  <2>1. \A i \in Durable : disk'.map[i] = mem.map[i]
    BY <1>i, <1>h, <1>m DEF Lockstep
  <2>. QED  BY <1>h, <2>1, OrphansOver
<1>. QED
  <2>. HIDE DEF Settled, Balance, Good, Idle
  <2>. QED  BY <1>i, <1>h, <1>s, <1>t, <1>e, <1>m, <1>2, <1>3, <1>4, <1>5, RunOverKept

LEMMA StopOnCancelKept ==
    ASSUME IInv, StopOnCancel
    PROVE  IInv'
<1>i. /\ TypeOK /\ Records /\ Position /\ Lockstep /\ Handled /\ Doing /\ Granting
      /\ ChannelsDressed /\ Placed /\ Past /\ Numbers /\ OrphansExplained
  BY DEF IInv
<1>s. /\ runs \in Nat /\ ends \in Nat /\ losses \in Nat
      /\ runs <= MaxRuns /\ ends <= MaxEnds /\ losses <= MaxLosses
      /\ mem \in State /\ disk \in State /\ made \in [Resource -> Nat]
      /\ \A i \in Resource : made[i] \in Nat /\ mem.map[i] \in Nat /\ disk.map[i] \in Nat
      /\ next \in 1..11 /\ Rank(mem.phase) \in 0..11 /\ Rank(disk.phase) \in 0..11
      /\ mem.phase \in Name /\ disk.phase \in Name
  BY <1>i, Shapes
<1>h. /\ mode # "none" /\ mode' = "none" /\ cancel' = FALSE /\ mem' = EmptyState /\ Idle
      /\ made' = made /\ layout' = layout /\ applied' = applied /\ seen' = seen /\ runs' = runs /\ losses' = losses
      /\ dressed' = dressed
      /\ ends' = ends /\ recounted' = recounted /\ cutShort' = cutShort /\ phase = "between" /\ ~Following /\ stage = "loop"
      /\ (disk' = mem \/ (disk' = disk /\ ~Unsaved))
  <2>1. phase = "between" /\ (disk' = mem \/ (disk' = disk /\ next > Last))
    BY <1>s, PhaseOrder DEF StopOnCancel
  <2>2. stage = "loop"
    BY <1>i, <2>1 DEF TypeOK
  <2>3. next > Last => ~Unsaved
    BY <1>s, PhaseOrder DEF Unsaved
  <2>. QED  BY <2>1, <2>2, <2>3 DEF StopOnCancel, RunOver, service, Following
<1>g. /\ Good(mem, made, dressed, layout.holds, cutShort) /\ Good(disk, made, dressed, layout.holds, cutShort)
      /\ Balance(mem, Queue, recounted) /\ Balance(disk, disk.pending, recounted)
  BY <1>i, <1>h DEF Records
<1>t. cutShort \in BOOLEAN /\ recounted \in BOOLEAN /\ ends \in 0..MaxEnds /\ dressed \subseteq Durable \X Nat
  BY <1>i DEF TypeOK
<1>1. ~cutShort /\ Rank(disk'.phase) > 5 => Settled(disk', seen, layout.cats, layout.holds)
  BY <1>i, <1>h DEF Past
<1>2. Good(disk', made, dressed, layout.holds, cutShort)
  <2>. HIDE DEF Good
  <2>. QED  BY <1>g, <1>h
<1>3. Balance(disk', disk'.pending, recounted)
  BY <1>h, <1>g DEF Queue
<1>4. OrphansExplained'
  <2>1. \A i \in Durable : disk'.map[i] = mem.map[i]
    BY <1>i, <1>h DEF Lockstep
  <2>. QED  BY <1>h, <2>1, OrphansOver
<1>5. disk' \in State
  BY <1>s, <1>h
<1>. QED
  <2>. HIDE DEF Settled, Balance, Good, Idle
  <2>. QED  BY <1>i, <1>h, <1>s, <1>t, <1>1, <1>2, <1>3, <1>4, <1>5, RunOverKept

LEMMA PermissionStopKept ==
    ASSUME IInv, NEW d, PermissionStop(d), ends' \in 0..MaxEnds, ends' = ends \/ ends' = ends + 1,
           d = dressed \/ (d = dressed \union {Named(mem, hand)} /\ Role \subseteq Mapped(mem, Role))
    PROVE  IInv'
<1>i. /\ TypeOK /\ Records /\ Position /\ Lockstep /\ Handled /\ Doing /\ Granting
      /\ ChannelsDressed /\ Placed /\ Past /\ Numbers /\ OrphansExplained
  BY DEF IInv
<1>s. /\ runs \in Nat /\ ends \in Nat /\ losses \in Nat
      /\ runs <= MaxRuns /\ ends <= MaxEnds /\ losses <= MaxLosses
      /\ mem \in State /\ disk \in State /\ made \in [Resource -> Nat]
      /\ \A i \in Resource : made[i] \in Nat /\ mem.map[i] \in Nat /\ disk.map[i] \in Nat
      /\ next \in 1..11 /\ Rank(mem.phase) \in 0..11 /\ Rank(disk.phase) \in 0..11
      /\ mem.phase \in Name /\ disk.phase \in Name
  BY <1>i, Shapes
<1>h. /\ mode # "none" /\ mode' = "none" /\ cancel' = FALSE /\ mem' = EmptyState /\ Idle
      /\ made' = made /\ layout' = layout /\ applied' = applied /\ seen' = seen /\ runs' = runs /\ losses' = losses
      /\ phase = "channels" /\ stage = "dress" /\ dressed' = d /\ disk' = mem /\ ~Following
      /\ recounted' = recounted /\ cutShort' = cutShort /\ Rank(mem.phase) = 5
  <2>1. phase = "channels" /\ stage = "dress"
    BY DEF PermissionStop
  <2>2. mode # "none" /\ Rank(mem.phase) = 5
    BY <1>i, <2>1, Ranks DEF Position
  <2>. QED  BY <2>1, <2>2 DEF PermissionStop, Following
<1>g. /\ Good(mem, made, dressed, layout.holds, cutShort) /\ Good(disk, made, dressed, layout.holds, cutShort)
      /\ Balance(mem, Queue, recounted) /\ Balance(disk, disk.pending, recounted)
  BY <1>i, <1>h DEF Records
<1>t. cutShort \in BOOLEAN /\ recounted \in BOOLEAN /\ ends \in 0..MaxEnds /\ dressed \subseteq Durable \X Nat
  BY <1>i DEF TypeOK
<1>1. Good(mem, made, dressed', layout.holds, cutShort) /\ dressed' \subseteq Durable \X Nat
  <2>1. CASE d = dressed
    BY <1>h, <1>g, <1>t, <2>1
  <2>2. CASE d = dressed \union {Named(mem, hand)} /\ Role \subseteq Mapped(mem, Role)
    <3>1. hand \in Channel /\ hand \in Durable
      BY <1>i, <1>h, Kinds DEF Handled
    <3>2. disk' = mem /\ dressed' = dressed \union {Named(mem, hand)} /\ stage # "save"
      BY <1>h, <2>2
    <3>3. Good(mem, made', dressed', layout'.holds, cutShort') /\ dressed' \subseteq Durable \X Nat
      <4>. HIDE DEF Good
      <4>. QED  BY <1>h, <2>2, <3>1, <3>2, DressedMore
    <3>. QED  BY <1>h, <3>3
  <2>. QED  BY <2>1, <2>2
<1>2. Balance(mem, mem.pending, recounted)
  BY <1>h, <1>g DEF Queue
<1>3. OrphansExplained'
  <2>1. \A i \in Durable : disk'.map[i] = mem.map[i]
    BY <1>i, <1>h DEF Lockstep
  <2>. QED  BY <1>h, <2>1, OrphansOver
<1>4. ~(Rank(disk'.phase) > 5)
  BY <1>h
<1>. QED
  <2>. HIDE DEF Settled, Balance, Good, Idle
  <2>. QED  BY <1>i, <1>h, <1>s, <1>t, <1>1, <1>2, <1>3, <1>4, RunOverKept

LEMMA DressStopsKept ==
    ASSUME IInv, DressRefused \/ DressUncertain
    PROVE  IInv'
<1>1. ends \in 0..MaxEnds /\ ends \in Nat
  BY Shapes DEF IInv, TypeOK
<1>2. CASE DressRefused
  BY <1>1, <1>2, PermissionStopKept DEF DressRefused
<1>3. CASE DressUncertain
  <2>1. ends < MaxEnds /\ ends' = ends + 1 /\ Role \subseteq Mapped(mem, Role)
    BY <1>3 DEF DressUncertain
  <2>2. ends + 1 \in 0..MaxEnds
    BY <1>1, <2>1, Limits
  <2>3. PICK d \in {dressed, dressed \union {Named(mem, hand)}} : PermissionStop(d)
    BY <1>3 DEF DressUncertain
  <2>. QED  BY <2>1, <2>2, <2>3, PermissionStopKept
<1>. QED  BY <1>2, <1>3

LEMMA CrashKept ==
    ASSUME IInv, Crash
    PROVE  IInv'
<1>i. /\ TypeOK /\ Records /\ Position /\ Lockstep /\ Handled /\ Doing /\ Granting
      /\ ChannelsDressed /\ Placed /\ Past /\ Numbers /\ OrphansExplained
  BY DEF IInv
<1>s. /\ runs \in Nat /\ ends \in Nat /\ losses \in Nat
      /\ runs <= MaxRuns /\ ends <= MaxEnds /\ losses <= MaxLosses
      /\ mem \in State /\ disk \in State /\ made \in [Resource -> Nat]
      /\ \A i \in Resource : made[i] \in Nat /\ mem.map[i] \in Nat /\ disk.map[i] \in Nat
      /\ next \in 1..11 /\ Rank(mem.phase) \in 0..11 /\ Rank(disk.phase) \in 0..11
      /\ mem.phase \in Name /\ disk.phase \in Name
  BY <1>i, Shapes
<1>h. /\ mode # "none" /\ mode' = "none" /\ cancel' = FALSE /\ mem' = EmptyState /\ Idle
      /\ made' = made /\ layout' = layout /\ applied' = applied /\ seen' = seen /\ runs' = runs /\ losses' = losses
      /\ dressed' = dressed
      /\ disk' = disk /\ ends' = ends + 1 /\ ends < MaxEnds /\ recounted' = recounted
      /\ cutShort' = (cutShort \/ (Unsaved /\ Rank(disk.phase) > Rank("connect")))
  BY DEF Crash, RunOver, service
<1>g. /\ Good(mem, made, dressed, layout.holds, cutShort) /\ Good(disk, made, dressed, layout.holds, cutShort)
      /\ Balance(mem, Queue, recounted) /\ Balance(disk, disk.pending, recounted)
  BY <1>i, <1>h DEF Records
<1>t. cutShort \in BOOLEAN /\ recounted \in BOOLEAN /\ ends \in 0..MaxEnds /\ dressed \subseteq Durable \X Nat
  BY <1>i DEF TypeOK
<1>e. ends + 1 \in 0..MaxEnds
  BY <1>s, <1>h, Limits
<1>c. /\ cutShort' \in BOOLEAN /\ (cutShort => cutShort')
      /\ (~cutShort' => ~cutShort /\ (Rank(disk.phase) > 5 => ~Unsaved))
  <2>1. Rank(disk.phase) > 5 => Rank(disk.phase) > Rank("connect")
    BY <1>s, Ranks
  <2>. QED  BY <1>h, <1>t, <2>1, Zenon
<1>1. ~cutShort' /\ Rank(disk.phase) > 5 => Settled(disk, seen, layout.cats, layout.holds)
  BY <1>i, <1>c DEF Past
<1>2. Good(disk, made, dressed, layout.holds, cutShort')
  BY <1>g, <1>c DEF Good
<1>3. OrphansExplained'
  <2>1. CASE stage # "save"
    <3>1. \A i \in Durable : disk'.map[i] = mem.map[i]
      BY <1>i, <1>h, <2>1 DEF Lockstep
    <3>. QED  BY <1>h, <3>1, OrphansOver
  <2>2. CASE stage = "save"
    <3>1. Known = mem /\ Known' = disk
      BY <1>h DEF Known
    <3>2. Orphans(disk)' \subseteq Orphans(mem) \union {<<hand, mem.map[hand]>>}
      <4>1. \A j, n : <<j, n>> \in Orphans(disk)' =>
                j \in Durable /\ n \in 1..MaxRuns + MaxLosses /\ n <= made'[j] /\ n # disk'.map[j]
        BY DEF Orphans
      <4>2. \A j \in Durable, n \in 1..MaxRuns + MaxLosses :
                n <= made'[j] /\ n # disk'.map[j] =>
                    n <= made[j] /\ (n # mem.map[j] \/ <<j, n>> = <<hand, mem.map[hand]>>)
        BY <1>i, <1>h DEF Lockstep
      <4>3. \A j, n : <<j, n>> \in Orphans(disk)' =>
                <<j, n>> \in Orphans(mem) \union {<<hand, mem.map[hand]>>}
        BY <4>1, <4>2, OrphansAre
      <4>. QED  BY <4>3 DEF Orphans
    <3>3. IsFiniteSet(Orphans(mem))
      BY OrphansAre
    <3>4. /\ Cardinality(Orphans(disk)') <= Cardinality(Orphans(mem)) + 1 /\ Cardinality(Orphans(disk)') \in Nat
          /\ Cardinality(Orphans(mem)) \in Nat
      BY <3>2, <3>3, AddCount, FS_CardinalityType
    <3>5. Cardinality(Orphans(mem)) <= losses + ends
      BY <1>i, <3>1 DEF OrphansExplained
    <3>6. Cardinality(Orphans(disk)') <= losses + (ends + 1)
      BY <1>s, <3>4, <3>5
    <3>7. Orphans(Known)' = Orphans(disk)'
      BY <1>h, <3>1 DEF Orphans
    <3>. QED  BY <1>h, <3>6, <3>7 DEF OrphansExplained
  <2>. QED  BY <2>1, <2>2
<1>. QED
  <2>. HIDE DEF Settled, Balance, Good, Idle
  <2>. QED  BY <1>i, <1>h, <1>s, <1>t, <1>e, <1>g, <1>c, <1>1, <1>2, <1>3, RunOverKept

LEMMA RequestCancelKept ==
    ASSUME IInv, RequestCancel
    PROVE  IInv'
<1>i. /\ TypeOK /\ Records /\ Position /\ Lockstep /\ Handled /\ Doing /\ Granting
      /\ ChannelsDressed /\ Placed /\ Past /\ Numbers /\ OrphansExplained
  BY DEF IInv
<1>s. /\ runs \in Nat /\ ends \in Nat /\ losses \in Nat
      /\ runs <= MaxRuns /\ ends <= MaxEnds /\ losses <= MaxLosses
      /\ mem \in State /\ disk \in State /\ made \in [Resource -> Nat]
      /\ \A i \in Resource : made[i] \in Nat /\ mem.map[i] \in Nat /\ disk.map[i] \in Nat
      /\ next \in 1..11 /\ Rank(mem.phase) \in 0..11 /\ Rank(disk.phase) \in 0..11
      /\ mem.phase \in Name /\ disk.phase \in Name
  BY <1>i, Shapes
<1>1. TypeOK'
  BY <1>i, <1>s, Kinds, StageOf, Limits, PhaseOrder DEF TypeOK, RequestCancel, vars, service, frame, bounds
<1>2. Records'
  BY <1>i, <1>s DEF Records, Queue, Following, Others, RequestCancel, vars, service, frame, bounds
<1>3. Position'
  BY <1>i, <1>s, PhaseOrder DEF Position, Unsaved, RequestCancel, vars, service, frame, bounds
<1>4. Lockstep'
  BY <1>i, <1>s DEF Lockstep, RequestCancel, vars, service, frame, bounds
<1>5. Handled'
  BY <1>i, <1>s DEF Handled, Named, RequestCancel, vars, service, frame, bounds
<1>6. Doing'
  BY <1>i, <1>s, Kinds DEF Doing, Following, Others, RequestCancel, vars, service, frame, bounds
<1>7. Granting'
  BY <1>i, <1>s DEF Granting, Named, RequestCancel, vars, service, frame, bounds
<1>8. ChannelsDressed'
  BY <1>i, <1>s DEF ChannelsDressed, Named, RequestCancel, vars, service, frame, bounds
<1>9. Placed'
  BY <1>i, <1>s DEF Placed, RequestCancel, vars, service, frame, bounds
<1>10. Past'
  BY <1>i, <1>s, PhaseOrder DEF Past, Unsaved, RequestCancel, vars, service, frame, bounds
<1>11. Numbers'
  BY <1>i, <1>s DEF Numbers, RequestCancel, vars, service, frame, bounds
<1>12. OrphansExplained'
  BY <1>i, <1>s, OrphansKept DEF Known, RequestCancel, vars, service, frame, bounds
<1>. QED  BY <1>1, <1>2, <1>3, <1>4, <1>5, <1>6, <1>7, <1>8, <1>9, <1>10, <1>11, <1>12 DEF IInv

-----------------------------------------------------------------------------
(* The loop of the phases.                                                 *)

LEMMA SkipKept ==
    ASSUME IInv, Skip
    PROVE  IInv'
<1>i. /\ TypeOK /\ Records /\ Position /\ Lockstep /\ Handled /\ Doing /\ Granting
      /\ ChannelsDressed /\ Placed /\ Past /\ Numbers /\ OrphansExplained
  BY DEF IInv
<1>s. /\ runs \in Nat /\ ends \in Nat /\ losses \in Nat
      /\ runs <= MaxRuns /\ ends <= MaxEnds /\ losses <= MaxLosses
      /\ mem \in State /\ disk \in State /\ made \in [Resource -> Nat]
      /\ \A i \in Resource : made[i] \in Nat /\ mem.map[i] \in Nat /\ disk.map[i] \in Nat
      /\ next \in 1..11 /\ Rank(mem.phase) \in 0..11 /\ Rank(disk.phase) \in 0..11
      /\ mem.phase \in Name /\ disk.phase \in Name
  BY <1>i, Shapes
<1>a. /\ mode = "resume" /\ next < Rank(mem.phase) /\ next' = next + 1 /\ mode' = mode /\ mem' = mem /\ disk' = disk
      /\ layout' = layout /\ seen' = seen /\ cutShort' = cutShort
  BY DEF Skip, SkipsCompleted, bounds, service
<1>b. /\ ~cutShort /\ Rank(mem.phase) > 3 => \A r \in Role : mem.map[r] # 0 => r \in mem.finalized
  BY <1>i, <1>a DEF Records, Good
<1>1. TypeOK'
  BY <1>i, <1>s, <1>a, <1>b, Kinds, StageOf, Limits, PhaseOrder DEF TypeOK, Skip, SkipsCompleted, vars, service, frame, bounds
<1>2. Records'
  BY <1>i, <1>s, <1>a, <1>b DEF Records, Queue, Following, Others, Skip, SkipsCompleted, vars, service, frame, bounds
<1>3. Position'
  BY <1>i, <1>s, <1>a, <1>b, PhaseOrder DEF Position, Unsaved, Skip, SkipsCompleted, vars, service, frame, bounds
<1>4. Lockstep'
  BY <1>i, <1>s, <1>a, <1>b DEF Lockstep, Skip, SkipsCompleted, vars, service, frame, bounds
<1>5. Handled'
  BY <1>i, <1>s, <1>a, <1>b DEF Handled, Named, Skip, SkipsCompleted, vars, service, frame, bounds
<1>6. Doing'
  BY <1>i, <1>s, <1>a, <1>b, Kinds DEF Doing, Following, Others, Skip, SkipsCompleted, vars, service, frame, bounds
<1>7. Granting'
  BY <1>i, <1>s, <1>a, <1>b DEF Granting, Named, Skip, SkipsCompleted, vars, service, frame, bounds
<1>8. ChannelsDressed'
  BY <1>i, <1>s, <1>a, <1>b DEF ChannelsDressed, Named, Skip, SkipsCompleted, vars, service, frame, bounds
<1>9. Placed'
  BY <1>i, <1>s, <1>a, <1>b DEF Placed, Skip, SkipsCompleted, vars, service, frame, bounds
<1>10. Past'
  BY <1>i, <1>s, <1>a, <1>b DEF Past, Unsaved
<1>11. Numbers'
  BY <1>i, <1>s, <1>a, <1>b DEF Numbers, Skip, SkipsCompleted, vars, service, frame, bounds
<1>12. OrphansExplained'
  BY <1>i, <1>s, <1>a, <1>b, OrphansKept DEF Known, Skip, SkipsCompleted, vars, service, frame, bounds
<1>. QED  BY <1>1, <1>2, <1>3, <1>4, <1>5, <1>6, <1>7, <1>8, <1>9, <1>10, <1>11, <1>12 DEF IInv

LEMMA EnterKept ==
    ASSUME IInv, Enter
    PROVE  IInv'
<1>i. /\ TypeOK /\ Records /\ Position /\ Lockstep /\ Handled /\ Doing /\ Granting
      /\ ChannelsDressed /\ Placed /\ Past /\ Numbers /\ OrphansExplained
  BY DEF IInv
<1>s. /\ runs \in Nat /\ ends \in Nat /\ losses \in Nat
      /\ runs <= MaxRuns /\ ends <= MaxEnds /\ losses <= MaxLosses
      /\ mem \in State /\ disk \in State /\ made \in [Resource -> Nat]
      /\ \A i \in Resource : made[i] \in Nat /\ mem.map[i] \in Nat /\ disk.map[i] \in Nat
      /\ next \in 1..11 /\ Rank(mem.phase) \in 0..11 /\ Rank(disk.phase) \in 0..11
      /\ mem.phase \in Name /\ disk.phase \in Name
  BY <1>i, Shapes
<1>h. /\ mode # "none" /\ phase = "between" /\ next <= Last /\ ~SkipsCompleted
      /\ phase' = PHASE_ORDER[next] /\ todo' = Work(phase') /\ rest' = {} /\ dressed' = dressed /\ layout' = layout
      /\ stage' = (IF phase' = "categories" THEN "upsert" ELSE "loop")
      /\ disk' = disk /\ mode' = mode /\ seen' = seen /\ next' = next /\ hand' = hand /\ made' = made
      /\ runs' = runs /\ losses' = losses /\ ends' = ends /\ recounted' = recounted /\ cutShort' = cutShort
      /\ cancel' = cancel /\ applied' = applied
  BY DEF Enter, bounds, service
<1>n. /\ next \in 1..10 /\ phase' \in Name \ {NoPhase} /\ Rank(phase') = next /\ phase' # "between" /\ phase' # "report"
  <2>1. next \in {1, 2, 3, 4, 5, 6, 7, 8, 9, 10}
    BY <1>s, <1>h, PhaseOrder
  <2>. QED  BY <1>h, <2>1, PhaseOrder, Names, Ranks
<1>w. mem' = [mem EXCEPT !.phase = phase']
  BY DEF Enter
<1>m. /\ mem' \in State /\ mem'.phase = phase' /\ mem'.map = mem.map /\ mem'.finalized = mem.finalized /\ mem'.cats = mem.cats
      /\ mem'.sent = mem.sent /\ mem'.pending = mem.pending /\ mem'.counted = mem.counted /\ mem'.capped = mem.capped
      /\ mem'.placed = mem.placed
  <2>1. mem' \in State
    BY <1>s, <1>n, <1>w, StateWith
  <2>. QED  BY <1>s, <1>w, <2>1 DEF State
<1>r. Rank(mem.phase) = next - 1 \/ Rank(mem.phase) = next
  BY <1>i, <1>s, <1>h, <1>n, Ranks DEF Position, SkipsCompleted
<1>q. /\ phase' \in {"server", "roles", "emoji", "avatars"} => \A i \in todo' : i \in Resource /\ mem.map[i] = 0
      /\ phase' = "server" => todo' \subseteq {"server"}
      /\ phase' = "roles" => todo' \subseteq Role
      /\ phase' = "channels" => todo' = seen
      /\ phase' = "emoji" => todo' \subseteq Emoji
      /\ phase' = "avatars" => todo' \subseteq Avatar
      /\ phase' = "messages" => todo' \subseteq FollowUp \ mem.sent
      /\ phase' = "reactions" => todo' = mem.pending \cap Reaction
      /\ phase' = "pins" => todo' = mem.pending \cap Pin
      /\ phase' \in {"connect", "categories"} => todo' = {}
  BY <1>h, Kinds DEF Work, Mapped
<1>1. TypeOK'
  <2>1. todo' \subseteq Resource \union FollowUp
    BY <1>i, <1>s, <1>n, <1>q, Kinds, StateFields DEF TypeOK, Name
  <2>2. phase' \in DOMAIN Stages /\ stage' \in Stages[phase']
    BY <1>h, <1>n, StageOf DEF Name
  <2>. QED  BY <1>i, <1>h, <1>n, <1>m, <2>1, <2>2 DEF TypeOK
<1>2. Records'
  <2>1. Queue = mem.pending
    BY <1>h DEF Queue, Following
  <2>2. Queue' = mem.pending
    <3>1. mem.pending \subseteq Reaction \union Pin
      BY <1>s, StateFields DEF FollowUp
    <3>2. CASE phase' = "reactions"
      <4>1. Queue' = (mem.pending \ Reaction) \union (mem.pending \cap Reaction)
        BY <1>h, <1>m, <1>q, <3>2 DEF Queue, Following, Others
      <4>. QED  BY <4>1
    <3>3. CASE phase' = "pins"
      <4>1. Queue' = (mem.pending \ Pin) \union (mem.pending \cap Pin)
        BY <1>h, <1>m, <1>q, <3>3 DEF Queue, Following, Others
      <4>. QED  BY <4>1
    <3>4. CASE phase' \notin {"reactions", "pins"}
      BY <1>m, <3>4 DEF Queue, Following
    <3>. QED  BY <3>2, <3>3, <3>4
  <2>3. Balance(mem', Queue', recounted)
    BY <1>i, <1>h, <1>m, <2>1, <2>2 DEF Records, Balance
  <2>4. Good(mem, made, dressed, layout.holds, cutShort) /\ Good(disk, made, dressed, layout.holds, cutShort)
    BY <1>i, <1>h DEF Records
  <2>5. ~cutShort /\ Rank(mem'.phase) > 3 => \A r \in Role : mem.map[r] # 0 => r \in mem.finalized
    BY <1>i, <1>h, <1>n, <1>m DEF Past
  <2>6. Good(mem', made, dressed, layout.holds, cutShort)
    <3>. HIDE DEF Good
    <3>. QED  BY <1>m, <2>4, <2>5, GoodSame
  <2>. QED  BY <1>i, <1>h, <2>3, <2>4, <2>6 DEF Records
<1>3. Position'
  BY <1>i, <1>s, <1>h, <1>n, <1>m, <1>r DEF Position, Unsaved
<1>4. Lockstep'
  <2>1. \A i \in Durable : disk.map[i] = mem.map[i]
    BY <1>i, <1>h DEF Lockstep, TypeOK
  <2>. QED  BY <1>h, <1>m, <2>1 DEF Lockstep
<1>5. Handled'
  BY <1>h DEF Handled
<1>6. Doing'
  <2>1. phase' = "reactions" => todo' \subseteq Reaction
    BY <1>q
  <2>2. phase' = "pins" => todo' \subseteq Pin
    BY <1>q
  <2>3. Following' => \A f \in mem'.pending \ Others' : f \in todo'
    BY <1>s, <1>h, <1>m, <1>q, StateFields DEF Following, Others, FollowUp
  <2>. QED  BY <1>h, <1>m, <1>q, <2>1, <2>2, <2>3 DEF Doing, Following
<1>7. Granting'
  BY <1>h DEF Granting
<1>8. ChannelsDressed'
  <2>1. \A c \in Channel : mem.map[c] # 0 => Named(mem, c) \in dressed
    BY <1>i, <1>h DEF ChannelsDressed
  <2>. QED  BY <1>h, <1>m, <2>1 DEF ChannelsDressed, Named
<1>9. Placed'
  BY <1>h, <1>q DEF Placed
<1>10. Past'
  <2>1. ~cutShort /\ next > 5 => Settled(mem', seen, layout.cats, layout.holds)
    BY <1>i, <1>h, <1>m DEF Past, Settled
  <2>2. ~cutShort /\ next > 3 => \A r \in Role : mem'.map[r] # 0 => r \in mem'.finalized
    BY <1>i, <1>h, <1>m DEF Past
  <2>. QED  BY <1>i, <1>h, <1>n, <1>m, <2>1, <2>2 DEF Past, Unsaved
<1>11. Numbers'
  BY <1>i, <1>h, <1>m, NumbersSame
<1>12. OrphansExplained'
  BY <1>i, <1>h, <1>m, OrphansInRun
<1>. QED  BY <1>1, <1>2, <1>3, <1>4, <1>5, <1>6, <1>7, <1>8, <1>9, <1>10, <1>11, <1>12 DEF IInv

\* The record at the end of a phase.
LEMMA GoodOver ==
    ASSUME NEW s, NEW t, NEW m, NEW d, NEW h, NEW cut, NEW h2, NEW cut2,
           Good(s, m, d, h, cut), t \in State, t.map = s.map, t.placed = s.placed, t.sent = s.sent,
           \A r \in t.finalized : s.map[r] # 0 /\ <<r, s.map[r]>> \in d,
           \A c \in Channel, n \in Nat : <<c, n>> \in h2 => c \in s.placed /\ s.map[c] = n,
           ~cut2 /\ Rank(t.phase) > 3 => \A r \in Role : s.map[r] # 0 => r \in t.finalized
    PROVE  Good(t, m, d, h2, cut2)
  BY DEF Good

LEMMA PhaseOverKept ==
    ASSUME IInv, mode # "none", phase # "between", stage \notin {"save", "dress"},
           PhaseOver(mem'), UNCHANGED <<made, dressed, applied>>,
           mem' \in State, mem'.map = mem.map, mem'.placed = mem.placed, mem'.sent = mem.sent,
           mem'.phase = mem.phase,
           \A r \in mem'.finalized : mem.map[r] # 0 /\ <<r, mem.map[r]>> \in dressed,
           ~cutShort /\ next >= 3 => \A r \in Role : mem.map[r] # 0 => r \in mem'.finalized,
           Balance(mem', mem'.pending, recounted),
           layout' \in [cats : SUBSET Category, holds : SUBSET (Channel \X Nat)],
           \A c \in Channel, n \in Nat : <<c, n>> \in layout'.holds => c \in mem.placed /\ mem.map[c] = n,
           ~cutShort /\ next >= 5 => Settled(mem', seen, layout'.cats, layout'.holds)
    PROVE  IInv'
<1>i. /\ TypeOK /\ Records /\ Position /\ Lockstep /\ Handled /\ Doing /\ Granting
      /\ ChannelsDressed /\ Placed /\ Past /\ Numbers /\ OrphansExplained
  BY DEF IInv
<1>s. /\ runs \in Nat /\ ends \in Nat /\ losses \in Nat
      /\ runs <= MaxRuns /\ ends <= MaxEnds /\ losses <= MaxLosses
      /\ mem \in State /\ disk \in State /\ made \in [Resource -> Nat]
      /\ \A i \in Resource : made[i] \in Nat /\ mem.map[i] \in Nat /\ disk.map[i] \in Nat
      /\ next \in 1..11 /\ Rank(mem.phase) \in 0..11 /\ Rank(disk.phase) \in 0..11
      /\ mem.phase \in Name /\ disk.phase \in Name
  BY <1>i, Shapes
<1>h. /\ disk' = mem' /\ phase' = "between" /\ next' = next + 1 /\ stage' = "loop" /\ todo' = {} /\ rest' = {}
      /\ cutShort' = (cutShort /\ phase # "connect") /\ made' = made /\ dressed' = dressed /\ applied' = applied
      /\ mode' = mode /\ seen' = seen /\ hand' = hand /\ cancel' = cancel /\ runs' = runs /\ ends' = ends
      /\ losses' = losses /\ recounted' = recounted
  BY DEF PhaseOver
<1>n. /\ next \in 1..10 /\ Rank(mem.phase) = next /\ next + 1 \in 1..11 /\ (phase = "connect" => next = 1)
  BY <1>i, <1>s, PhaseOrder, PhaseDistinct, Ranks, RankOf DEF Position
<1>c. next > 1 /\ ~cutShort' => ~cutShort
  <2>1. next > 1 => phase # "connect"
    BY <1>n
  <2>2. cutShort' = (cutShort /\ phase # "connect")
    BY <1>h
  <2>. QED  BY <2>1, <2>2, Zenon
<1>1. TypeOK'
  <2>1. next' \in 1..Len(PHASE_ORDER)
    BY <1>h, <1>n, PhaseOrder
  <2>2. cutShort' \in BOOLEAN
    BY <1>i, <1>h DEF TypeOK
  <2>. QED  BY <1>i, <1>h, <2>1, <2>2 DEF TypeOK
<1>2. Records'
  <2>1. Queue' = mem'.pending
    BY <1>h DEF Queue, Following
  <2>2. Good(mem, made, dressed, layout.holds, cutShort)
    BY <1>i DEF Records
  <2>3. ~cutShort' /\ Rank(mem'.phase) > 3 => \A r \in Role : mem.map[r] # 0 => r \in mem'.finalized
    <3>1. Rank(mem'.phase) = next
      BY <1>n
    <3>. QED  BY <1>n, <1>c, <3>1
  <2>4. Good(mem', made, dressed, layout'.holds, cutShort')
    <3>. HIDE DEF Good
    <3>. QED  BY <2>2, <2>3, GoodOver
  <2>5. Good(mem, made, dressed, layout.holds, cutShort)' /\ Good(disk, made, dressed, layout.holds, cutShort)'
    BY <1>h, <2>4
  <2>6. Balance(mem', Queue', recounted') /\ Balance(disk', disk'.pending, recounted')
    BY <1>h, <2>1
  <2>. QED  BY <2>5, <2>6 DEF Records
<1>3. Position'
  <2>1. Rank(mem'.phase) = next' - 1
    BY <1>s, <1>h, <1>n
  <2>2. Rank(disk'.phase) <= Rank(mem'.phase)
    BY <1>h, <1>n
  <2>. QED  BY <1>h, <2>1, <2>2 DEF Position
<1>4. Lockstep'
  BY <1>h DEF Lockstep
<1>5. Handled'
  BY <1>h DEF Handled
<1>6. Doing'
  BY <1>h DEF Doing, Following
<1>7. Granting'
  BY <1>h DEF Granting
<1>8. ChannelsDressed'
  BY <1>i, <1>h DEF ChannelsDressed, Named
<1>9. Placed'
  BY <1>h DEF Placed
<1>10. Past'
  <2>2. ~cutShort' /\ next + 1 > 3 => \A r \in Role : mem'.map[r] # 0 => r \in mem'.finalized
    BY <1>n, <1>c
  <2>3. ~cutShort' /\ (next + 1 > 5 \/ Rank(mem'.phase) > 5) => Settled(mem', seen, layout'.cats, layout'.holds)
    BY <1>n, <1>c
  <2>. QED  BY <1>h, <2>2, <2>3 DEF Past
<1>11. Numbers'
  BY <1>i, <1>h, NumbersSame
<1>12. OrphansExplained'
  <2>1. \A i \in Durable : made'[i] = made[i] /\ mem'.map[i] = mem.map[i]
    BY <1>h
  <2>. QED  BY <1>i, <1>h, <2>1, OrphansInRun
<1>. QED  BY <1>1, <1>2, <1>3, <1>4, <1>5, <1>6, <1>7, <1>8, <1>9, <1>10, <1>11, <1>12 DEF IInv

LEMMA EndPhaseKept ==
    ASSUME IInv, EndPhase
    PROVE  IInv'
<1>i. /\ TypeOK /\ Records /\ Position /\ Lockstep /\ Handled /\ Doing /\ Granting
      /\ ChannelsDressed /\ Placed /\ Past /\ Numbers /\ OrphansExplained
  BY DEF IInv
<1>s. /\ runs \in Nat /\ ends \in Nat /\ losses \in Nat
      /\ runs <= MaxRuns /\ ends <= MaxEnds /\ losses <= MaxLosses
      /\ mem \in State /\ disk \in State /\ made \in [Resource -> Nat]
      /\ \A i \in Resource : made[i] \in Nat /\ mem.map[i] \in Nat /\ disk.map[i] \in Nat
      /\ next \in 1..11 /\ Rank(mem.phase) \in 0..11 /\ Rank(disk.phase) \in 0..11
      /\ mem.phase \in Name /\ disk.phase \in Name
  BY <1>i, Shapes
<1>h. /\ mode # "none" /\ phase # "between" /\ stage = "loop" /\ PhaseOver(mem') /\ mem' = mem
      /\ made' = made /\ dressed' = dressed /\ applied' = applied /\ layout' = layout /\ ~Following
      /\ phase # "roles" /\ phase # "channels" /\ Rank(phase) = next
  <2>1. PhaseOver(mem) /\ phase \in {"connect", "server", "emoji", "avatars", "messages"}
    BY DEF EndPhase
  <2>2. mem' = mem
    BY <2>1 DEF PhaseOver
  <2>3. mode # "none" /\ phase = PHASE_ORDER[next] /\ next \in 1..11
    BY <1>i, <1>s, <2>1 DEF Position
  <2>. QED  BY <2>1, <2>2, <2>3, RankOf DEF EndPhase, service, Following
<1>g. Good(mem, made, dressed, layout.holds, cutShort)
  BY <1>i, <1>h DEF Records
<1>r. /\ \A r \in mem.finalized : mem.map[r] # 0 /\ <<r, mem.map[r]>> \in dressed
      /\ \A c \in Channel, n \in Nat : <<c, n>> \in layout.holds => c \in mem.placed /\ mem.map[c] = n
      /\ \A c \in mem.placed : mem.map[c] # 0
  BY <1>g DEF Good
<1>t. layout \in [cats : SUBSET Category, holds : SUBSET (Channel \X Nat)]
  BY <1>i DEF TypeOK
<1>b. Balance(mem, Queue, recounted)
  BY <1>i, <1>h DEF Records
<1>1. next # 3 /\ next # 5
  <2>1. phase = PHASE_ORDER[next]
    BY <1>i, <1>h DEF Position
  <2>. QED  BY <1>h, <2>1, PhaseOrder
<1>2. ~cutShort /\ next >= 3 => \A r \in Role : mem.map[r] # 0 => r \in mem.finalized
  BY <1>i, <1>s, <1>h, <1>1 DEF Past
<1>3. ~cutShort /\ next >= 5 => Settled(mem, seen, layout.cats, layout.holds)
  BY <1>i, <1>s, <1>h, <1>1 DEF Past
<1>4. Balance(mem, mem.pending, recounted)
  BY <1>h, <1>b DEF Queue
<1>5. stage \notin {"save", "dress"}
  BY <1>h
<1>. QED
  <2>. HIDE DEF Settled, Balance
  <2>. QED  BY <1>i, <1>h, <1>s, <1>r, <1>t, <1>2, <1>3, <1>4, <1>5, PhaseOverKept

-----------------------------------------------------------------------------
(* What the phases create.                                                 *)

LEMMA MakeKept ==
    ASSUME IInv, mode # "none", stage = "loop", NEW i \in todo, mem.map[i] = 0, Make(i, "save"),
           \/ phase = "server" /\ i = "server"
           \/ phase = "roles" /\ i \in Role
           \/ phase = "channels" /\ i \in Channel
    PROVE  IInv'
<1>i. /\ TypeOK /\ Records /\ Position /\ Lockstep /\ Handled /\ Doing /\ Granting
      /\ ChannelsDressed /\ Placed /\ Past /\ Numbers /\ OrphansExplained
  BY DEF IInv
<1>s. /\ runs \in Nat /\ ends \in Nat /\ losses \in Nat
      /\ runs <= MaxRuns /\ ends <= MaxEnds /\ losses <= MaxLosses
      /\ mem \in State /\ disk \in State /\ made \in [Resource -> Nat]
      /\ \A j \in Resource : made[j] \in Nat /\ mem.map[j] \in Nat /\ disk.map[j] \in Nat
      /\ next \in 1..11 /\ Rank(mem.phase) \in 0..11 /\ Rank(disk.phase) \in 0..11
      /\ mem.phase \in Name /\ disk.phase \in Name
  BY <1>i, Shapes
<1>b. i \in Resource /\ i \in Durable /\ mode # "none" /\ ~Following /\ next <= 5 /\ 1 < next /\ Rank(mem.phase) <= 5
      /\ (i \in Role => Rank(mem.phase) <= 3 /\ next <= 3) /\ (i \in Channel => phase = "channels")
  BY <1>i, <1>s, Kinds, PhaseOrder, PhaseDistinct, Ranks DEF Position, Following
<1>a. /\ made' = [made EXCEPT ![i] = made[i] + 1]
      /\ mem' = [mem EXCEPT !.map[i] = made[i] + 1]
      /\ hand' = i /\ todo' = todo \ {i} /\ stage' = "save"
      /\ UNCHANGED <<dressed, layout, applied, disk, mode, seen, phase, next, rest, cancel>>
      /\ UNCHANGED <<runs, ends, losses, recounted, cutShort>>
  BY DEF Make, bounds
<1>h. /\ hand' = i /\ todo' = todo \ {i} /\ stage' = "save" /\ dressed' = dressed /\ layout' = layout
      /\ disk' = disk /\ mode' = mode /\ seen' = seen /\ phase' = phase /\ next' = next /\ rest' = rest
      /\ runs' = runs /\ losses' = losses /\ ends' = ends /\ recounted' = recounted /\ cutShort' = cutShort
      /\ cancel' = cancel /\ applied' = applied
  BY <1>a
<1>g. /\ made' \in [Resource -> 0..MaxRuns + MaxLosses]
      /\ made'[i] = made[i] + 1 /\ \A j \in Resource : j # i => made'[j] = made[j]
  BY <1>a, <1>b, MadeMore
<1>m. /\ mem' \in State /\ mem'.map[i] = made[i] + 1 /\ mem'.map[i] # 0
      /\ \A j \in Resource : j # i => mem'.map[j] = mem.map[j]
      /\ mem'.finalized = mem.finalized /\ mem'.cats = mem.cats /\ mem'.sent = mem.sent
      /\ mem'.pending = mem.pending /\ mem'.counted = mem.counted /\ mem'.capped = mem.capped
      /\ mem'.phase = mem.phase /\ mem'.placed = mem.placed
      /\ Good(mem, made, dressed, layout.holds, cutShort)'
      /\ Good(disk, made', dressed', layout'.holds, cutShort')
  BY <1>a, <1>b, NewCopy
<1>1. TypeOK'
  BY <1>i, <1>b, <1>h, <1>g, <1>m, Kinds, StageOf DEF TypeOK
<1>2. Records'
  <2>1. Queue' = mem.pending /\ Queue = mem.pending
    BY <1>b, <1>h, <1>m DEF Queue, Following
  <2>2. Balance(mem', Queue', recounted)
    BY <1>i, <1>b, <1>m, <2>1 DEF Records, Balance
  <2>. QED  BY <1>i, <1>b, <1>h, <1>m, <2>2 DEF Records
<1>3. Position'
  BY <1>i, <1>h, <1>m DEF Position, Unsaved
<1>4. Lockstep'
  BY <1>i, <1>b, <1>h, <1>m, Kinds DEF Lockstep
<1>5. Handled'
  BY <1>i, <1>b, <1>h, <1>m DEF Handled
<1>6. Doing'
  BY <1>i, <1>b, <1>h, <1>m DEF Doing, Following
<1>7. Granting'
  BY <1>h DEF Granting
<1>8. ChannelsDressed'
  <2>1. \A c \in Channel : mem.map[c] # 0 => Named(mem, c) \in dressed
    BY <1>i, <1>b DEF ChannelsDressed
  <2>. QED  BY <1>b, <1>h, <1>m, <2>1, Kinds DEF ChannelsDressed, Named
<1>9. Placed'
  BY <1>i, <1>b, <1>h, <1>m DEF Placed
<1>10. Past'
  BY <1>i, <1>s, <1>b, <1>h, <1>m, Kinds DEF Past, Unsaved
<1>11. Numbers'
  <2>1. /\ made'[i] = made[i] + 1 /\ \A j \in Resource : j # i => made'[j] = made[j]
    BY <1>b, <1>g
  <2>2. \A j \in Resource : made'[j] <= runs + losses
    BY <1>i, <1>s, <1>b, <2>1 DEF Numbers
  <2>3. \A j \in Resource : mem'.map[j] = 0 => made'[j] + 1 <= runs + losses
    BY <1>i, <1>s, <1>b, <1>m, <2>1 DEF Numbers
  <2>. QED  BY <1>i, <1>h, <1>b, <2>2, <2>3 DEF Numbers
<1>12. OrphansExplained'
  <2>1. Known = mem /\ Known' = mem'
    BY <1>b, <1>h DEF Known
  <2>2. Orphans(mem)' \subseteq Orphans(mem)
    <3>1. \A j, n : <<j, n>> \in Orphans(mem)' =>
              j \in Durable /\ n \in 1..MaxRuns + MaxLosses /\ n <= made'[j] /\ n # mem'.map[j]
      BY DEF Orphans
    <3>2. \A j \in Durable, n \in 1..MaxRuns + MaxLosses :
              n <= made'[j] /\ n # mem'.map[j] => n <= made[j] /\ n # mem.map[j]
      BY <1>s, <1>b, <1>g, <1>m, Kinds, Limits
    <3>3. \A j, n : <<j, n>> \in Orphans(mem)' => <<j, n>> \in Orphans(mem)
      BY <3>1, <3>2, OrphansAre
    <3>. QED  BY <3>3 DEF Orphans
  <2>3. Cardinality(Orphans(mem)') <= Cardinality(Orphans(mem)) /\ Cardinality(Orphans(mem)) \in Nat
        /\ Cardinality(Orphans(mem)') \in Nat
    BY <2>2, OrphansAre, SubsetCount
  <2>4. Cardinality(Orphans(mem)') <= losses + ends
    BY <1>i, <1>s, <2>1, <2>3 DEF OrphansExplained
  <2>. QED  BY <1>h, <2>1, <2>4 DEF OrphansExplained
<1>. QED  BY <1>1, <1>2, <1>3, <1>4, <1>5, <1>6, <1>7, <1>8, <1>9, <1>10, <1>11, <1>12 DEF IInv

LEMMA CreatesKept ==
    ASSUME IInv, CreateServer \/ CreateRole \/ CreateChannel
    PROVE  IInv'
<1>1. Doing /\ TypeOK /\ Position
  BY DEF IInv
<1>2. CASE CreateServer
  <2>1. PICK i \in todo : Make(i, "save")
    BY <1>2 DEF CreateServer, ToCreate
  <2>. QED  BY <1>1, <1>2, <2>1, MakeKept DEF CreateServer, Creating, Doing
<1>3. CASE CreateRole
  <2>1. PICK i \in todo : Make(i, "save")
    BY <1>3 DEF CreateRole, ToCreate
  <2>. QED  BY <1>1, <1>3, <2>1, MakeKept DEF CreateRole, Creating, Doing
<1>4. CASE CreateChannel
  <2>1. PICK i \in todo : Make(i, "save") /\ mem.map[i] = 0
    BY <1>4 DEF CreateChannel, ToCreate
  <2>. QED  BY <1>1, <1>4, <2>1, MakeKept DEF CreateChannel, Creating, Doing, TypeOK
<1>. QED  BY <1>2, <1>3, <1>4

LEMMA CreateLostKept ==
    ASSUME IInv, CreateLost
    PROVE  IInv'
<1>i. /\ TypeOK /\ Records /\ Position /\ Lockstep /\ Handled /\ Doing /\ Granting
      /\ ChannelsDressed /\ Placed /\ Past /\ Numbers /\ OrphansExplained
  BY DEF IInv
<1>s. /\ runs \in Nat /\ ends \in Nat /\ losses \in Nat
      /\ runs <= MaxRuns /\ ends <= MaxEnds /\ losses <= MaxLosses
      /\ mem \in State /\ disk \in State /\ made \in [Resource -> Nat]
      /\ \A i \in Resource : made[i] \in Nat /\ mem.map[i] \in Nat /\ disk.map[i] \in Nat
      /\ next \in 1..11 /\ Rank(mem.phase) \in 0..11 /\ Rank(disk.phase) \in 0..11
      /\ mem.phase \in Name /\ disk.phase \in Name
  BY <1>i, Shapes
<1>c. PICK i \in ToCreate : made' = [made EXCEPT ![i] = made[i] + 1]
  BY DEF CreateLost
<1>b. i \in Resource /\ mem.map[i] = 0 /\ stage = "loop" /\ mode # "none"
  BY <1>i, <1>c, Kinds DEF ToCreate, CreateLost, Creating, Doing, TypeOK
<1>a. /\ dressed' = dressed /\ layout' = layout /\ cutShort' = cutShort /\ disk' = disk /\ mem' = mem /\ mode' = mode
      /\ recounted' = recounted /\ rest' = rest /\ phase' = phase /\ todo' = todo /\ runs' = runs
      /\ losses' = losses + 1 /\ ends' = ends /\ losses < MaxLosses
  BY DEF CreateLost, frame
<1>g. /\ made' \in [Resource -> 0..MaxRuns + MaxLosses] /\ made' \in [Resource -> Nat]
      /\ made'[i] = made[i] + 1 /\ made'[i] \in Nat
      /\ \A j \in Resource : j # i => made'[j] = made[j]
      /\ Good(mem, made', dressed, layout.holds, cutShort)
      /\ Good(disk, made', dressed, layout.holds, cutShort)
  BY <1>b, <1>c, MadeMore
<1>1. TypeOK'
  BY <1>i, <1>s, <1>c, <1>b, <1>a, <1>g, Kinds, StageOf, Limits, PhaseOrder DEF TypeOK, CreateLost, Creating, ToCreate, vars, service, frame, bounds
<1>2. Records'
  <2>1. Queue' = Queue
    BY <1>a DEF Queue, Following, Others
  <2>. QED  BY <1>i, <1>a, <1>b, <1>g, <2>1 DEF Records
<1>3. Position'
  BY <1>i, <1>s, <1>c, <1>b, <1>a, <1>g, PhaseOrder DEF Position, Unsaved, CreateLost, Creating, ToCreate, vars, service, frame, bounds
<1>4. Lockstep'
  BY <1>i, <1>s, <1>c, <1>b, <1>a, <1>g DEF Lockstep, CreateLost, Creating, ToCreate, vars, service, frame, bounds
<1>5. Handled'
  BY <1>i, <1>s, <1>c, <1>b, <1>a, <1>g DEF Handled, Named, CreateLost, Creating, ToCreate, vars, service, frame, bounds
<1>6. Doing'
  BY <1>i, <1>s, <1>c, <1>b, <1>a, <1>g, Kinds DEF Doing, Following, Others, CreateLost, Creating, ToCreate, vars, service, frame, bounds
<1>7. Granting'
  BY <1>i, <1>s, <1>c, <1>b, <1>a, <1>g DEF Granting, Named, CreateLost, Creating, ToCreate, vars, service, frame, bounds
<1>8. ChannelsDressed'
  BY <1>i, <1>s, <1>c, <1>b, <1>a, <1>g DEF ChannelsDressed, Named, CreateLost, Creating, ToCreate, vars, service, frame, bounds
<1>9. Placed'
  BY <1>i, <1>s, <1>c, <1>b, <1>a, <1>g DEF Placed, CreateLost, Creating, ToCreate, vars, service, frame, bounds
<1>10. Past'
  BY <1>i, <1>s, <1>c, <1>b, <1>a, <1>g, PhaseOrder DEF Past, Unsaved, CreateLost, Creating, ToCreate, vars, service, frame, bounds
<1>11. Numbers'
  BY <1>i, <1>s, <1>c, <1>b, <1>a, <1>g DEF Numbers, CreateLost, Creating, ToCreate, vars, service, frame, bounds
<1>12. OrphansExplained'
  <2>1. Known' = Known
    BY <1>a DEF Known
  <2>2. Orphans(Known)' \subseteq Orphans(Known) \union {<<i, made[i] + 1>>}
    <3>1. \A j, n : <<j, n>> \in Orphans(Known)' =>
              j \in Durable /\ n \in 1..MaxRuns + MaxLosses /\ n <= made'[j] /\ n # Known.map[j]
      BY <2>1 DEF Orphans
    <3>2. \A j, n : <<j, n>> \in Orphans(Known)' => <<j, n>> \in Orphans(Known) \/ (j = i /\ n = made[i] + 1)
      BY <1>s, <1>g, <3>1, OrphansAre, Kinds, Limits
    <3>. QED  BY <3>2 DEF Orphans
  <2>3. IsFiniteSet(Orphans(Known)) /\ Cardinality(Orphans(Known)) \in Nat
    BY OrphansAre, FS_CardinalityType
  <2>4. Cardinality(Orphans(Known)') <= Cardinality(Orphans(Known)) + 1 /\ Cardinality(Orphans(Known)') \in Nat
    BY <2>2, <2>3, AddCount
  <2>5. Cardinality(Orphans(Known)) <= losses + ends
    BY <1>i DEF OrphansExplained
  <2>6. Cardinality(Orphans(Known)') <= (losses + 1) + ends
    BY <1>s, <2>3, <2>4, <2>5
  <2>. QED  BY <1>a, <2>6 DEF OrphansExplained
<1>. QED  BY <1>1, <1>2, <1>3, <1>4, <1>5, <1>6, <1>7, <1>8, <1>9, <1>10, <1>11, <1>12 DEF IInv

LEMMA RolesFullKept ==
    ASSUME IInv, RolesFull
    PROVE  IInv'
<1>i. /\ TypeOK /\ Records /\ Position /\ Lockstep /\ Handled /\ Doing /\ Granting
      /\ ChannelsDressed /\ Placed /\ Past /\ Numbers /\ OrphansExplained
  BY DEF IInv
<1>s. /\ runs \in Nat /\ ends \in Nat /\ losses \in Nat
      /\ runs <= MaxRuns /\ ends <= MaxEnds /\ losses <= MaxLosses
      /\ mem \in State /\ disk \in State /\ made \in [Resource -> Nat]
      /\ \A i \in Resource : made[i] \in Nat /\ mem.map[i] \in Nat /\ disk.map[i] \in Nat
      /\ next \in 1..11 /\ Rank(mem.phase) \in 0..11 /\ Rank(disk.phase) \in 0..11
      /\ mem.phase \in Name /\ disk.phase \in Name
  BY <1>i, Shapes
<1>1. TypeOK'
  BY <1>i, <1>s, Kinds, StageOf, Limits, PhaseOrder DEF TypeOK, RolesFull, Creating, vars, service, frame, bounds
<1>2. Records'
  BY <1>i, <1>s DEF Records, Queue, Following, Others, RolesFull, Creating, vars, service, frame, bounds
<1>3. Position'
  BY <1>i, <1>s, PhaseOrder DEF Position, Unsaved, RolesFull, Creating, vars, service, frame, bounds
<1>4. Lockstep'
  BY <1>i, <1>s DEF Lockstep, RolesFull, Creating, vars, service, frame, bounds
<1>5. Handled'
  BY <1>i, <1>s DEF Handled, Named, RolesFull, Creating, vars, service, frame, bounds
<1>6. Doing'
  BY <1>i, <1>s, Kinds DEF Doing, Following, Others, RolesFull, Creating, vars, service, frame, bounds
<1>7. Granting'
  BY <1>i, <1>s DEF Granting, Named, RolesFull, Creating, vars, service, frame, bounds
<1>8. ChannelsDressed'
  BY <1>i, <1>s DEF ChannelsDressed, Named, RolesFull, Creating, vars, service, frame, bounds
<1>9. Placed'
  BY <1>i, <1>s DEF Placed, RolesFull, Creating, vars, service, frame, bounds
<1>10. Past'
  BY <1>i, <1>s, PhaseOrder DEF Past, Unsaved, RolesFull, Creating, vars, service, frame, bounds
<1>11. Numbers'
  BY <1>i, <1>s DEF Numbers, RolesFull, Creating, vars, service, frame, bounds
<1>12. OrphansExplained'
  BY <1>i, <1>s, OrphansKept DEF Known, RolesFull, Creating, vars, service, frame, bounds
<1>. QED  BY <1>1, <1>2, <1>3, <1>4, <1>5, <1>6, <1>7, <1>8, <1>9, <1>10, <1>11, <1>12 DEF IInv

LEMMA SaveCreatedKept ==
    ASSUME IInv, SaveCreated
    PROVE  IInv'
<1>i. /\ TypeOK /\ Records /\ Position /\ Lockstep /\ Handled /\ Doing /\ Granting
      /\ ChannelsDressed /\ Placed /\ Past /\ Numbers /\ OrphansExplained
  BY DEF IInv
<1>s. /\ runs \in Nat /\ ends \in Nat /\ losses \in Nat
      /\ runs <= MaxRuns /\ ends <= MaxEnds /\ losses <= MaxLosses
      /\ mem \in State /\ disk \in State /\ made \in [Resource -> Nat]
      /\ \A i \in Resource : made[i] \in Nat /\ mem.map[i] \in Nat /\ disk.map[i] \in Nat
      /\ next \in 1..11 /\ Rank(mem.phase) \in 0..11 /\ Rank(disk.phase) \in 0..11
      /\ mem.phase \in Name /\ disk.phase \in Name
  BY <1>i, Shapes
<1>a. /\ mode # "none" /\ ~Following /\ SaveCreated /\ disk' = mem /\ mem' = mem
  BY <1>i, StageOf DEF SaveCreated, Position, TypeOK, Following
<1>1. TypeOK'
  BY <1>i, <1>s, <1>a, Kinds, StageOf, Limits, PhaseOrder DEF TypeOK, SaveCreated, vars, service, frame, bounds
<1>2. Records'
  <2>1. Good(mem, made, dressed, layout.holds, cutShort) /\ Balance(mem, mem.pending, recounted)
    BY <1>i, <1>a DEF Records, Queue
  <2>2. Queue' = mem.pending
    BY <1>a DEF SaveCreated, Queue, Following
  <2>. QED  BY <1>a, <2>1, <2>2 DEF Records, SaveCreated, service, bounds
<1>3. Position'
  BY <1>i, <1>s, <1>a, PhaseOrder DEF Position, Unsaved, SaveCreated, vars, service, frame, bounds
<1>4. Lockstep'
  BY <1>i, <1>s, <1>a DEF Lockstep, SaveCreated, vars, service, frame, bounds
<1>5. Handled'
  BY <1>i, <1>s, <1>a DEF Handled, Named, SaveCreated, vars, service, frame, bounds
<1>6. Doing'
  BY <1>i, <1>s, <1>a, Kinds DEF Doing, Following, Others, SaveCreated, vars, service, frame, bounds
<1>7. Granting'
  BY <1>i, <1>s, <1>a DEF Granting, Named, SaveCreated, vars, service, frame, bounds
<1>8. ChannelsDressed'
  BY <1>i, <1>s, <1>a DEF ChannelsDressed, Named, SaveCreated, vars, service, frame, bounds
<1>9. Placed'
  BY <1>i, <1>s, <1>a DEF Placed, SaveCreated, vars, service, frame, bounds
<1>10. Past'
  BY <1>i, <1>s, <1>a, PastSame DEF SaveCreated, service, bounds
<1>11. Numbers'
  BY <1>i, <1>s, <1>a, NumbersSame DEF SaveCreated, service, bounds
<1>12. OrphansExplained'
  BY <1>i, <1>s, <1>a, OrphansInRun DEF SaveCreated, service, bounds
<1>. QED  BY <1>1, <1>2, <1>3, <1>4, <1>5, <1>6, <1>7, <1>8, <1>9, <1>10, <1>11, <1>12 DEF IInv

LEMMA RememberKept ==
    ASSUME IInv, mode # "none", stage = "loop", NEW i \in todo, mem.map[i] = 0, Remember(i),
           (phase = "emoji" /\ i \in Emoji) \/ (phase = "avatars" /\ i \in Avatar),
           disk' = disk \/ disk' = mem'
    PROVE  IInv'
<1>i. /\ TypeOK /\ Records /\ Position /\ Lockstep /\ Handled /\ Doing /\ Granting
      /\ ChannelsDressed /\ Placed /\ Past /\ Numbers /\ OrphansExplained
  BY DEF IInv
<1>s. /\ runs \in Nat /\ ends \in Nat /\ losses \in Nat
      /\ runs <= MaxRuns /\ ends <= MaxEnds /\ losses <= MaxLosses
      /\ mem \in State /\ disk \in State /\ made \in [Resource -> Nat]
      /\ \A j \in Resource : made[j] \in Nat /\ mem.map[j] \in Nat /\ disk.map[j] \in Nat
      /\ next \in 1..11 /\ Rank(mem.phase) \in 0..11 /\ Rank(disk.phase) \in 0..11
      /\ mem.phase \in Name /\ disk.phase \in Name
  BY <1>i, Shapes
<1>b. i \in Resource /\ i \notin Durable /\ ~Following /\ Rank(mem.phase) = next /\ next \in {6, 7}
      /\ phase # "between" /\ i \notin Role /\ i \notin Channel /\ \A j \in Durable : j # i
  BY <1>i, <1>s, Kinds, PhaseOrder, PhaseDistinct, Ranks DEF Position, Following
<1>a. /\ made' = [made EXCEPT ![i] = made[i] + 1]
      /\ mem' = [mem EXCEPT !.map[i] = made[i] + 1]
      /\ todo' = todo \ {i} /\ stage' = stage
      /\ UNCHANGED <<dressed, layout, applied, mode, seen, phase, next, rest, cancel>>
      /\ UNCHANGED <<runs, ends, losses, recounted, cutShort>>
  BY DEF Remember, bounds
<1>h. /\ hand' = hand /\ todo' = todo \ {i} /\ stage' = "loop" /\ dressed' = dressed /\ layout' = layout
      /\ (disk' = disk \/ disk' = mem') /\ mode' = mode /\ seen' = seen /\ phase' = phase /\ next' = next /\ rest' = rest
      /\ runs' = runs /\ losses' = losses /\ ends' = ends /\ recounted' = recounted /\ cutShort' = cutShort
      /\ cancel' = cancel /\ applied' = applied
  BY <1>a DEF Remember
<1>g. /\ made' \in [Resource -> 0..MaxRuns + MaxLosses]
      /\ made'[i] = made[i] + 1 /\ \A j \in Resource : j # i => made'[j] = made[j]
  BY <1>a, <1>b, MadeMore
<1>m. /\ mem' \in State /\ mem'.map[i] = made[i] + 1 /\ mem'.map[i] # 0
      /\ \A j \in Resource : j # i => mem'.map[j] = mem.map[j]
      /\ mem'.finalized = mem.finalized /\ mem'.cats = mem.cats /\ mem'.sent = mem.sent
      /\ mem'.pending = mem.pending /\ mem'.counted = mem.counted /\ mem'.capped = mem.capped
      /\ mem'.phase = mem.phase /\ mem'.placed = mem.placed
      /\ Good(mem, made, dressed, layout.holds, cutShort)'
      /\ Good(disk, made', dressed', layout'.holds, cutShort')
  BY <1>a, <1>b, NewCopy
<1>k. /\ \A j \in Durable : mem'.map[j] = mem.map[j] /\ made'[j] = made[j]
      /\ \A r \in Role : mem'.map[r] = mem.map[r]
      /\ \A c \in Channel : mem'.map[c] = mem.map[c]
  BY <1>b, <1>g, <1>m, Kinds
<1>1. TypeOK'
  <2>1. disk' \in State
    BY <1>s, <1>h, <1>m
  <2>. QED  BY <1>i, <1>b, <1>h, <1>g, <1>m, <2>1, Kinds, StageOf DEF TypeOK
<1>2. Records'
  <2>1. Queue' = mem.pending /\ Queue = mem.pending
    BY <1>b, <1>h, <1>m DEF Queue, Following
  <2>2. Balance(mem', Queue', recounted)
    BY <1>i, <1>b, <1>m, <2>1 DEF Records, Balance
  <2>3. Balance(disk', disk'.pending, recounted)
    BY <1>i, <1>h, <1>m, <2>1, <2>2 DEF Records
  <2>4. Good(disk', made', dressed', layout'.holds, cutShort')
    BY <1>h, <1>m
  <2>. QED  BY <1>h, <1>m, <2>2, <2>3, <2>4 DEF Records
<1>3. Position'
  BY <1>i, <1>s, <1>b, <1>h, <1>m DEF Position, Unsaved
<1>4. Lockstep'
  BY <1>i, <1>h, <1>k DEF Lockstep
<1>5. Handled'
  BY <1>h DEF Handled
<1>6. Doing'
  BY <1>i, <1>b, <1>h, <1>m DEF Doing, Following
<1>7. Granting'
  BY <1>h DEF Granting
<1>8. ChannelsDressed'
  <2>1. \A c \in Channel : mem.map[c] # 0 => Named(mem, c) \in dressed
    BY <1>i, <1>b DEF ChannelsDressed
  <2>. QED  BY <1>h, <1>k, <2>1 DEF ChannelsDressed, Named
<1>9. Placed'
  BY <1>h DEF Placed
<1>10. Past'
  <2>1. ~cutShort => Settled(mem, seen, layout.cats, layout.holds)
    BY <1>i, <1>b DEF Past
  <2>2. ~cutShort => Settled(mem', seen, layout.cats, layout.holds)
    <3>1. mem.placed \subseteq Channel /\ seen \subseteq Channel
      BY <1>i, <1>s, StateFields DEF TypeOK
    <3>2. /\ \A c \in seen : mem'.map[c] = mem.map[c]
          /\ \A c \in mem.placed \union seen : mem'.map[c] = mem.map[c]
      BY <1>k, <3>1
    <3>. QED  BY <1>m, <2>1, <3>2 DEF Settled
  <2>3. ~cutShort => \A r \in Role : mem'.map[r] # 0 => r \in mem'.finalized
    BY <1>i, <1>b, <1>m, <1>k DEF Past
  <2>. QED  BY <1>i, <1>b, <1>h, <2>2, <2>3 DEF Past, Unsaved
<1>11. Numbers'
  <2>1. /\ made'[i] = made[i] + 1 /\ \A j \in Resource : j # i => made'[j] = made[j]
    BY <1>b, <1>g
  <2>2. \A j \in Resource : made'[j] <= runs + losses
    BY <1>i, <1>s, <1>b, <2>1 DEF Numbers
  <2>3. \A j \in Resource : mem'.map[j] = 0 => made'[j] + 1 <= runs + losses
    BY <1>i, <1>s, <1>b, <1>m, <2>1 DEF Numbers
  <2>4. runs # 0
    BY <1>i DEF Numbers
  <2>. QED  BY <1>i, <1>h, <1>b, <2>2, <2>3, <2>4 DEF Numbers
<1>12. OrphansExplained'
  BY <1>i, <1>h, <1>k, OrphansInRun
<1>. QED  BY <1>1, <1>2, <1>3, <1>4, <1>5, <1>6, <1>7, <1>8, <1>9, <1>10, <1>11, <1>12 DEF IInv

LEMMA UploadsKept ==
    ASSUME IInv, CreateEmoji \/ UploadAvatar
    PROVE  IInv'
<1>1. Doing /\ TypeOK /\ Position
  BY DEF IInv
<1>2. CASE CreateEmoji
  <2>1. PICK i \in todo : Remember(i)
    BY <1>2 DEF CreateEmoji, ToCreate
  <2>2. mode # "none" /\ stage = "loop" /\ phase = "emoji" /\ disk' = disk
    BY <1>2 DEF CreateEmoji, Creating
  <2>3. i \in Emoji /\ mem.map[i] = 0
    BY <1>1, <2>2 DEF Doing
  <2>4. (phase = "emoji" /\ i \in Emoji) \/ (phase = "avatars" /\ i \in Avatar)
    BY <2>2, <2>3
  <2>5. disk' = disk \/ disk' = mem'
    BY <2>2
  <2>6. mode # "none" /\ stage = "loop"
    BY <2>2
  <2>. QED  BY <2>1, <2>3, <2>4, <2>5, <2>6, RememberKept
<1>3. CASE UploadAvatar
  <2>1. PICK i \in todo : Remember(i)
    BY <1>3 DEF UploadAvatar, ToCreate
  <2>2. mode # "none" /\ stage = "loop" /\ phase = "avatars" /\ (disk' = disk \/ disk' = mem')
    BY <1>3 DEF UploadAvatar, Creating
  <2>3. i \in Avatar /\ mem.map[i] = 0
    BY <1>1, <2>2 DEF Doing
  <2>4. (phase = "emoji" /\ i \in Emoji) \/ (phase = "avatars" /\ i \in Avatar)
    BY <2>2, <2>3
  <2>5. disk' = disk \/ disk' = mem'
    BY <2>2
  <2>6. mode # "none" /\ stage = "loop"
    BY <2>2
  <2>. QED  BY <2>1, <2>3, <2>4, <2>5, <2>6, RememberKept
<1>. QED  BY <1>2, <1>3

LEMMA LeaveOutKept ==
    ASSUME IInv, LeaveOut
    PROVE  IInv'
<1>i. /\ TypeOK /\ Records /\ Position /\ Lockstep /\ Handled /\ Doing /\ Granting
      /\ ChannelsDressed /\ Placed /\ Past /\ Numbers /\ OrphansExplained
  BY DEF IInv
<1>s. /\ runs \in Nat /\ ends \in Nat /\ losses \in Nat
      /\ runs <= MaxRuns /\ ends <= MaxEnds /\ losses <= MaxLosses
      /\ mem \in State /\ disk \in State /\ made \in [Resource -> Nat]
      /\ \A i \in Resource : made[i] \in Nat /\ mem.map[i] \in Nat /\ disk.map[i] \in Nat
      /\ next \in 1..11 /\ Rank(mem.phase) \in 0..11 /\ Rank(disk.phase) \in 0..11
      /\ mem.phase \in Name /\ disk.phase \in Name
  BY <1>i, Shapes
<1>1. TypeOK'
  BY <1>i, <1>s, Kinds, StageOf, Limits, PhaseOrder DEF TypeOK, LeaveOut, Creating, ToCreate, vars, service, frame, bounds
<1>2. Records'
  BY <1>i, <1>s DEF Records, Queue, Following, Others, LeaveOut, Creating, ToCreate, vars, service, frame, bounds
<1>3. Position'
  BY <1>i, <1>s, PhaseOrder DEF Position, Unsaved, LeaveOut, Creating, ToCreate, vars, service, frame, bounds
<1>4. Lockstep'
  BY <1>i, <1>s DEF Lockstep, LeaveOut, Creating, ToCreate, vars, service, frame, bounds
<1>5. Handled'
  BY <1>i, <1>s DEF Handled, Named, LeaveOut, Creating, ToCreate, vars, service, frame, bounds
<1>6. Doing'
  BY <1>i, <1>s, Kinds DEF Doing, Following, Others, LeaveOut, Creating, ToCreate, vars, service, frame, bounds
<1>7. Granting'
  BY <1>i, <1>s DEF Granting, Named, LeaveOut, Creating, ToCreate, vars, service, frame, bounds
<1>8. ChannelsDressed'
  BY <1>i, <1>s DEF ChannelsDressed, Named, LeaveOut, Creating, ToCreate, vars, service, frame, bounds
<1>9. Placed'
  BY <1>i, <1>s DEF Placed, LeaveOut, Creating, ToCreate, vars, service, frame, bounds
<1>10. Past'
  BY <1>i, <1>s, PhaseOrder DEF Past, Unsaved, LeaveOut, Creating, ToCreate, vars, service, frame, bounds
<1>11. Numbers'
  BY <1>i, <1>s DEF Numbers, LeaveOut, Creating, ToCreate, vars, service, frame, bounds
<1>12. OrphansExplained'
  BY <1>i, <1>s, OrphansKept DEF Known, LeaveOut, Creating, ToCreate, vars, service, frame, bounds
<1>. QED  BY <1>1, <1>2, <1>3, <1>4, <1>5, <1>6, <1>7, <1>8, <1>9, <1>10, <1>11, <1>12 DEF IInv

-----------------------------------------------------------------------------
(* Roles.                                                                  *)

LEMMA StyleRolesKept ==
    ASSUME IInv, StyleRoles
    PROVE  IInv'
<1>i. /\ TypeOK /\ Records /\ Position /\ Lockstep /\ Handled /\ Doing /\ Granting
      /\ ChannelsDressed /\ Placed /\ Past /\ Numbers /\ OrphansExplained
  BY DEF IInv
<1>s. /\ runs \in Nat /\ ends \in Nat /\ losses \in Nat
      /\ runs <= MaxRuns /\ ends <= MaxEnds /\ losses <= MaxLosses
      /\ mem \in State /\ disk \in State /\ made \in [Resource -> Nat]
      /\ \A i \in Resource : made[i] \in Nat /\ mem.map[i] \in Nat /\ disk.map[i] \in Nat
      /\ next \in 1..11 /\ Rank(mem.phase) \in 0..11 /\ Rank(disk.phase) \in 0..11
      /\ mem.phase \in Name /\ disk.phase \in Name
  BY <1>i, Shapes
<1>1. TypeOK'
  BY <1>i, <1>s, Kinds, StageOf, Limits, PhaseOrder DEF TypeOK, StyleRoles, Unfinalized, Mapped, vars, service, frame, bounds
<1>2. Records'
  BY <1>i, <1>s DEF Records, Queue, Following, Others, StyleRoles, Unfinalized, Mapped, vars, service, frame, bounds
<1>3. Position'
  BY <1>i, <1>s, PhaseOrder DEF Position, Unsaved, StyleRoles, Unfinalized, Mapped, vars, service, frame, bounds
<1>4. Lockstep'
  BY <1>i, <1>s DEF Lockstep, StyleRoles, Unfinalized, Mapped, vars, service, frame, bounds
<1>5. Handled'
  BY <1>i, <1>s DEF Handled, Named, StyleRoles, Unfinalized, Mapped, vars, service, frame, bounds
<1>6. Doing'
  BY <1>i, <1>s, Kinds DEF Doing, Following, Others, StyleRoles, Unfinalized, Mapped, vars, service, frame, bounds
<1>7. Granting'
  BY <1>i, <1>s DEF Granting, Named, StyleRoles, Unfinalized, Mapped, vars, service, frame, bounds
<1>8. ChannelsDressed'
  BY <1>i, <1>s DEF ChannelsDressed, Named, StyleRoles, Unfinalized, Mapped, vars, service, frame, bounds
<1>9. Placed'
  BY <1>i, <1>s DEF Placed, StyleRoles, Unfinalized, Mapped, vars, service, frame, bounds
<1>10. Past'
  BY <1>i, <1>s, PhaseOrder DEF Past, Unsaved, StyleRoles, Unfinalized, Mapped, vars, service, frame, bounds
<1>11. Numbers'
  BY <1>i, <1>s DEF Numbers, StyleRoles, Unfinalized, Mapped, vars, service, frame, bounds
<1>12. OrphansExplained'
  BY <1>i, <1>s, OrphansKept DEF Known, StyleRoles, Unfinalized, Mapped, vars, service, frame, bounds
<1>. QED  BY <1>1, <1>2, <1>3, <1>4, <1>5, <1>6, <1>7, <1>8, <1>9, <1>10, <1>11, <1>12 DEF IInv

LEMMA StyleRoleKept ==
    ASSUME IInv, StyleRole
    PROVE  IInv'
<1>i. /\ TypeOK /\ Records /\ Position /\ Lockstep /\ Handled /\ Doing /\ Granting
      /\ ChannelsDressed /\ Placed /\ Past /\ Numbers /\ OrphansExplained
  BY DEF IInv
<1>s. /\ runs \in Nat /\ ends \in Nat /\ losses \in Nat
      /\ runs <= MaxRuns /\ ends <= MaxEnds /\ losses <= MaxLosses
      /\ mem \in State /\ disk \in State /\ made \in [Resource -> Nat]
      /\ \A i \in Resource : made[i] \in Nat /\ mem.map[i] \in Nat /\ disk.map[i] \in Nat
      /\ next \in 1..11 /\ Rank(mem.phase) \in 0..11 /\ Rank(disk.phase) \in 0..11
      /\ mem.phase \in Name /\ disk.phase \in Name
  BY <1>i, Shapes
<1>1. TypeOK'
  BY <1>i, <1>s, Kinds, StageOf, Limits, PhaseOrder DEF TypeOK, StyleRole, vars, service, frame, bounds
<1>2. Records'
  BY <1>i, <1>s DEF Records, Queue, Following, Others, StyleRole, vars, service, frame, bounds
<1>3. Position'
  BY <1>i, <1>s, PhaseOrder DEF Position, Unsaved, StyleRole, vars, service, frame, bounds
<1>4. Lockstep'
  BY <1>i, <1>s DEF Lockstep, StyleRole, vars, service, frame, bounds
<1>5. Handled'
  BY <1>i, <1>s DEF Handled, Named, StyleRole, vars, service, frame, bounds
<1>6. Doing'
  BY <1>i, <1>s, Kinds DEF Doing, Following, Others, StyleRole, vars, service, frame, bounds
<1>7. Granting'
  BY <1>i, <1>s DEF Granting, Named, StyleRole, vars, service, frame, bounds
<1>8. ChannelsDressed'
  BY <1>i, <1>s DEF ChannelsDressed, Named, StyleRole, vars, service, frame, bounds
<1>9. Placed'
  BY <1>i, <1>s DEF Placed, StyleRole, vars, service, frame, bounds
<1>10. Past'
  BY <1>i, <1>s, PhaseOrder DEF Past, Unsaved, StyleRole, vars, service, frame, bounds
<1>11. Numbers'
  BY <1>i, <1>s DEF Numbers, StyleRole, vars, service, frame, bounds
<1>12. OrphansExplained'
  BY <1>i, <1>s, OrphansKept DEF Known, StyleRole, vars, service, frame, bounds
<1>. QED  BY <1>1, <1>2, <1>3, <1>4, <1>5, <1>6, <1>7, <1>8, <1>9, <1>10, <1>11, <1>12 DEF IInv

LEMMA GrantRolesKept ==
    ASSUME IInv, GrantRoles
    PROVE  IInv'
<1>i. /\ TypeOK /\ Records /\ Position /\ Lockstep /\ Handled /\ Doing /\ Granting
      /\ ChannelsDressed /\ Placed /\ Past /\ Numbers /\ OrphansExplained
  BY DEF IInv
<1>s. /\ runs \in Nat /\ ends \in Nat /\ losses \in Nat
      /\ runs <= MaxRuns /\ ends <= MaxEnds /\ losses <= MaxLosses
      /\ mem \in State /\ disk \in State /\ made \in [Resource -> Nat]
      /\ \A i \in Resource : made[i] \in Nat /\ mem.map[i] \in Nat /\ disk.map[i] \in Nat
      /\ next \in 1..11 /\ Rank(mem.phase) \in 0..11 /\ Rank(disk.phase) \in 0..11
      /\ mem.phase \in Name /\ disk.phase \in Name
  BY <1>i, Shapes
<1>1. TypeOK'
  BY <1>i, <1>s, Kinds, StageOf, Limits, PhaseOrder DEF TypeOK, GrantRoles, Unfinalized, Mapped, vars, service, frame, bounds
<1>2. Records'
  BY <1>i, <1>s DEF Records, Queue, Following, Others, GrantRoles, Unfinalized, Mapped, vars, service, frame, bounds
<1>3. Position'
  BY <1>i, <1>s, PhaseOrder DEF Position, Unsaved, GrantRoles, Unfinalized, Mapped, vars, service, frame, bounds
<1>4. Lockstep'
  BY <1>i, <1>s DEF Lockstep, GrantRoles, Unfinalized, Mapped, vars, service, frame, bounds
<1>5. Handled'
  BY <1>i, <1>s DEF Handled, Named, GrantRoles, Unfinalized, Mapped, vars, service, frame, bounds
<1>6. Doing'
  BY <1>i, <1>s, Kinds DEF Doing, Following, Others, GrantRoles, Unfinalized, Mapped, vars, service, frame, bounds
<1>7. Granting'
  BY <1>i, <1>s DEF Granting, Named, GrantRoles, Unfinalized, Mapped, vars, service, frame, bounds
<1>8. ChannelsDressed'
  BY <1>i, <1>s DEF ChannelsDressed, Named, GrantRoles, Unfinalized, Mapped, vars, service, frame, bounds
<1>9. Placed'
  BY <1>i, <1>s DEF Placed, GrantRoles, Unfinalized, Mapped, vars, service, frame, bounds
<1>10. Past'
  BY <1>i, <1>s, PhaseOrder DEF Past, Unsaved, GrantRoles, Unfinalized, Mapped, vars, service, frame, bounds
<1>11. Numbers'
  BY <1>i, <1>s DEF Numbers, GrantRoles, Unfinalized, Mapped, vars, service, frame, bounds
<1>12. OrphansExplained'
  BY <1>i, <1>s, OrphansKept DEF Known, GrantRoles, Unfinalized, Mapped, vars, service, frame, bounds
<1>. QED  BY <1>1, <1>2, <1>3, <1>4, <1>5, <1>6, <1>7, <1>8, <1>9, <1>10, <1>11, <1>12 DEF IInv

LEMMA GrantRoleKept ==
    ASSUME IInv, GrantRole
    PROVE  IInv'
<1>i. /\ TypeOK /\ Records /\ Position /\ Lockstep /\ Handled /\ Doing /\ Granting
      /\ ChannelsDressed /\ Placed /\ Past /\ Numbers /\ OrphansExplained
  BY DEF IInv
<1>s. /\ runs \in Nat /\ ends \in Nat /\ losses \in Nat
      /\ runs <= MaxRuns /\ ends <= MaxEnds /\ losses <= MaxLosses
      /\ mem \in State /\ disk \in State /\ made \in [Resource -> Nat]
      /\ \A i \in Resource : made[i] \in Nat /\ mem.map[i] \in Nat /\ disk.map[i] \in Nat
      /\ next \in 1..11 /\ Rank(mem.phase) \in 0..11 /\ Rank(disk.phase) \in 0..11
      /\ mem.phase \in Name /\ disk.phase \in Name
  BY <1>i, Shapes
<1>c. PICK r \in todo \ {"server"} : Grant(r)
  BY DEF GrantRole
<1>b. r \in Durable /\ r \notin Channel
  BY <1>i, <1>c, Kinds DEF Grant, Doing
<1>a. /\ made' = made /\ layout' = layout /\ cutShort' = cutShort /\ disk' = disk /\ mem' = mem /\ mode' = mode
      /\ recounted' = recounted /\ rest' = rest /\ phase' = phase /\ mode # "none" /\ ~Following
  BY <1>i, <1>c DEF Grant, bounds, Position, Following
<1>g. Good(mem, made', dressed', layout'.holds, cutShort') /\ Good(disk, made, dressed, layout.holds, cutShort)'
      /\ dressed' \subseteq Durable \X Nat
  <2>1. dressed' = dressed \union {Named(mem, r)}
    BY <1>c DEF Grant
  <2>. QED  BY <1>a, <1>b, <2>1, DressedMore
<1>1. TypeOK'
  BY <1>i, <1>s, <1>c, <1>b, <1>a, <1>g, Kinds, StageOf, Limits, PhaseOrder DEF TypeOK, GrantRole, Grant, vars, service, frame, bounds
<1>2. Records'
  <2>1. Queue' = Queue
    BY <1>a DEF Queue, Following, Others
  <2>. QED  BY <1>i, <1>a, <1>g, <2>1 DEF Records
<1>3. Position'
  BY <1>i, <1>s, <1>c, <1>b, <1>a, <1>g, PhaseOrder DEF Position, Unsaved, GrantRole, Grant, vars, service, frame, bounds
<1>4. Lockstep'
  BY <1>i, <1>s, <1>c, <1>b, <1>a, <1>g DEF Lockstep, GrantRole, Grant, vars, service, frame, bounds
<1>5. Handled'
  BY <1>i, <1>s, <1>c, <1>b, <1>a, <1>g DEF Handled, Named, GrantRole, Grant, vars, service, frame, bounds
<1>6. Doing'
  BY <1>i, <1>s, <1>c, <1>b, <1>a, <1>g, Kinds DEF Doing, Following, Others, GrantRole, Grant, vars, service, frame, bounds
<1>7. Granting'
  BY <1>i, <1>s, <1>c, <1>b, <1>a, <1>g DEF Granting, Named, GrantRole, Grant, vars, service, frame, bounds
<1>8. ChannelsDressed'
  BY <1>i, <1>s, <1>c, <1>b, <1>a, <1>g DEF ChannelsDressed, Named, GrantRole, Grant, vars, service, frame, bounds
<1>9. Placed'
  BY <1>i, <1>s, <1>c, <1>b, <1>a, <1>g DEF Placed, GrantRole, Grant, vars, service, frame, bounds
<1>10. Past'
  BY <1>i, <1>s, <1>c, <1>b, <1>a, <1>g, PhaseOrder DEF Past, Unsaved, GrantRole, Grant, vars, service, frame, bounds
<1>11. Numbers'
  BY <1>i, <1>s, <1>c, <1>b, <1>a, <1>g DEF Numbers, GrantRole, Grant, vars, service, frame, bounds
<1>12. OrphansExplained'
  BY <1>i, <1>s, <1>c, <1>b, <1>a, <1>g, OrphansKept DEF Known, GrantRole, Grant, vars, service, frame, bounds
<1>. QED  BY <1>1, <1>2, <1>3, <1>4, <1>5, <1>6, <1>7, <1>8, <1>9, <1>10, <1>11, <1>12 DEF IInv

LEMMA GrantDefaultKept ==
    ASSUME IInv, GrantDefault
    PROVE  IInv'
<1>i. /\ TypeOK /\ Records /\ Position /\ Lockstep /\ Handled /\ Doing /\ Granting
      /\ ChannelsDressed /\ Placed /\ Past /\ Numbers /\ OrphansExplained
  BY DEF IInv
<1>s. /\ runs \in Nat /\ ends \in Nat /\ losses \in Nat
      /\ runs <= MaxRuns /\ ends <= MaxEnds /\ losses <= MaxLosses
      /\ mem \in State /\ disk \in State /\ made \in [Resource -> Nat]
      /\ \A i \in Resource : made[i] \in Nat /\ mem.map[i] \in Nat /\ disk.map[i] \in Nat
      /\ next \in 1..11 /\ Rank(mem.phase) \in 0..11 /\ Rank(disk.phase) \in 0..11
      /\ mem.phase \in Name /\ disk.phase \in Name
  BY <1>i, Shapes
<1>b. "server" \in Durable /\ "server" \notin Channel
  BY Kinds
<1>a. /\ made' = made /\ layout' = layout /\ cutShort' = cutShort /\ disk' = disk /\ mem' = mem /\ mode' = mode
      /\ recounted' = recounted /\ rest' = rest /\ phase' = phase /\ mode # "none" /\ ~Following
  BY <1>i DEF GrantDefault, Grant, bounds, Position, Following
<1>g. Good(mem, made', dressed', layout'.holds, cutShort') /\ Good(disk, made, dressed, layout.holds, cutShort)'
      /\ dressed' \subseteq Durable \X Nat
  <2>1. dressed' = dressed \union {Named(mem, "server")}
    BY DEF Grant, GrantDefault
  <2>. QED  BY <1>a, <1>b, <2>1, DressedMore
<1>1. TypeOK'
  BY <1>i, <1>s, <1>b, <1>a, <1>g, Kinds, StageOf, Limits, PhaseOrder DEF TypeOK, GrantDefault, Grant, vars, service, frame, bounds
<1>2. Records'
  <2>1. Queue' = Queue
    BY <1>a DEF Queue, Following, Others
  <2>. QED  BY <1>i, <1>a, <1>g, <2>1 DEF Records
<1>3. Position'
  BY <1>i, <1>s, <1>b, <1>a, <1>g, PhaseOrder DEF Position, Unsaved, GrantDefault, Grant, vars, service, frame, bounds
<1>4. Lockstep'
  BY <1>i, <1>s, <1>b, <1>a, <1>g DEF Lockstep, GrantDefault, Grant, vars, service, frame, bounds
<1>5. Handled'
  BY <1>i, <1>s, <1>b, <1>a, <1>g DEF Handled, Named, GrantDefault, Grant, vars, service, frame, bounds
<1>6. Doing'
  BY <1>i, <1>s, <1>b, <1>a, <1>g, Kinds DEF Doing, Following, Others, GrantDefault, Grant, vars, service, frame, bounds
<1>7. Granting'
  BY <1>i, <1>s, <1>b, <1>a, <1>g DEF Granting, Named, GrantDefault, Grant, vars, service, frame, bounds
<1>8. ChannelsDressed'
  BY <1>i, <1>s, <1>b, <1>a, <1>g DEF ChannelsDressed, Named, GrantDefault, Grant, vars, service, frame, bounds
<1>9. Placed'
  BY <1>i, <1>s, <1>b, <1>a, <1>g DEF Placed, GrantDefault, Grant, vars, service, frame, bounds
<1>10. Past'
  BY <1>i, <1>s, <1>b, <1>a, <1>g, PhaseOrder DEF Past, Unsaved, GrantDefault, Grant, vars, service, frame, bounds
<1>11. Numbers'
  BY <1>i, <1>s, <1>b, <1>a, <1>g DEF Numbers, GrantDefault, Grant, vars, service, frame, bounds
<1>12. OrphansExplained'
  BY <1>i, <1>s, <1>b, <1>a, <1>g, OrphansKept DEF Known, GrantDefault, Grant, vars, service, frame, bounds
<1>. QED  BY <1>1, <1>2, <1>3, <1>4, <1>5, <1>6, <1>7, <1>8, <1>9, <1>10, <1>11, <1>12 DEF IInv

LEMMA FinalizeRolesKept ==
    ASSUME IInv, FinalizeRoles
    PROVE  IInv'
<1>i. /\ TypeOK /\ Records /\ Position /\ Lockstep /\ Handled /\ Doing /\ Granting
      /\ ChannelsDressed /\ Placed /\ Past /\ Numbers /\ OrphansExplained
  BY DEF IInv
<1>s. /\ runs \in Nat /\ ends \in Nat /\ losses \in Nat
      /\ runs <= MaxRuns /\ ends <= MaxEnds /\ losses <= MaxLosses
      /\ mem \in State /\ disk \in State /\ made \in [Resource -> Nat]
      /\ \A i \in Resource : made[i] \in Nat /\ mem.map[i] \in Nat /\ disk.map[i] \in Nat
      /\ next \in 1..11 /\ Rank(mem.phase) \in 0..11 /\ Rank(disk.phase) \in 0..11
      /\ mem.phase \in Name /\ disk.phase \in Name
  BY <1>i, Shapes
<1>h. /\ mode # "none" /\ phase = "roles" /\ next = 3 /\ stage = "grant" /\ todo = {} /\ PhaseOver(mem')
      /\ mem' = [mem EXCEPT !.finalized = mem.finalized \union Mapped(mem, Role)]
      /\ made' = made /\ dressed' = dressed /\ applied' = applied /\ layout' = layout /\ ~Following
  <2>1. PhaseOver([mem EXCEPT !.finalized = mem.finalized \union Mapped(mem, Role)]) /\ phase = "roles"
    BY DEF FinalizeRoles
  <2>2. mem' = [mem EXCEPT !.finalized = mem.finalized \union Mapped(mem, Role)]
    BY <2>1 DEF PhaseOver
  <2>3. mode # "none" /\ next = 3
    BY <1>i, <1>s, <2>1, PhaseOrder, PhaseDistinct DEF Position
  <2>. QED  BY <2>1, <2>2, <2>3 DEF FinalizeRoles, service, Following
<1>g. Good(mem, made, dressed, layout.holds, cutShort)
  BY <1>i, <1>h DEF Records
<1>r. /\ \A r \in mem.finalized : mem.map[r] # 0 /\ <<r, mem.map[r]>> \in dressed
      /\ \A c \in Channel, n \in Nat : <<c, n>> \in layout.holds => c \in mem.placed /\ mem.map[c] = n
      /\ \A c \in mem.placed : mem.map[c] # 0
  BY <1>g DEF Good
<1>t. layout \in [cats : SUBSET Category, holds : SUBSET (Channel \X Nat)]
  BY <1>i DEF TypeOK
<1>b. Balance(mem, Queue, recounted)
  BY <1>i, <1>h DEF Records
<1>m. /\ mem' \in State /\ mem'.map = mem.map /\ mem'.placed = mem.placed /\ mem'.sent = mem.sent /\ mem'.phase = mem.phase
      /\ mem'.finalized = mem.finalized \union Mapped(mem, Role) /\ mem'.pending = mem.pending
      /\ mem'.counted = mem.counted /\ mem'.capped = mem.capped
  <2>1. mem.finalized \union Mapped(mem, Role) \in SUBSET Role
    BY <1>s, StateFields DEF Mapped
  <2>2. mem' \in State
    BY <1>s, <1>h, <2>1, StateWith
  <2>. QED  BY <1>s, <1>h, <2>2 DEF State
<1>1. \A r \in mem'.finalized : mem.map[r] # 0 /\ <<r, mem.map[r]>> \in dressed
  BY <1>i, <1>h, <1>m, <1>r DEF Granting, Mapped, Named
<1>2. \A r \in Role : mem.map[r] # 0 => r \in mem'.finalized
  BY <1>m DEF Mapped
<1>3. ~(next >= 5)
  BY <1>h
<1>4. Balance(mem', mem'.pending, recounted)
  BY <1>h, <1>m, <1>b DEF Queue, Balance
<1>5. stage \notin {"save", "dress"} /\ phase # "between"
  BY <1>h
<1>. QED
  <2>. HIDE DEF Settled, Balance
  <2>. QED  BY <1>i, <1>h, <1>m, <1>r, <1>t, <1>1, <1>2, <1>3, <1>4, <1>5, PhaseOverKept

-----------------------------------------------------------------------------
(* Categories and channels.                                                *)

LEMMA RunCategoriesKept ==
    ASSUME IInv, RunCategories
    PROVE  IInv'
<1>i. /\ TypeOK /\ Records /\ Position /\ Lockstep /\ Handled /\ Doing /\ Granting
      /\ ChannelsDressed /\ Placed /\ Past /\ Numbers /\ OrphansExplained
  BY DEF IInv
<1>s. /\ runs \in Nat /\ ends \in Nat /\ losses \in Nat
      /\ runs <= MaxRuns /\ ends <= MaxEnds /\ losses <= MaxLosses
      /\ mem \in State /\ disk \in State /\ made \in [Resource -> Nat]
      /\ \A i \in Resource : made[i] \in Nat /\ mem.map[i] \in Nat /\ disk.map[i] \in Nat
      /\ next \in 1..11 /\ Rank(mem.phase) \in 0..11 /\ Rank(disk.phase) \in 0..11
      /\ mem.phase \in Name /\ disk.phase \in Name
  BY <1>i, Shapes
<1>h. /\ mode # "none" /\ phase = "categories" /\ next = 4 /\ stage = "upsert" /\ PhaseOver(mem')
      /\ mem' = [mem EXCEPT !.cats = mem.cats \union SeenCategories]
      /\ made' = made /\ dressed' = dressed /\ applied' = applied /\ ~Following
      /\ (layout' = layout \/ layout' = [cats |-> SeenCategories, holds |-> {}])
  <2>1. PhaseOver([mem EXCEPT !.cats = mem.cats \union SeenCategories]) /\ phase = "categories"
    BY DEF RunCategories
  <2>2. mem' = [mem EXCEPT !.cats = mem.cats \union SeenCategories]
    BY <2>1 DEF PhaseOver
  <2>3. mode # "none" /\ next = 4
    BY <1>i, <1>s, <2>1, PhaseOrder, PhaseDistinct DEF Position
  <2>4. stage = "upsert"
    BY <1>i, <2>1, StageOf DEF TypeOK
  <2>. QED  BY <2>1, <2>2, <2>3, <2>4 DEF RunCategories, Following
<1>e. SeenCategories \subseteq Category
  BY <1>i, MigrationAssumption DEF SeenCategories, TypeOK
<1>g. Good(mem, made, dressed, layout.holds, cutShort)
  BY <1>i, <1>h DEF Records
<1>r. /\ \A r \in mem.finalized : mem.map[r] # 0 /\ <<r, mem.map[r]>> \in dressed
      /\ \A c \in Channel, n \in Nat : <<c, n>> \in layout.holds => c \in mem.placed /\ mem.map[c] = n
      /\ \A c \in mem.placed : mem.map[c] # 0
  BY <1>g DEF Good
<1>t. layout \in [cats : SUBSET Category, holds : SUBSET (Channel \X Nat)]
  BY <1>i DEF TypeOK
<1>b. Balance(mem, Queue, recounted)
  BY <1>i, <1>h DEF Records
<1>m. /\ mem' \in State /\ mem'.map = mem.map /\ mem'.placed = mem.placed /\ mem'.sent = mem.sent /\ mem'.phase = mem.phase
      /\ mem'.finalized = mem.finalized /\ mem'.pending = mem.pending
      /\ mem'.counted = mem.counted /\ mem'.capped = mem.capped
  <2>1. mem.cats \union SeenCategories \in SUBSET Category
    BY <1>s, <1>e, StateFields
  <2>2. mem' \in State
    BY <1>s, <1>h, <2>1, StateWith
  <2>. QED  BY <1>s, <1>h, <2>2 DEF State
<1>1. \A r \in mem'.finalized : mem.map[r] # 0 /\ <<r, mem.map[r]>> \in dressed
  BY <1>m, <1>r
<1>2. ~cutShort => \A r \in Role : mem.map[r] # 0 => r \in mem'.finalized
  BY <1>i, <1>h, <1>m DEF Past
<1>3. ~(next >= 5)
  BY <1>h
<1>4. Balance(mem', mem'.pending, recounted)
  BY <1>h, <1>m, <1>b DEF Queue, Balance
<1>5. stage \notin {"save", "dress"} /\ phase # "between"
  BY <1>h
<1>6. /\ layout' \in [cats : SUBSET Category, holds : SUBSET (Channel \X Nat)]
      /\ \A c \in Channel, n \in Nat : <<c, n>> \in layout'.holds => c \in mem.placed /\ mem.map[c] = n
  BY <1>h, <1>e, <1>t, <1>r
<1>. QED
  <2>. HIDE DEF Settled, Balance
  <2>. QED  BY <1>i, <1>h, <1>m, <1>1, <1>2, <1>3, <1>4, <1>5, <1>6, PhaseOverKept

LEMMA DressKept ==
    ASSUME IInv, Dress
    PROVE  IInv'
<1>i. /\ TypeOK /\ Records /\ Position /\ Lockstep /\ Handled /\ Doing /\ Granting
      /\ ChannelsDressed /\ Placed /\ Past /\ Numbers /\ OrphansExplained
  BY DEF IInv
<1>s. /\ runs \in Nat /\ ends \in Nat /\ losses \in Nat
      /\ runs <= MaxRuns /\ ends <= MaxEnds /\ losses <= MaxLosses
      /\ mem \in State /\ disk \in State /\ made \in [Resource -> Nat]
      /\ \A i \in Resource : made[i] \in Nat /\ mem.map[i] \in Nat /\ disk.map[i] \in Nat
      /\ next \in 1..11 /\ Rank(mem.phase) \in 0..11 /\ Rank(disk.phase) \in 0..11
      /\ mem.phase \in Name /\ disk.phase \in Name
  BY <1>i, Shapes
<1>b. hand \in Durable /\ hand \in Channel /\ Role \subseteq Mapped(mem, Role) /\ stage # "save"
  BY <1>i, Kinds DEF Dress, Handled
<1>a. /\ made' = made /\ layout' = layout /\ cutShort' = cutShort /\ disk' = disk /\ mem' = mem /\ mode' = mode
      /\ recounted' = recounted /\ rest' = rest /\ phase' = phase /\ mode # "none" /\ ~Following
  BY <1>i DEF Dress, bounds, Position, Following
<1>g. Good(mem, made', dressed', layout'.holds, cutShort') /\ Good(disk, made, dressed, layout.holds, cutShort)'
      /\ dressed' \subseteq Durable \X Nat
  <2>1. dressed' = dressed \union {Named(mem, hand)}
    BY DEF Dress
  <2>. QED  BY <1>a, <1>b, <2>1, DressedMore
<1>1. TypeOK'
  BY <1>i, <1>s, <1>b, <1>a, <1>g, Kinds, StageOf, Limits, PhaseOrder DEF TypeOK, Dress, Mapped, vars, service, frame, bounds
<1>2. Records'
  <2>1. Queue' = Queue
    BY <1>a DEF Queue, Following, Others
  <2>. QED  BY <1>i, <1>a, <1>g, <2>1 DEF Records
<1>3. Position'
  BY <1>i, <1>s, <1>b, <1>a, <1>g, PhaseOrder DEF Position, Unsaved, Dress, Mapped, vars, service, frame, bounds
<1>4. Lockstep'
  BY <1>i, <1>s, <1>b, <1>a, <1>g DEF Lockstep, Dress, Mapped, vars, service, frame, bounds
<1>5. Handled'
  BY <1>i, <1>s, <1>b, <1>a, <1>g DEF Handled, Named, Dress, Mapped, vars, service, frame, bounds
<1>6. Doing'
  BY <1>i, <1>s, <1>b, <1>a, <1>g, Kinds DEF Doing, Following, Others, Dress, Mapped, vars, service, frame, bounds
<1>7. Granting'
  BY <1>i, <1>s, <1>b, <1>a, <1>g DEF Granting, Named, Dress, Mapped, vars, service, frame, bounds
<1>8. ChannelsDressed'
  BY <1>i, <1>s, <1>b, <1>a, <1>g DEF ChannelsDressed, Named, Dress, Mapped, vars, service, frame, bounds
<1>9. Placed'
  BY <1>i, <1>s, <1>b, <1>a, <1>g DEF Placed, Dress, Mapped, vars, service, frame, bounds
<1>10. Past'
  BY <1>i, <1>s, <1>b, <1>a, <1>g, PhaseOrder DEF Past, Unsaved, Dress, Mapped, vars, service, frame, bounds
<1>11. Numbers'
  BY <1>i, <1>s, <1>b, <1>a, <1>g DEF Numbers, Dress, Mapped, vars, service, frame, bounds
<1>12. OrphansExplained'
  BY <1>i, <1>s, <1>b, <1>a, <1>g, OrphansKept DEF Known, Dress, Mapped, vars, service, frame, bounds
<1>. QED  BY <1>1, <1>2, <1>3, <1>4, <1>5, <1>6, <1>7, <1>8, <1>9, <1>10, <1>11, <1>12 DEF IInv

LEMMA PlaceKept ==
    ASSUME IInv, Place
    PROVE  IInv'
<1>i. /\ TypeOK /\ Records /\ Position /\ Lockstep /\ Handled /\ Doing /\ Granting
      /\ ChannelsDressed /\ Placed /\ Past /\ Numbers /\ OrphansExplained
  BY DEF IInv
<1>s. /\ runs \in Nat /\ ends \in Nat /\ losses \in Nat
      /\ runs <= MaxRuns /\ ends <= MaxEnds /\ losses <= MaxLosses
      /\ mem \in State /\ disk \in State /\ made \in [Resource -> Nat]
      /\ \A i \in Resource : made[i] \in Nat /\ mem.map[i] \in Nat /\ disk.map[i] \in Nat
      /\ next \in 1..11 /\ Rank(mem.phase) \in 0..11 /\ Rank(disk.phase) \in 0..11
      /\ mem.phase \in Name /\ disk.phase \in Name
  BY <1>i, Shapes
<1>a. mode # "none" /\ phase = "channels" /\ stage = "place" /\ hand \in Channel /\ mem.map[hand] # 0 /\ Place
      /\ disk' = mem' /\ ~Following
  BY <1>i DEF Place, Position, Handled, Following
<1>m. /\ mem' \in State /\ mem'.map = mem.map /\ mem'.finalized = mem.finalized /\ mem'.cats = mem.cats
      /\ mem'.sent = mem.sent /\ mem'.pending = mem.pending /\ mem'.counted = mem.counted
      /\ mem'.capped = mem.capped /\ mem'.phase = mem.phase /\ mem'.placed = mem.placed \union {hand}
  <2>1. mem.placed \union {hand} \in SUBSET Channel
    BY <1>s, <1>a, StateFields
  <2>2. mem' = [mem EXCEPT !.placed = mem.placed \union {hand}]
    BY <1>a DEF Place, Placing
  <2>3. mem' \in State
    BY <1>s, <2>1, <2>2, StateWith
  <2>. QED  BY <1>s, <2>1, <2>2, <2>3 DEF State
<1>1. TypeOK'
  BY <1>i, <1>s, <1>a, <1>m, Kinds, StageOf, Limits, PhaseOrder DEF TypeOK, Place, Placing, vars, service, frame, bounds
<1>2. Records'
  <2>1. Good(mem, made, dressed, layout.holds, cutShort)
    BY <1>i, <1>a DEF Records
  <2>2. Good(mem', made, dressed, layout.holds, cutShort)
    BY <1>a, <1>m, <2>1, GoodPlaced
  <2>3. /\ made' = made /\ dressed' = dressed /\ layout' = layout /\ cutShort' = cutShort
        /\ mode' = mode /\ recounted' = recounted /\ (disk' = disk \/ disk' = mem')
    BY <1>a DEF Place, Placing, service, bounds, frame
  <2>4. Good(mem, made, dressed, layout.holds, cutShort)' /\ Good(disk, made, dressed, layout.holds, cutShort)'
    BY <2>2, <2>3, GoodBoth
  <2>5. Balance(mem', mem'.pending, recounted) /\ Queue' = mem'.pending
    BY <1>i, <1>a, <1>m DEF Records, Balance, Queue, Following, Place
  <2>. QED  BY <1>a, <2>3, <2>4, <2>5 DEF Records
<1>3. Position'
  BY <1>i, <1>s, <1>a, <1>m, PhaseOrder DEF Position, Unsaved, Place, Placing, vars, service, frame, bounds
<1>4. Lockstep'
  BY <1>i, <1>s, <1>a, <1>m DEF Lockstep, Place, Placing, vars, service, frame, bounds
<1>5. Handled'
  BY <1>i, <1>s, <1>a, <1>m DEF Handled, Named, Place, Placing, vars, service, frame, bounds
<1>6. Doing'
  BY <1>i, <1>s, <1>a, <1>m, Kinds DEF Doing, Following, Others, Place, Placing, vars, service, frame, bounds
<1>7. Granting'
  BY <1>i, <1>s, <1>a, <1>m DEF Granting, Named, Place, Placing, vars, service, frame, bounds
<1>8. ChannelsDressed'
  BY <1>i, <1>s, <1>a, <1>m DEF ChannelsDressed, Named, Place, Placing, vars, service, frame, bounds
<1>9. Placed'
  BY <1>i, <1>s, <1>a, <1>m DEF Placed, Place, Placing, vars, service, frame, bounds
<1>10. Past'
  BY <1>i, <1>s, <1>a, <1>m, PastSame DEF Place, Placing, service, bounds
<1>11. Numbers'
  BY <1>i, <1>s, <1>a, <1>m, NumbersSame DEF Place, Placing, service, bounds
<1>12. OrphansExplained'
  BY <1>i, <1>s, <1>a, <1>m, OrphansInRun DEF Place, Placing, service, bounds
<1>. QED  BY <1>1, <1>2, <1>3, <1>4, <1>5, <1>6, <1>7, <1>8, <1>9, <1>10, <1>11, <1>12 DEF IInv

LEMMA VerifyCarriedKept ==
    ASSUME IInv, VerifyCarried
    PROVE  IInv'
<1>i. /\ TypeOK /\ Records /\ Position /\ Lockstep /\ Handled /\ Doing /\ Granting
      /\ ChannelsDressed /\ Placed /\ Past /\ Numbers /\ OrphansExplained
  BY DEF IInv
<1>s. /\ runs \in Nat /\ ends \in Nat /\ losses \in Nat
      /\ runs <= MaxRuns /\ ends <= MaxEnds /\ losses <= MaxLosses
      /\ mem \in State /\ disk \in State /\ made \in [Resource -> Nat]
      /\ \A i \in Resource : made[i] \in Nat /\ mem.map[i] \in Nat /\ disk.map[i] \in Nat
      /\ next \in 1..11 /\ Rank(mem.phase) \in 0..11 /\ Rank(disk.phase) \in 0..11
      /\ mem.phase \in Name /\ disk.phase \in Name
  BY <1>i, Shapes
<1>c. PICK c \in todo : /\ mem.map[c] # 0 /\ mem' = Placing(c) /\ todo' = todo \ {c}
  BY DEF VerifyCarried, Mapped
<1>a. mode # "none" /\ phase = "channels" /\ stage = "loop" /\ c \in Channel /\ VerifyCarried
      /\ disk' = mem' /\ ~Following
  BY <1>i, <1>c DEF VerifyCarried, Position, Doing, TypeOK, Following
<1>m. /\ mem' \in State /\ mem'.map = mem.map /\ mem'.finalized = mem.finalized /\ mem'.cats = mem.cats
      /\ mem'.sent = mem.sent /\ mem'.pending = mem.pending /\ mem'.counted = mem.counted
      /\ mem'.capped = mem.capped /\ mem'.phase = mem.phase /\ mem'.placed = mem.placed \union {c}
  <2>1. mem.placed \union {c} \in SUBSET Channel
    BY <1>s, <1>a, StateFields
  <2>3. mem' \in State
    BY <1>c, <1>s, <2>1, StateWith DEF Placing
  <2>. QED  BY <1>c, <1>s, <2>1, <2>3 DEF Placing, State
<1>1. TypeOK'
  BY <1>i, <1>s, <1>c, <1>a, <1>m, Kinds, StageOf, Limits, PhaseOrder DEF TypeOK, VerifyCarried, Placing, Mapped, vars, service, frame, bounds
<1>2. Records'
  <2>1. Good(mem, made, dressed, layout.holds, cutShort)
    BY <1>i, <1>a DEF Records
  <2>2. Good(mem', made, dressed, layout.holds, cutShort)
    BY <1>a, <1>m, <2>1, <1>c, GoodPlaced
  <2>3. /\ made' = made /\ dressed' = dressed /\ layout' = layout /\ cutShort' = cutShort
        /\ mode' = mode /\ recounted' = recounted /\ (disk' = disk \/ disk' = mem')
    BY <1>a DEF VerifyCarried, Placing, Mapped, service, bounds, frame
  <2>4. Good(mem, made, dressed, layout.holds, cutShort)' /\ Good(disk, made, dressed, layout.holds, cutShort)'
    BY <2>2, <2>3, GoodBoth
  <2>5. Balance(mem', mem'.pending, recounted) /\ Queue' = mem'.pending
    BY <1>i, <1>a, <1>m DEF Records, Balance, Queue, Following, VerifyCarried
  <2>. QED  BY <1>a, <2>3, <2>4, <2>5 DEF Records
<1>3. Position'
  BY <1>i, <1>s, <1>c, <1>a, <1>m, PhaseOrder DEF Position, Unsaved, VerifyCarried, Placing, Mapped, vars, service, frame, bounds
<1>4. Lockstep'
  BY <1>i, <1>s, <1>c, <1>a, <1>m DEF Lockstep, VerifyCarried, Placing, Mapped, vars, service, frame, bounds
<1>5. Handled'
  BY <1>i, <1>s, <1>c, <1>a, <1>m DEF Handled, Named, VerifyCarried, Placing, Mapped, vars, service, frame, bounds
<1>6. Doing'
  BY <1>i, <1>s, <1>c, <1>a, <1>m, Kinds DEF Doing, Following, Others, VerifyCarried, Placing, Mapped, vars, service, frame, bounds
<1>7. Granting'
  BY <1>i, <1>s, <1>c, <1>a, <1>m DEF Granting, Named, VerifyCarried, Placing, Mapped, vars, service, frame, bounds
<1>8. ChannelsDressed'
  BY <1>i, <1>s, <1>c, <1>a, <1>m DEF ChannelsDressed, Named, VerifyCarried, Placing, Mapped, vars, service, frame, bounds
<1>9. Placed'
  BY <1>i, <1>s, <1>c, <1>a, <1>m DEF Placed, VerifyCarried, Placing, Mapped, vars, service, frame, bounds
<1>10. Past'
  BY <1>i, <1>s, <1>a, <1>m, PastSame DEF VerifyCarried, Placing, Mapped, service, bounds
<1>11. Numbers'
  BY <1>i, <1>s, <1>a, <1>m, NumbersSame DEF VerifyCarried, Placing, Mapped, service, bounds
<1>12. OrphansExplained'
  BY <1>i, <1>s, <1>a, <1>m, OrphansInRun DEF VerifyCarried, Placing, Mapped, service, bounds
<1>. QED  BY <1>1, <1>2, <1>3, <1>4, <1>5, <1>6, <1>7, <1>8, <1>9, <1>10, <1>11, <1>12 DEF IInv

LEMMA UpsertCategoriesKept ==
    ASSUME IInv, UpsertCategories
    PROVE  IInv'
<1>i. /\ TypeOK /\ Records /\ Position /\ Lockstep /\ Handled /\ Doing /\ Granting
      /\ ChannelsDressed /\ Placed /\ Past /\ Numbers /\ OrphansExplained
  BY DEF IInv
<1>s. /\ runs \in Nat /\ ends \in Nat /\ losses \in Nat
      /\ runs <= MaxRuns /\ ends <= MaxEnds /\ losses <= MaxLosses
      /\ mem \in State /\ disk \in State /\ made \in [Resource -> Nat]
      /\ \A i \in Resource : made[i] \in Nat /\ mem.map[i] \in Nat /\ disk.map[i] \in Nat
      /\ next \in 1..11 /\ Rank(mem.phase) \in 0..11 /\ Rank(disk.phase) \in 0..11
      /\ mem.phase \in Name /\ disk.phase \in Name
  BY <1>i, Shapes
<1>h. /\ mode # "none" /\ phase = "channels" /\ next = 5 /\ stage = "loop" /\ todo = {} /\ PhaseOver(mem') /\ mem' = mem
      /\ made' = made /\ dressed' = dressed /\ applied' = applied /\ ~Following
      /\ layout' = [cats |-> mem.cats, holds |-> {Named(mem, c) : c \in mem.placed}]
  <2>1. PhaseOver(mem) /\ phase = "channels"
    BY DEF UpsertCategories
  <2>2. mem' = mem
    BY <2>1 DEF PhaseOver
  <2>3. mode # "none" /\ next = 5
    BY <1>i, <1>s, <2>1, PhaseOrder, PhaseDistinct DEF Position
  <2>. QED  BY <2>1, <2>2, <2>3 DEF UpsertCategories, Following
<1>g. Good(mem, made, dressed, layout.holds, cutShort)
  BY <1>i, <1>h DEF Records
<1>r. /\ \A r \in mem.finalized : mem.map[r] # 0 /\ <<r, mem.map[r]>> \in dressed
      /\ \A c \in Channel, n \in Nat : <<c, n>> \in layout.holds => c \in mem.placed /\ mem.map[c] = n
      /\ \A c \in mem.placed : mem.map[c] # 0
  BY <1>g DEF Good
<1>t. layout \in [cats : SUBSET Category, holds : SUBSET (Channel \X Nat)]
  BY <1>i DEF TypeOK
<1>b. Balance(mem, Queue, recounted)
  BY <1>i, <1>h DEF Records
<1>1. mem.placed \subseteq Channel /\ mem.cats \subseteq Category /\ Channel \subseteq Resource /\ seen \subseteq Channel
  BY <1>i, <1>s, StateFields, Kinds DEF TypeOK
<1>2. ~cutShort => \A r \in Role : mem.map[r] # 0 => r \in mem.finalized
  BY <1>i, <1>h DEF Past
<1>3. /\ layout' \in [cats : SUBSET Category, holds : SUBSET (Channel \X Nat)]
      /\ \A c \in Channel, n \in Nat : <<c, n>> \in layout'.holds => c \in mem.placed /\ mem.map[c] = n
  BY <1>s, <1>h, <1>1 DEF Named
<1>4. Settled(mem, seen, layout'.cats, layout'.holds)
  <2>1. seen \subseteq mem.placed
    BY <1>i, <1>h DEF Placed
  <2>2. layout'.cats = mem.cats /\ \A c \in mem.placed : <<c, mem.map[c]>> \in layout'.holds
    BY <1>h DEF Named
  <2>. QED  BY <1>r, <2>1, <2>2 DEF Settled
<1>5. Balance(mem, mem.pending, recounted)
  BY <1>h, <1>b DEF Queue
<1>6. stage \notin {"save", "dress"} /\ phase # "between"
  BY <1>h
<1>. QED
  <2>. HIDE DEF Settled, Balance
  <2>. QED  BY <1>i, <1>h, <1>s, <1>r, <1>2, <1>3, <1>4, <1>5, <1>6, PhaseOverKept

-----------------------------------------------------------------------------
(* Messages, reactions and pins.                                           *)

LEMMA SendMessageKept ==
    ASSUME IInv, SendMessage
    PROVE  IInv'
<1>i. /\ TypeOK /\ Records /\ Position /\ Lockstep /\ Handled /\ Doing /\ Granting
      /\ ChannelsDressed /\ Placed /\ Past /\ Numbers /\ OrphansExplained
  BY DEF IInv
<1>s. /\ runs \in Nat /\ ends \in Nat /\ losses \in Nat
      /\ runs <= MaxRuns /\ ends <= MaxEnds /\ losses <= MaxLosses
      /\ mem \in State /\ disk \in State /\ made \in [Resource -> Nat]
      /\ \A i \in Resource : made[i] \in Nat /\ mem.map[i] \in Nat /\ disk.map[i] \in Nat
      /\ next \in 1..11 /\ Rank(mem.phase) \in 0..11 /\ Rank(disk.phase) \in 0..11
      /\ mem.phase \in Name /\ disk.phase \in Name
  BY <1>i, Shapes
<1>c. PICK f \in todo : /\ mem.map[Home[f]] # 0 /\ todo' = todo \ {f}
        /\ mem' = [mem EXCEPT !.sent = mem.sent \union {f}, !.pending = mem.pending \union {f}]
  BY DEF SendMessage
<1>a. /\ mode # "none" /\ phase = "messages" /\ stage = "loop" /\ f \in FollowUp /\ f \notin mem.sent /\ SendMessage
      /\ disk' = mem' /\ ~Following /\ mem.map[Home[f]] # 0 /\ <<Home[f], mem.map[Home[f]]>> \in dressed
  BY <1>i, <1>c, StageOf, Kinds DEF SendMessage, Position, Doing, TypeOK, Following, ChannelsDressed, Named
<1>m. /\ mem' \in State /\ mem'.map = mem.map /\ mem'.finalized = mem.finalized /\ mem'.cats = mem.cats
      /\ mem'.sent = mem.sent \union {f} /\ mem'.pending = mem.pending \union {f} /\ mem'.counted = mem.counted
      /\ mem'.capped = mem.capped /\ mem'.phase = mem.phase /\ mem'.placed = mem.placed
  <2>1. mem.sent \union {f} \in SUBSET FollowUp /\ mem.pending \union {f} \in SUBSET FollowUp
    BY <1>s, <1>a, StateFields
  <2>3. mem' \in State
    BY <1>c, <1>s, <2>1, StateWith
  <2>. QED  BY <1>c, <1>s, <2>1, <2>3 DEF State
<1>1. TypeOK'
  BY <1>i, <1>s, <1>c, <1>a, <1>m, Kinds, StageOf, Limits, PhaseOrder DEF TypeOK, SendMessage, vars, service, frame, bounds
<1>2. Records'
  <2>1. Good(mem, made, dressed, layout.holds, cutShort)
    BY <1>i, <1>a DEF Records
  <2>2. Good(mem', made, dressed, layout.holds, cutShort)
    BY <1>a, <1>m, <2>1, GoodSent
  <2>3. /\ made' = made /\ dressed' = dressed /\ layout' = layout /\ cutShort' = cutShort
        /\ mode' = mode /\ recounted' = recounted /\ (disk' = disk \/ disk' = mem')
    BY <1>a DEF SendMessage, service, bounds, frame
  <2>4. Good(mem, made, dressed, layout.holds, cutShort)' /\ Good(disk, made, dressed, layout.holds, cutShort)'
    BY <2>2, <2>3, GoodBoth
  <2>8. Queue' = mem'.pending /\ Queue = mem.pending
    BY <1>a DEF Queue, Following, SendMessage
  <2>10. mem.sent \subseteq FollowUp /\ mem.pending \subseteq FollowUp /\ mem.capped \subseteq FollowUp /\ mem.counted \in Nat
    BY <1>s, StateFields, Kinds
  <2>5. /\ Cardinality(mem.sent) \in Nat /\ Cardinality(mem.pending) \in Nat /\ Cardinality(mem.capped) \in Nat
        /\ Cardinality(mem.sent \union {f}) = Cardinality(mem.sent) + 1
        /\ Cardinality(mem.pending \union {f}) \in Nat
        /\ Cardinality(mem.pending \union {f}) <= Cardinality(mem.pending) + 1
    <3>1. IsFiniteSet(mem.sent) /\ IsFiniteSet(mem.pending) /\ f \notin mem.sent
      BY <1>a, <2>10, FollowUpsFinite
    <3>2. Cardinality(mem.sent) \in Nat /\ Cardinality(mem.pending) \in Nat /\ Cardinality(mem.capped) \in Nat
      BY <2>10, FollowUpsFinite
    <3>3. Cardinality(mem.sent \union {f}) = Cardinality(mem.sent) + 1
      BY <3>1, FS_AddElement
    <3>4. /\ Cardinality(mem.pending \union {f}) \in Nat
          /\ Cardinality(mem.pending \union {f}) <= Cardinality(mem.pending) + 1
      BY <3>1, AddCount
    <3>. QED  BY <3>2, <3>3, <3>4
  <2>6. Balance(mem, mem.pending, recounted)
    BY <1>i, <1>a, <2>8 DEF Records
  <2>7. recounted \/ mem.counted + Cardinality(mem.pending \union {f}) + Cardinality(mem.capped)
                       <= Cardinality(mem.sent \union {f})
    BY <2>10, <2>5, <2>6 DEF Balance
  <2>9. Balance(mem', mem'.pending, recounted)
    BY <1>m, <2>7 DEF Balance
  <2>. QED  BY <1>a, <2>3, <2>4, <2>8, <2>9 DEF Records
<1>3. Position'
  BY <1>i, <1>s, <1>c, <1>a, <1>m, PhaseOrder DEF Position, Unsaved, SendMessage, vars, service, frame, bounds
<1>4. Lockstep'
  BY <1>i, <1>s, <1>c, <1>a, <1>m DEF Lockstep, SendMessage, vars, service, frame, bounds
<1>5. Handled'
  BY <1>i, <1>s, <1>c, <1>a, <1>m DEF Handled, Named, SendMessage, vars, service, frame, bounds
<1>6. Doing'
  BY <1>i, <1>s, <1>c, <1>a, <1>m, Kinds DEF Doing, Following, Others, SendMessage, vars, service, frame, bounds
<1>7. Granting'
  BY <1>i, <1>s, <1>c, <1>a, <1>m DEF Granting, Named, SendMessage, vars, service, frame, bounds
<1>8. ChannelsDressed'
  BY <1>i, <1>s, <1>c, <1>a, <1>m DEF ChannelsDressed, Named, SendMessage, vars, service, frame, bounds
<1>9. Placed'
  BY <1>i, <1>s, <1>c, <1>a, <1>m DEF Placed, SendMessage, vars, service, frame, bounds
<1>10. Past'
  BY <1>i, <1>s, <1>a, <1>m, PastSame DEF SendMessage, service, bounds
<1>11. Numbers'
  BY <1>i, <1>s, <1>a, <1>m, NumbersSame DEF SendMessage, service, bounds
<1>12. OrphansExplained'
  BY <1>i, <1>s, <1>a, <1>m, OrphansInRun DEF SendMessage, service, bounds
<1>. QED  BY <1>1, <1>2, <1>3, <1>4, <1>5, <1>6, <1>7, <1>8, <1>9, <1>10, <1>11, <1>12 DEF IInv

LEMMA ApplyKept ==
    ASSUME IInv, Apply
    PROVE  IInv'
<1>i. /\ TypeOK /\ Records /\ Position /\ Lockstep /\ Handled /\ Doing /\ Granting
      /\ ChannelsDressed /\ Placed /\ Past /\ Numbers /\ OrphansExplained
  BY DEF IInv
<1>s. /\ runs \in Nat /\ ends \in Nat /\ losses \in Nat
      /\ runs <= MaxRuns /\ ends <= MaxEnds /\ losses <= MaxLosses
      /\ mem \in State /\ disk \in State /\ made \in [Resource -> Nat]
      /\ \A i \in Resource : made[i] \in Nat /\ mem.map[i] \in Nat /\ disk.map[i] \in Nat
      /\ next \in 1..11 /\ Rank(mem.phase) \in 0..11 /\ Rank(disk.phase) \in 0..11
      /\ mem.phase \in Name /\ disk.phase \in Name
  BY <1>i, Shapes
<1>b. /\ mode # "none" /\ Following /\ phase \in {"reactions", "pins"} /\ stage = "loop"
  BY <1>i, StageOf DEF Apply, Position, TypeOK, Following
<1>c. PICK f \in todo : /\ todo' = todo \ {f} /\ applied' = applied \union {f}
        /\ mem' = [mem EXCEPT !.counted = mem.counted + 1, !.tally = mem.tally \union ({f} \cap Reaction)]
  BY DEF Apply
<1>k. /\ todo \cap Others = {} /\ rest \cap Others = {} /\ todo \cap rest = {} /\ Queue = Others \union rest \union todo
      /\ todo \subseteq FollowUp /\ rest \subseteq FollowUp /\ Others \subseteq mem.pending
  BY <1>i, <1>b, Kinds DEF Doing, Others, Queue
<1>w. /\ mem.sent \subseteq FollowUp /\ mem.pending \subseteq FollowUp /\ mem.capped \subseteq Reaction /\ mem.counted \in Nat
      /\ mem.tally \subseteq Reaction
  BY <1>s, StateFields
<1>a. /\ Apply /\ disk' = disk /\ rest' = rest /\ mode # "none"
  BY <1>b DEF Apply
<1>m. /\ mem' \in State /\ mem'.map = mem.map /\ mem'.finalized = mem.finalized /\ mem'.cats = mem.cats
      /\ mem'.sent = mem.sent /\ mem'.phase = mem.phase /\ mem'.placed = mem.placed
      /\ mem'.pending = mem.pending /\ mem'.counted = mem.counted + 1 /\ mem'.capped = mem.capped
  <2>1. mem.counted + 1 \in Nat /\ mem.tally \union ({f} \cap Reaction) \in SUBSET Reaction
    BY <1>w
  <2>3. mem' \in State
    BY <1>c, <1>s, <2>1, StateWith
  <2>. QED  BY <1>c, <1>s, <2>1, <2>3 DEF State
<1>1. TypeOK'
  BY <1>i, <1>s, <1>b, <1>c, <1>k, <1>w, <1>a, <1>m, Kinds, StageOf, Limits, PhaseOrder DEF TypeOK, Apply, vars, service, frame, bounds
<1>2. Records'
  <2>1. Good(mem, made, dressed, layout.holds, cutShort)
    BY <1>i, <1>a DEF Records
  <2>2. Good(mem', made, dressed, layout.holds, cutShort)
    BY <1>a, <1>m, <2>1, GoodSame
  <2>3. /\ made' = made /\ dressed' = dressed /\ layout' = layout /\ cutShort' = cutShort
        /\ mode' = mode /\ recounted' = recounted /\ (disk' = disk \/ disk' = mem')
    BY <1>a DEF Apply, service, bounds, frame
  <2>4. Good(mem, made, dressed, layout.holds, cutShort)' /\ Good(disk, made, dressed, layout.holds, cutShort)'
    BY <2>2, <2>3, GoodBoth
  <2>5. Queue \subseteq FollowUp /\ IsFiniteSet(Queue)
    BY <1>i, QueueFinite, FollowUpsFinite
  <2>6. Others' = Others /\ Following'
    BY <1>a, <1>b, <1>m DEF Apply, Others, Following
  <2>7. Queue' \subseteq Queue \ {f} /\ f \in Queue
    BY <1>a, <1>c, <1>k, <2>6 DEF Queue
  <2>8. Cardinality(Queue') \in Nat /\ Cardinality(Queue) \in Nat /\ Cardinality(Queue') + 1 <= Cardinality(Queue)
    BY <2>5, <2>7, TakeCount
  <2>9. Balance(mem, Queue, recounted) /\ Balance(disk, disk.pending, recounted)
    BY <1>i, <1>b DEF Records
  <2>10. /\ Cardinality(mem.sent) \in Nat /\ Cardinality(mem.capped) \in Nat
    BY <1>w, FollowUpsFinite, Kinds
  <2>11. Balance(mem', Queue', recounted)
    <3>1. recounted \/ (mem.counted + 1) + Cardinality(Queue') + Cardinality(mem.capped) <= Cardinality(mem.sent)
      BY <1>w, <2>8, <2>9, <2>10 DEF Balance
    <3>. QED  BY <3>1, <1>m DEF Balance
  <2>. QED  BY <1>a, <2>3, <2>4, <2>9, <2>11 DEF Records
<1>3. Position'
  BY <1>i, <1>s, <1>b, <1>c, <1>k, <1>w, <1>a, <1>m, PhaseOrder DEF Position, Unsaved, Apply, vars, service, frame, bounds
<1>4. Lockstep'
  BY <1>i, <1>s, <1>b, <1>c, <1>k, <1>w, <1>a, <1>m DEF Lockstep, Apply, vars, service, frame, bounds
<1>5. Handled'
  BY <1>i, <1>s, <1>b, <1>c, <1>k, <1>w, <1>a, <1>m DEF Handled, Named, Apply, vars, service, frame, bounds
<1>6. Doing'
  BY <1>i, <1>s, <1>b, <1>c, <1>k, <1>w, <1>a, <1>m, Kinds DEF Doing, Following, Others, Apply, vars, service, frame, bounds
<1>7. Granting'
  BY <1>i, <1>s, <1>b, <1>c, <1>k, <1>w, <1>a, <1>m DEF Granting, Named, Apply, vars, service, frame, bounds
<1>8. ChannelsDressed'
  BY <1>i, <1>s, <1>b, <1>c, <1>k, <1>w, <1>a, <1>m DEF ChannelsDressed, Named, Apply, vars, service, frame, bounds
<1>9. Placed'
  BY <1>i, <1>s, <1>b, <1>c, <1>k, <1>w, <1>a, <1>m DEF Placed, Apply, vars, service, frame, bounds
<1>10. Past'
  BY <1>i, <1>s, <1>a, <1>m, PastSame DEF Apply, service, bounds
<1>11. Numbers'
  BY <1>i, <1>s, <1>a, <1>m, NumbersSame DEF Apply, service, bounds
<1>12. OrphansExplained'
  BY <1>i, <1>s, <1>a, <1>m, OrphansInRun DEF Apply, service, bounds
<1>. QED  BY <1>1, <1>2, <1>3, <1>4, <1>5, <1>6, <1>7, <1>8, <1>9, <1>10, <1>11, <1>12 DEF IInv

LEMMA SkipCappedKept ==
    ASSUME IInv, SkipCapped
    PROVE  IInv'
<1>i. /\ TypeOK /\ Records /\ Position /\ Lockstep /\ Handled /\ Doing /\ Granting
      /\ ChannelsDressed /\ Placed /\ Past /\ Numbers /\ OrphansExplained
  BY DEF IInv
<1>s. /\ runs \in Nat /\ ends \in Nat /\ losses \in Nat
      /\ runs <= MaxRuns /\ ends <= MaxEnds /\ losses <= MaxLosses
      /\ mem \in State /\ disk \in State /\ made \in [Resource -> Nat]
      /\ \A i \in Resource : made[i] \in Nat /\ mem.map[i] \in Nat /\ disk.map[i] \in Nat
      /\ next \in 1..11 /\ Rank(mem.phase) \in 0..11 /\ Rank(disk.phase) \in 0..11
      /\ mem.phase \in Name /\ disk.phase \in Name
  BY <1>i, Shapes
<1>b. /\ mode # "none" /\ Following /\ phase \in {"reactions", "pins"} /\ stage = "loop"
  BY <1>i, StageOf DEF SkipCapped, Position, TypeOK, Following
<1>c. PICK f \in todo : /\ todo' = todo \ {f} /\ f \in Reaction
        /\ mem' = [mem EXCEPT !.capped = mem.capped \union {f}]
  BY DEF SkipCapped, Cap
<1>k. /\ todo \cap Others = {} /\ rest \cap Others = {} /\ todo \cap rest = {} /\ Queue = Others \union rest \union todo
      /\ todo \subseteq FollowUp /\ rest \subseteq FollowUp /\ Others \subseteq mem.pending
  BY <1>i, <1>b, Kinds DEF Doing, Others, Queue
<1>w. /\ mem.sent \subseteq FollowUp /\ mem.pending \subseteq FollowUp /\ mem.capped \subseteq Reaction /\ mem.counted \in Nat
      /\ mem.tally \subseteq Reaction
  BY <1>s, StateFields
<1>a. /\ SkipCapped /\ disk' = disk /\ rest' = rest /\ mode # "none"
  BY <1>b DEF SkipCapped
<1>m. /\ mem' \in State /\ mem'.map = mem.map /\ mem'.finalized = mem.finalized /\ mem'.cats = mem.cats
      /\ mem'.sent = mem.sent /\ mem'.phase = mem.phase /\ mem'.placed = mem.placed
      /\ mem'.pending = mem.pending /\ mem'.counted = mem.counted /\ mem'.capped = mem.capped \union {f}
  <2>1. mem.capped \union {f} \in SUBSET Reaction
    BY <1>c, <1>w
  <2>3. mem' \in State
    BY <1>c, <1>s, <2>1, StateWith
  <2>. QED  BY <1>c, <1>s, <2>1, <2>3 DEF State
<1>1. TypeOK'
  BY <1>i, <1>s, <1>b, <1>c, <1>k, <1>w, <1>a, <1>m, Kinds, StageOf, Limits, PhaseOrder DEF TypeOK, SkipCapped, vars, service, frame, bounds
<1>2. Records'
  <2>1. Good(mem, made, dressed, layout.holds, cutShort)
    BY <1>i, <1>a DEF Records
  <2>2. Good(mem', made, dressed, layout.holds, cutShort)
    BY <1>a, <1>m, <2>1, GoodSame
  <2>3. /\ made' = made /\ dressed' = dressed /\ layout' = layout /\ cutShort' = cutShort
        /\ mode' = mode /\ recounted' = recounted /\ (disk' = disk \/ disk' = mem')
    BY <1>a DEF SkipCapped, service, bounds, frame
  <2>4. Good(mem, made, dressed, layout.holds, cutShort)' /\ Good(disk, made, dressed, layout.holds, cutShort)'
    BY <2>2, <2>3, GoodBoth
  <2>5. Queue \subseteq FollowUp /\ IsFiniteSet(Queue)
    BY <1>i, QueueFinite, FollowUpsFinite
  <2>6. Others' = Others /\ Following'
    BY <1>a, <1>b, <1>m DEF SkipCapped, Others, Following
  <2>7. Queue' \subseteq Queue \ {f} /\ f \in Queue
    BY <1>a, <1>c, <1>k, <2>6 DEF Queue
  <2>8. Cardinality(Queue') \in Nat /\ Cardinality(Queue) \in Nat /\ Cardinality(Queue') + 1 <= Cardinality(Queue)
    BY <2>5, <2>7, TakeCount
  <2>9. Balance(mem, Queue, recounted) /\ Balance(disk, disk.pending, recounted)
    BY <1>i, <1>b DEF Records
  <2>10. /\ Cardinality(mem.sent) \in Nat /\ Cardinality(mem.capped) \in Nat
        /\ Cardinality(mem.capped \union {f}) \in Nat
        /\ Cardinality(mem.capped \union {f}) <= Cardinality(mem.capped) + 1
    BY <1>w, FollowUpsFinite, Kinds, AddCount
  <2>11. Balance(mem', Queue', recounted)
    <3>1. recounted \/ mem.counted + Cardinality(Queue') + Cardinality(mem.capped \union {f}) <= Cardinality(mem.sent)
      BY <1>w, <2>8, <2>9, <2>10 DEF Balance
    <3>. QED  BY <3>1, <1>m DEF Balance
  <2>. QED  BY <1>a, <2>3, <2>4, <2>9, <2>11 DEF Records
<1>3. Position'
  BY <1>i, <1>s, <1>b, <1>c, <1>k, <1>w, <1>a, <1>m, PhaseOrder DEF Position, Unsaved, SkipCapped, vars, service, frame, bounds
<1>4. Lockstep'
  BY <1>i, <1>s, <1>b, <1>c, <1>k, <1>w, <1>a, <1>m DEF Lockstep, SkipCapped, vars, service, frame, bounds
<1>5. Handled'
  BY <1>i, <1>s, <1>b, <1>c, <1>k, <1>w, <1>a, <1>m DEF Handled, Named, SkipCapped, vars, service, frame, bounds
<1>6. Doing'
  BY <1>i, <1>s, <1>b, <1>c, <1>k, <1>w, <1>a, <1>m, Kinds DEF Doing, Following, Others, SkipCapped, vars, service, frame, bounds
<1>7. Granting'
  BY <1>i, <1>s, <1>b, <1>c, <1>k, <1>w, <1>a, <1>m DEF Granting, Named, SkipCapped, vars, service, frame, bounds
<1>8. ChannelsDressed'
  BY <1>i, <1>s, <1>b, <1>c, <1>k, <1>w, <1>a, <1>m DEF ChannelsDressed, Named, SkipCapped, vars, service, frame, bounds
<1>9. Placed'
  BY <1>i, <1>s, <1>b, <1>c, <1>k, <1>w, <1>a, <1>m DEF Placed, SkipCapped, vars, service, frame, bounds
<1>10. Past'
  BY <1>i, <1>s, <1>a, <1>m, PastSame DEF SkipCapped, service, bounds
<1>11. Numbers'
  BY <1>i, <1>s, <1>a, <1>m, NumbersSame DEF SkipCapped, service, bounds
<1>12. OrphansExplained'
  BY <1>i, <1>s, <1>a, <1>m, OrphansInRun DEF SkipCapped, service, bounds
<1>. QED  BY <1>1, <1>2, <1>3, <1>4, <1>5, <1>6, <1>7, <1>8, <1>9, <1>10, <1>11, <1>12 DEF IInv

LEMMA ApplyFailsKept ==
    ASSUME IInv, ApplyFails
    PROVE  IInv'
<1>i. /\ TypeOK /\ Records /\ Position /\ Lockstep /\ Handled /\ Doing /\ Granting
      /\ ChannelsDressed /\ Placed /\ Past /\ Numbers /\ OrphansExplained
  BY DEF IInv
<1>s. /\ runs \in Nat /\ ends \in Nat /\ losses \in Nat
      /\ runs <= MaxRuns /\ ends <= MaxEnds /\ losses <= MaxLosses
      /\ mem \in State /\ disk \in State /\ made \in [Resource -> Nat]
      /\ \A i \in Resource : made[i] \in Nat /\ mem.map[i] \in Nat /\ disk.map[i] \in Nat
      /\ next \in 1..11 /\ Rank(mem.phase) \in 0..11 /\ Rank(disk.phase) \in 0..11
      /\ mem.phase \in Name /\ disk.phase \in Name
  BY <1>i, Shapes
<1>b. /\ mode # "none" /\ Following /\ phase \in {"reactions", "pins"} /\ stage = "loop"
  BY <1>i, StageOf DEF ApplyFails, Position, TypeOK, Following
<1>c. PICK f \in todo : /\ todo' = todo \ {f} /\ rest' = rest \union {f}
        /\ applied' \in {applied, applied \union {f}}
  BY DEF ApplyFails
<1>k. /\ todo \cap Others = {} /\ rest \cap Others = {} /\ todo \cap rest = {} /\ Queue = Others \union rest \union todo
      /\ todo \subseteq FollowUp /\ rest \subseteq FollowUp /\ Others \subseteq mem.pending
  BY <1>i, <1>b, Kinds DEF Doing, Others, Queue
<1>1. TypeOK'
  BY <1>i, <1>s, <1>b, <1>c, <1>k, Kinds, StageOf, Limits, PhaseOrder DEF TypeOK, ApplyFails, vars, service, frame, bounds
<1>2. Records'
  <2>1. Queue' = Queue /\ Following'
    BY <1>b, <1>c, <1>k DEF ApplyFails, Queue, Others, Following
  <2>2. Good(mem, made, dressed, layout.holds, cutShort)' /\ Good(disk, made, dressed, layout.holds, cutShort)'
    BY <1>i, <1>b DEF Records, ApplyFails, service
  <2>. QED  BY <1>i, <2>1, <2>2 DEF Records, ApplyFails
<1>3. Position'
  BY <1>i, <1>s, <1>b, <1>c, <1>k, PhaseOrder DEF Position, Unsaved, ApplyFails, vars, service, frame, bounds
<1>4. Lockstep'
  BY <1>i, <1>s, <1>b, <1>c, <1>k DEF Lockstep, ApplyFails, vars, service, frame, bounds
<1>5. Handled'
  BY <1>i, <1>s, <1>b, <1>c, <1>k DEF Handled, Named, ApplyFails, vars, service, frame, bounds
<1>6. Doing'
  BY <1>i, <1>s, <1>b, <1>c, <1>k, Kinds DEF Doing, Following, Others, ApplyFails, vars, service, frame, bounds
<1>7. Granting'
  BY <1>i, <1>s, <1>b, <1>c, <1>k DEF Granting, Named, ApplyFails, vars, service, frame, bounds
<1>8. ChannelsDressed'
  BY <1>i, <1>s, <1>b, <1>c, <1>k DEF ChannelsDressed, Named, ApplyFails, vars, service, frame, bounds
<1>9. Placed'
  BY <1>i, <1>s, <1>b, <1>c, <1>k DEF Placed, ApplyFails, vars, service, frame, bounds
<1>10. Past'
  BY <1>i, <1>s, <1>b, <1>c, <1>k, PhaseOrder DEF Past, Unsaved, ApplyFails, vars, service, frame, bounds
<1>11. Numbers'
  BY <1>i, <1>s, <1>b, <1>c, <1>k DEF Numbers, ApplyFails, vars, service, frame, bounds
<1>12. OrphansExplained'
  BY <1>i, <1>s, <1>b, <1>c, <1>k, OrphansKept DEF Known, ApplyFails, vars, service, frame, bounds
<1>. QED  BY <1>1, <1>2, <1>3, <1>4, <1>5, <1>6, <1>7, <1>8, <1>9, <1>10, <1>11, <1>12 DEF IInv

LEMMA CheckpointKept ==
    ASSUME IInv, Checkpoint
    PROVE  IInv'
<1>i. /\ TypeOK /\ Records /\ Position /\ Lockstep /\ Handled /\ Doing /\ Granting
      /\ ChannelsDressed /\ Placed /\ Past /\ Numbers /\ OrphansExplained
  BY DEF IInv
<1>s. /\ runs \in Nat /\ ends \in Nat /\ losses \in Nat
      /\ runs <= MaxRuns /\ ends <= MaxEnds /\ losses <= MaxLosses
      /\ mem \in State /\ disk \in State /\ made \in [Resource -> Nat]
      /\ \A i \in Resource : made[i] \in Nat /\ mem.map[i] \in Nat /\ disk.map[i] \in Nat
      /\ next \in 1..11 /\ Rank(mem.phase) \in 0..11 /\ Rank(disk.phase) \in 0..11
      /\ mem.phase \in Name /\ disk.phase \in Name
  BY <1>i, Shapes
<1>b. /\ mode # "none" /\ Following /\ phase \in {"reactions", "pins"} /\ stage = "loop"
  BY <1>i, StageOf DEF Checkpoint, Position, TypeOK, Following
<1>k. /\ todo \cap Others = {} /\ rest \cap Others = {} /\ todo \cap rest = {} /\ Queue = Others \union rest \union todo
      /\ todo \subseteq FollowUp /\ rest \subseteq FollowUp /\ Others \subseteq mem.pending
  BY <1>i, <1>b, Kinds DEF Doing, Others, Queue
<1>w. /\ mem.sent \subseteq FollowUp /\ mem.pending \subseteq FollowUp /\ mem.capped \subseteq Reaction /\ mem.counted \in Nat
      /\ mem.tally \subseteq Reaction
  BY <1>s, StateFields
<1>a. /\ Checkpoint /\ disk' = mem' /\ rest' = rest /\ todo' = todo /\ mode # "none"
  BY <1>b DEF Checkpoint, frame
<1>m. /\ mem' \in State /\ mem'.map = mem.map /\ mem'.finalized = mem.finalized /\ mem'.cats = mem.cats
      /\ mem'.sent = mem.sent /\ mem'.phase = mem.phase /\ mem'.placed = mem.placed
      /\ mem'.pending = Queue /\ mem'.counted = mem.counted /\ mem'.capped = mem.capped
  <2>1. Queue \in SUBSET FollowUp
    BY <1>i, QueueFinite
  <2>2. mem' = [mem EXCEPT !.pending = Queue]
    BY <1>k DEF Checkpoint
  <2>3. mem' \in State
    BY <1>s, <2>1, <2>2, StateWith
  <2>. QED  BY <1>s, <2>1, <2>2, <2>3 DEF State
<1>1. TypeOK'
  BY <1>i, <1>s, <1>b, <1>k, <1>w, <1>a, <1>m, Kinds, StageOf, Limits, PhaseOrder DEF TypeOK, Checkpoint, vars, service, frame, bounds
<1>2. Records'
  <2>1. Good(mem, made, dressed, layout.holds, cutShort)
    BY <1>i, <1>a DEF Records
  <2>2. Good(mem', made, dressed, layout.holds, cutShort)
    BY <1>a, <1>m, <2>1, GoodSame
  <2>3. /\ made' = made /\ dressed' = dressed /\ layout' = layout /\ cutShort' = cutShort
        /\ mode' = mode /\ recounted' = recounted /\ (disk' = disk \/ disk' = mem')
    BY <1>a DEF Checkpoint, service, bounds, frame
  <2>4. Good(mem, made, dressed, layout.holds, cutShort)' /\ Good(disk, made, dressed, layout.holds, cutShort)'
    BY <2>2, <2>3, GoodBoth
  <2>5. Queue \subseteq FollowUp /\ IsFiniteSet(Queue)
    BY <1>i, QueueFinite, FollowUpsFinite
  <2>6. Others' = Others /\ Following'
    BY <1>a, <1>b, <1>k, <1>m, <1>i, Kinds DEF Checkpoint, Others, Following, Doing, frame
  <2>7. Queue' = Queue
    BY <1>a, <1>k, <2>6 DEF Queue
  <2>9. Balance(mem, Queue, recounted) /\ Balance(disk, disk.pending, recounted)
    BY <1>i, <1>b DEF Records
  <2>11. Balance(mem', Queue', recounted) /\ Balance(disk', disk'.pending, recounted)
    BY <1>a, <1>m, <2>7, <2>9 DEF Balance
  <2>. QED  BY <1>a, <2>3, <2>4, <2>9, <2>11 DEF Records
<1>3. Position'
  BY <1>i, <1>s, <1>b, <1>k, <1>w, <1>a, <1>m, PhaseOrder DEF Position, Unsaved, Checkpoint, vars, service, frame, bounds
<1>4. Lockstep'
  BY <1>i, <1>s, <1>b, <1>k, <1>w, <1>a, <1>m DEF Lockstep, Checkpoint, vars, service, frame, bounds
<1>5. Handled'
  BY <1>i, <1>s, <1>b, <1>k, <1>w, <1>a, <1>m DEF Handled, Named, Checkpoint, vars, service, frame, bounds
<1>6. Doing'
  BY <1>i, <1>s, <1>b, <1>k, <1>w, <1>a, <1>m, Kinds DEF Doing, Following, Others, Checkpoint, vars, service, frame, bounds
<1>7. Granting'
  BY <1>i, <1>s, <1>b, <1>k, <1>w, <1>a, <1>m DEF Granting, Named, Checkpoint, vars, service, frame, bounds
<1>8. ChannelsDressed'
  BY <1>i, <1>s, <1>b, <1>k, <1>w, <1>a, <1>m DEF ChannelsDressed, Named, Checkpoint, vars, service, frame, bounds
<1>9. Placed'
  BY <1>i, <1>s, <1>b, <1>k, <1>w, <1>a, <1>m DEF Placed, Checkpoint, vars, service, frame, bounds
<1>10. Past'
  BY <1>i, <1>s, <1>a, <1>m, PastSame DEF Checkpoint, frame, service, bounds
<1>11. Numbers'
  BY <1>i, <1>s, <1>a, <1>m, NumbersSame DEF Checkpoint, frame, service, bounds
<1>12. OrphansExplained'
  BY <1>i, <1>s, <1>a, <1>m, OrphansInRun DEF Checkpoint, frame, service, bounds
<1>. QED  BY <1>1, <1>2, <1>3, <1>4, <1>5, <1>6, <1>7, <1>8, <1>9, <1>10, <1>11, <1>12 DEF IInv

LEMMA SettleKept ==
    ASSUME IInv, Settle
    PROVE  IInv'
<1>i. /\ TypeOK /\ Records /\ Position /\ Lockstep /\ Handled /\ Doing /\ Granting
      /\ ChannelsDressed /\ Placed /\ Past /\ Numbers /\ OrphansExplained
  BY DEF IInv
<1>s. /\ runs \in Nat /\ ends \in Nat /\ losses \in Nat
      /\ runs <= MaxRuns /\ ends <= MaxEnds /\ losses <= MaxLosses
      /\ mem \in State /\ disk \in State /\ made \in [Resource -> Nat]
      /\ \A i \in Resource : made[i] \in Nat /\ mem.map[i] \in Nat /\ disk.map[i] \in Nat
      /\ next \in 1..11 /\ Rank(mem.phase) \in 0..11 /\ Rank(disk.phase) \in 0..11
      /\ mem.phase \in Name /\ disk.phase \in Name
  BY <1>i, Shapes
<1>h. /\ mode # "none" /\ Following /\ next > 8 /\ stage = "loop" /\ todo = {} /\ PhaseOver(mem')
      /\ mem' = [mem EXCEPT !.pending = Others \union rest]
      /\ made' = made /\ dressed' = dressed /\ applied' = applied /\ layout' = layout
  <2>1. PhaseOver([mem EXCEPT !.pending = Others \union rest]) /\ Following
    BY DEF Settle
  <2>2. mem' = [mem EXCEPT !.pending = Others \union rest]
    BY <2>1 DEF PhaseOver
  <2>3. mode # "none" /\ next > 8
    BY <1>i, <1>s, <2>1, PhaseOrder, PhaseDistinct DEF Position, Following
  <2>4. stage = "loop"
    BY <1>i, <2>1, StageOf DEF TypeOK, Following
  <2>. QED  BY <2>1, <2>2, <2>3, <2>4 DEF Settle, service
<1>g. Good(mem, made, dressed, layout.holds, cutShort)
  BY <1>i, <1>h DEF Records
<1>r. /\ \A r \in mem.finalized : mem.map[r] # 0 /\ <<r, mem.map[r]>> \in dressed
      /\ \A c \in Channel, n \in Nat : <<c, n>> \in layout.holds => c \in mem.placed /\ mem.map[c] = n
      /\ \A c \in mem.placed : mem.map[c] # 0
  BY <1>g DEF Good
<1>t. layout \in [cats : SUBSET Category, holds : SUBSET (Channel \X Nat)]
  BY <1>i DEF TypeOK
<1>b. Balance(mem, Queue, recounted)
  BY <1>i, <1>h DEF Records
<1>m. /\ mem' \in State /\ mem'.map = mem.map /\ mem'.placed = mem.placed /\ mem'.sent = mem.sent /\ mem'.phase = mem.phase
      /\ mem'.finalized = mem.finalized /\ mem'.pending = Others \union rest /\ mem'.cats = mem.cats
      /\ mem'.counted = mem.counted /\ mem'.capped = mem.capped
  <2>1. Others \union rest \in SUBSET FollowUp
    BY <1>i, <1>s, StateFields DEF Others, TypeOK
  <2>2. mem' \in State
    BY <1>s, <1>h, <2>1, StateWith
  <2>. QED  BY <1>s, <1>h, <2>2 DEF State
<1>1. \A r \in mem'.finalized : mem.map[r] # 0 /\ <<r, mem.map[r]>> \in dressed
  BY <1>m, <1>r
<1>2. ~cutShort => \A r \in Role : mem.map[r] # 0 => r \in mem'.finalized
  BY <1>i, <1>s, <1>h, <1>m DEF Past
<1>3. ~cutShort => Settled(mem', seen, layout.cats, layout.holds)
  BY <1>i, <1>s, <1>h, <1>m DEF Past, Settled
<1>4. Balance(mem', mem'.pending, recounted)
  BY <1>h, <1>m, <1>b DEF Queue, Balance
<1>5. stage \notin {"save", "dress"} /\ phase # "between"
  BY <1>h DEF Following
<1>. QED
  <2>. HIDE DEF Settled, Balance
  <2>. QED  BY <1>i, <1>h, <1>m, <1>r, <1>t, <1>1, <1>2, <1>3, <1>4, <1>5, PhaseOverKept

-----------------------------------------------------------------------------
(* The theorems.                                                           *)

LEMMA StepKept ==
    ASSUME IInv, [Next]_vars
    PROVE  IInv'
<1>1. CASE \E m \in {"fresh"} \union Continuations : Begin(m)
  BY <1>1, BeginKept
<1>2. CASE Crash \/ RequestCancel \/ StopMessages \/ Interrupt \/ Raise \/ StopOnCancel \/ Report
  BY <1>2, CrashKept, RequestCancelKept, StopMessagesKept, InterruptKept, RaiseKept, StopOnCancelKept, ReportKept
<1>3. CASE Skip \/ Enter \/ EndPhase
  BY <1>3, SkipKept, EnterKept, EndPhaseKept
<1>4. CASE \/ CreateServer \/ CreateRole \/ CreateChannel \/ CreateLost \/ RolesFull \/ SaveCreated
           \/ CreateEmoji \/ UploadAvatar \/ LeaveOut
  BY <1>4, CreatesKept, CreateLostKept, RolesFullKept, SaveCreatedKept, UploadsKept, LeaveOutKept
<1>5. CASE StyleRoles \/ StyleRole \/ GrantRoles \/ GrantRole \/ GrantDefault \/ FinalizeRoles
  BY <1>5, StyleRolesKept, StyleRoleKept, GrantRolesKept, GrantRoleKept, GrantDefaultKept, FinalizeRolesKept
<1>6. CASE \/ RunCategories \/ Dress \/ DressRefused \/ DressUncertain \/ Place
           \/ VerifyCarried \/ UpsertCategories
  BY <1>6, RunCategoriesKept, DressKept, DressStopsKept, PlaceKept, VerifyCarriedKept, UpsertCategoriesKept
<1>7. CASE SendMessage \/ Apply \/ SkipCapped \/ ApplyFails \/ Checkpoint \/ Settle
  BY <1>7, SendMessageKept, ApplyKept, SkipCappedKept, ApplyFailsKept, CheckpointKept, SettleKept
<1>8. CASE UNCHANGED vars
  BY <1>8, StutterKept
<1>. QED  BY <1>1, <1>2, <1>3, <1>4, <1>5, <1>6, <1>7, <1>8 DEF Next

LEMMA Inductive == Spec => []IInv
<1>1. Init => IInv
  BY InitHolds
<1>2. IInv /\ [Next]_vars => IInv'
  BY StepKept
<1>. QED  BY <1>1, <1>2, PTL DEF Spec

\* However the runs follow one another, die, are cancelled or interrupted: no server,
\* role or channel exists that the record does not name, beyond one for each lost
\* answer and each run that ended early; a role on record as finalized and a channel
\* that messages went to carry their permissions; and no reaction or pin is counted
\* twice, or counted and queued (engine.py _run_phases, structure.py, reactions.py).
THEOREM MigrationInvariant == Spec => []MigrationInv
<1>1. IInv => MigrationInv
  <2> SUFFICES ASSUME IInv PROVE MigrationInv
    OBVIOUS
  <2>1. /\ TypeOK /\ OrphansExplained
        /\ Good(disk, made, dressed, layout.holds, cutShort)
        /\ mode # "none" => Good(mem, made, dressed, layout.holds, cutShort)
        /\ Balance(disk, disk.pending, recounted)
    BY DEF IInv, Records
  <2>2. FinalizedDressed
    BY <2>1 DEF FinalizedDressed, Named, Good
  <2>3. SentBehindAccess
    BY <2>1 DEF SentBehindAccess, Named, Known, Good
  <2>4. CountedOnce
    BY <2>1 DEF CountedOnce, Balance
  <2>. QED  BY <2>1, <2>2, <2>3, <2>4 DEF MigrationInv
<1>. QED  BY <1>1, Inductive, PTL

\* What a run past its channels phase relies on, also one that was resumed there and
\* skipped the phases before: every role is finalized, every channel of the export
\* exists, carries its permissions and stands in the server's list with its category.
\* Except when the phase in state.json is another run's, or the phases were interrupted
\* and the report followed all the same (cutShort).
THEOREM PastHolds == Spec => []PastChannels
<1>1. IInv => PastChannels
  <2> SUFFICES ASSUME IInv, mode # "none", ~cutShort, Rank(mem.phase) > Rank("channels")
               PROVE  /\ Role \subseteq mem.finalized
                      /\ seen \subseteq Mapped(mem, Channel)
                      /\ \A i \in Role \union seen : Named(mem, i) \in dressed
                      /\ mem.cats \subseteq layout.cats
                      /\ {Named(mem, c) : c \in mem.placed \union seen} \subseteq layout.holds
    BY DEF PastChannels, SkippedIsDone, LayoutComplete
  <2>1. /\ TypeOK /\ Position /\ ChannelsDressed /\ Past /\ Numbers
        /\ Good(mem, made, dressed, layout.holds, cutShort) /\ Rank(mem.phase) \in 0..11
    BY Shapes DEF IInv, Records
  <2>2. Rank(mem.phase) > 5 /\ phase # "channels"
    BY <2>1, Ranks DEF Position
  <2>3. Settled(mem, seen, layout.cats, layout.holds)
    BY <2>1, <2>2 DEF Past
  <2>4. seen \subseteq Channel /\ seen # {} /\ mem.map \in [Resource -> Nat] /\ Channel \subseteq Resource
    BY <2>1, StateFields, Kinds DEF TypeOK, Numbers
  <2>5. \A c \in seen : mem.map[c] # 0 /\ <<c, mem.map[c]>> \in dressed
    BY <2>1, <2>2, <2>3, <2>4 DEF Settled, ChannelsDressed, Named
  <2>6. \A r \in Role : mem.map[r] # 0
    <3>1. PICK c \in seen : TRUE
      BY <2>4
    <3>2. c \in Channel /\ mem.map[c] \in Nat /\ <<c, mem.map[c]>> \in dressed
      BY <2>4, <2>5
    <3>. QED  BY <2>1, <3>2 DEF Good
  <2>7. \A r \in Role : r \in mem.finalized /\ <<r, mem.map[r]>> \in dressed
    <3>1. Rank(mem.phase) > 3
      BY <2>1, <2>2
    <3>. QED  BY <2>1, <2>6, <3>1 DEF Good
  <2>. QED  BY <2>3, <2>4, <2>5, <2>7 DEF Settled, Mapped, Named
<1>. QED  BY <1>1, Inductive, PTL

LEMMA ListKept ==
    ASSUME IInv, [Next]_vars, mode = "incremental"
    PROVE  layout.holds \subseteq layout'.holds
<1>1. CASE UpsertCategories
  <2>1. layout' = [cats |-> mem.cats, holds |-> {Named(mem, c) : c \in mem.placed}]
    BY <1>1 DEF UpsertCategories
  <2>2. Good(mem, made, dressed, layout.holds, cutShort) /\ layout.holds \subseteq Channel \X Nat
    BY DEF IInv, Records, TypeOK
  <2>3. \A c \in Channel, n \in Nat : <<c, n>> \in layout.holds => <<c, n>> \in layout'.holds
    BY <2>1, <2>2 DEF Good, Named
  <2>. QED  BY <2>2, <2>3
<1>2. CASE RunCategories
  BY <1>2 DEF RunCategories
<1>3. CASE \E m \in {"fresh"} \union Continuations : Begin(m)
  BY <1>3 DEF Begin, service
<1>4. CASE Crash \/ RequestCancel \/ StopMessages \/ Interrupt \/ Raise \/ StopOnCancel \/ Report
  BY <1>4 DEF Crash, RequestCancel, StopMessages, Interrupt, Raise, StopOnCancel, Report, Fail, RunOver, service
<1>5. CASE Skip \/ Enter \/ EndPhase
  BY <1>5 DEF Skip, Enter, EndPhase, service
<1>6. CASE \/ CreateServer \/ CreateRole \/ CreateChannel \/ CreateLost \/ RolesFull \/ SaveCreated
           \/ CreateEmoji \/ UploadAvatar \/ LeaveOut
  BY <1>6 DEF CreateServer, CreateRole, CreateChannel, CreateLost, RolesFull, SaveCreated,
              CreateEmoji, UploadAvatar, LeaveOut, Make, Remember, service
<1>7. CASE StyleRoles \/ StyleRole \/ GrantRoles \/ GrantRole \/ GrantDefault \/ FinalizeRoles
  BY <1>7 DEF StyleRoles, StyleRole, GrantRoles, GrantRole, GrantDefault, Grant, FinalizeRoles, service
<1>8. CASE Dress \/ DressRefused \/ DressUncertain \/ Place \/ VerifyCarried
  BY <1>8 DEF Dress, DressRefused, DressUncertain, PermissionStop, Place, VerifyCarried, service
<1>9. CASE SendMessage \/ Apply \/ SkipCapped \/ ApplyFails \/ Checkpoint \/ Settle
  BY <1>9 DEF SendMessage, Apply, SkipCapped, ApplyFails, Checkpoint, Settle, service
<1>10. CASE UNCHANGED vars
  BY <1>10 DEF vars, service
<1>. QED  BY <1>1, <1>2, <1>3, <1>4, <1>5, <1>6, <1>7, <1>8, <1>9, <1>10 DEF Next

\* What is on record but not in the queue of the phase, and what the run takes out.
LEMMA QueueKept ==
    ASSUME IInv, [Next]_vars, mode # "none", mode' = mode
    PROVE  mem.pending \ mem'.pending \subseteq applied' \union mem'.capped
<1>i. TypeOK /\ Doing /\ mem \in State
  BY Shapes DEF IInv
<1>1. CASE Checkpoint \/ Settle
  <2>1. mem' = [mem EXCEPT !.pending = Others \union rest \union todo] \/ (todo = {} /\ mem' = [mem EXCEPT !.pending = Others \union rest])
    BY <1>1 DEF Checkpoint, Settle, PhaseOver
  <2>2. mem'.pending = Others \union rest \union todo /\ mem'.capped = mem.capped
    BY <1>i, <2>1 DEF State
  <2>3. Following /\ applied' = applied
    BY <1>1 DEF Checkpoint, Settle, service
  <2>. QED  BY <1>i, <2>2, <2>3 DEF Doing
<1>2. CASE SendMessage
  <2>1. PICK f : mem' = [mem EXCEPT !.sent = @ \union {f}, !.pending = @ \union {f}]
    BY <1>2 DEF SendMessage
  <2>. QED  BY <1>i, <2>1 DEF State
<1>3. CASE Apply \/ SkipCapped
  <2>1. mem'.pending = mem.pending
    BY <1>i, <1>3 DEF Apply, SkipCapped, State
  <2>. QED  BY <2>1
<1>4. CASE Enter \/ Place \/ VerifyCarried
  <2>1. mem'.pending = mem.pending
    BY <1>i, <1>4 DEF Enter, Place, VerifyCarried, Placing, State
  <2>. QED  BY <2>1
<1>5. CASE EndPhase \/ FinalizeRoles \/ RunCategories \/ UpsertCategories
  <2>1. mem'.pending = mem.pending
    BY <1>i, <1>5 DEF EndPhase, FinalizeRoles, RunCategories, UpsertCategories, PhaseOver, State
  <2>. QED  BY <2>1
<1>6. CASE CreateServer \/ CreateRole \/ CreateChannel \/ CreateEmoji \/ UploadAvatar
  <2>1. mem'.pending = mem.pending
    BY <1>i, <1>6 DEF CreateServer, CreateRole, CreateChannel, CreateEmoji, UploadAvatar, Make, Remember, State
  <2>. QED  BY <2>1
<1>7. CASE \/ RequestCancel \/ Skip \/ CreateLost \/ RolesFull \/ SaveCreated \/ LeaveOut
           \/ StyleRoles \/ StyleRole \/ GrantRoles \/ GrantRole \/ GrantDefault \/ Dress \/ ApplyFails
           \/ UNCHANGED vars
  <2>1. mem' = mem
    BY <1>7 DEF RequestCancel, Skip, CreateLost, RolesFull, SaveCreated, LeaveOut, StyleRoles, StyleRole,
                GrantRoles, GrantRole, GrantDefault, Grant, Dress, ApplyFails, vars
  <2>. QED  BY <2>1
<1>8. CASE \/ Crash \/ StopMessages \/ Interrupt \/ Raise \/ StopOnCancel \/ Report
           \/ DressRefused \/ DressUncertain
  <2>1. mode' = "none"
    BY <1>8 DEF Crash, StopMessages, Interrupt, Raise, StopOnCancel, Report, Fail, RunOver,
                DressRefused, DressUncertain, PermissionStop
  <2>. QED  BY <2>1
<1>9. CASE \E m \in {"fresh"} \union Continuations : Begin(m)
  BY <1>9 DEF Begin
<1>. QED  BY <1>1, <1>2, <1>3, <1>4, <1>5, <1>6, <1>7, <1>8, <1>9 DEF Next

\* No step of an incremental run takes a channel out of the server's list, and no step
\* of any run drops a reaction or a pin from its queue that is neither in effect at
\* the service nor over the limit of its message.
THEOREM TakenBack == Spec => NothingTakenBack
<1>1. IInv /\ [Next]_vars => [mode = "incremental" => layout.holds \subseteq layout'.holds]_vars
  BY ListKept
<1>2. IInv /\ [Next]_vars =>
        [mode # "none" /\ mode' = mode => mem.pending \ mem'.pending \subseteq applied' \union mem'.capped]_vars
  BY QueueKept
<1>. QED  BY <1>1, <1>2, Inductive, PTL DEF NothingTakenBack, ListingKept, LeavesQueueApplied, Spec
=============================================================================
