---------------------------- MODULE DeliveryProps ----------------------------
(***************************************************************************)
(* The properties of Delivery, and the refinement of AtMostOnce.           *)
(***************************************************************************)
EXTENDS Delivery

\* Type invariant of the delivery state.
TypeOK ==
    /\ DOMAIN receipts = Ref
    /\ \A r \in Ref : receipts[r] = NoReceipt \/ IsReceipt(receipts[r])
    /\ ledger \in [Ref -> {"pending", "failed", "done"}]
    /\ fresh \subseteq Key
    /\ call \in [Ref -> Call]
    /\ wire \subseteq Request
    /\ recent \subseteq Key
    /\ history \subseteq Message
    /\ nextId \in Nat \ {0}
    /\ begun \in Nat

Copies(r, p) == {m \in history : m.key.ref = r /\ m.key.part = p}
InFlight(r, p) == {w \in wire : w.key.ref = r /\ w.key.part = p}

\* No part of a message is ever posted twice, whatever is lost, delayed,
\* retried, resumed or forgotten by Stoat's idempotency cache.
NoDuplicate ==
    \A m, n \in history :
        m.key.ref = n.key.ref /\ m.key.part = n.key.part => m = n

\* A part recorded as acknowledged names the one message of the destination
\* that was sent under its key: message_map, pins and reactions rest on it.
AcknowledgementTrue ==
    \A r \in Ref : Exists(r) =>
        \A p \in DOMAIN receipts[r].parts :
            receipts[r].parts[p].status = "acknowledged" =>
                \E m \in Found(r, p) : m.id = receipts[r].parts[p].id

\* A part recorded as rejected is not in the destination and no request is
\* left that could still put it there: that is what makes its retry safe.
RejectionTrue ==
    \A r \in Ref : Exists(r) =>
        \A p \in DOMAIN receipts[r].parts :
            receipts[r].parts[p].status = "confirmed_rejected" =>
                Copies(r, p) = {} /\ InFlight(r, p) = {}

\* A message that state.json counts as delivered is in the destination
\* whole, and all of it from one render.
CommittedIsWhole ==
    \A r \in Ref : ledger[r] = "done" =>
        \E d \in Render :
            /\ \A m \in history : m.key.ref = r => m.render = d
            /\ {m.key.part : m \in {x \in history : x.key.ref = r}} = 1..PartsOf[d]

\* Whatever reached or may still reach the destination has its evidence on
\* disk until the message is committed: a crash at any point leaves a
\* receipt that names the key, and its render.
EvidenceKept ==
    /\ \A w \in wire :
          LET r == w.key.ref IN
          /\ Exists(r)
          /\ w.render = receipts[r].render
          /\ receipts[r].parts[w.key.part].status = "uncertain"
          /\ w.key = KeyOf(r, receipts[r], w.key.part)
    /\ \A m \in history :
          LET r == m.key.ref IN
          ledger[r] = "done"
          \/ /\ Exists(r)
             /\ m.render = receipts[r].render
             /\ receipts[r].parts[m.key.part].status \in {"uncertain", "acknowledged"}

\* What the files say of a message is what happened to it: its acknowledged parts,
\* its rejected parts, and the message as a whole once it counts as delivered.
OutcomesTrue == AcknowledgementTrue /\ RejectionTrue /\ CommittedIsWhole

\* What posting a request takes: its part is neither in flight nor there.
PostsIntoEmptySlot ==
    \A w \in wire' \ wire :
        /\ InFlight(w.key.ref, w.key.part) = {}
        /\ Copies(w.key.ref, w.key.part) = {}

\* A part once sent is sent again only after the service refused it: no other
\* disposition of a request lets a later one leave.
ResentOnlyAfterRefusal == [][PostsIntoEmptySlot]_vars

\* Every call returns: retries, slowmode waits and lookups come to an end
\* whatever the service answers, and no part keeps a channel's worker for ever.
CallsEnd == \A r \in Ref : call[r].stage # "idle" ~> call[r].stage = "idle"

-----------------------------------------------------------------------------
(***************************************************************************)
(* The inductive invariant behind these properties.                        *)
(***************************************************************************)
SlotEmpty(r, p) == Copies(r, p) = {} /\ InFlight(r, p) = {}

\* Evidence m (a request or a message) is of part m.key.part of receipt
\* m.key.ref, under its current key and its render, in a status of S.
Evidenced(m, S) ==
    LET rec == receipts[m.key.ref] IN
    /\ m.render = rec.render
    /\ m.key.part \in DOMAIN rec.parts
    /\ m.key = KeyOf(m.key.ref, rec, m.key.part)
    /\ rec.parts[m.key.part].status \in S

\* A request in flight: its part is uncertain and not yet in the history.
WireInv ==
    \A w \in wire :
        /\ Exists(w.key.ref)
        /\ Evidenced(w, {"uncertain"})
        /\ Copies(w.key.ref, w.key.part) = {}

\* A message: its part is uncertain or acknowledged, or long committed.
HistoryInv ==
    \A m \in history :
        /\ m.id < nextId
        /\ Exists(m.key.ref) => Evidenced(m, {"uncertain", "acknowledged"})
        /\ ~Exists(m.key.ref) => ledger[m.key.ref] = "done"
        /\ \A n \in history : m.id = n.id => m = n

\* What the answer the call is waiting for says of the part's slot.
WaitInv ==
    \A r \in Ref :
        LET c == call[r] IN
        /\ c.stage \in {"dispatch", "waiting"} =>
              Exists(r) /\ Matches(r) /\ Current(r).status = "uncertain"
        /\ c.stage = "dispatch" => SlotEmpty(r, c.part)
        /\ c.stage # "waiting" => c.reply = "none"
        /\ c.reply \in {"limited", "slowmode", "forbidden"} => SlotEmpty(r, c.part)
        /\ c.reply = "created" => \E m \in Found(r, c.part) : m.id = c.id

\* The parts the loop has passed without a failure are acknowledged.
LoopInv ==
    \A r \in Ref :
        LET c == call[r] IN
        /\ c.part \in 1..PartsOf[c.render]
        /\ c.stage # "idle" => ledger[r] # "done"
        /\ c.stage # "idle" /\ ~c.failed =>
              \A q \in 1..PartsOf[c.render] :
                  q < c.part \/ c.stage = "finished" =>
                      /\ Exists(r)
                      /\ Matches(r)
                      /\ receipts[r].parts[q].status = "acknowledged"

\* A committed message's receipt, while it is still there, is all
\* acknowledged.
DoneInv == \A r \in Ref : ledger[r] = "done" /\ Exists(r) => AllAre(r, "acknowledged")

IInv ==
    /\ TypeOK
    /\ WireInv
    /\ HistoryInv
    /\ NoDuplicate
    /\ AcknowledgementTrue
    /\ WaitInv
    /\ LoopInv
    /\ DoneInv
    /\ CommittedIsWhole

-----------------------------------------------------------------------------
MaxParts == CHOOSE n \in {PartsOf[d] : d \in Render} : \A d \in Render : PartsOf[d] <= n
Slots == Ref \X (1..MaxParts)

VerdictOf(r, p) ==
    IF Exists(r)
    THEN IF p \notin DOMAIN receipts[r].parts THEN "open"
         ELSE CASE receipts[r].parts[p].status = "acknowledged" -> "landed"
                [] receipts[r].parts[p].status = "confirmed_rejected" -> "refused"
                [] OTHER -> "open"
    ELSE IF ledger[r] = "done" /\ Copies(r, p) # {} THEN "landed" ELSE "open"

\* Every step of delivery, of Stoat and of a crash is a step of AtMostOnce.
Abstract == INSTANCE AtMostOnce WITH
    Slot <- Slots,
    copies <- [s \in Slots |-> Cardinality(Copies(s[1], s[2]))],
    verdict <- [s \in Slots |-> VerdictOf(s[1], s[2])]

ImplementsAtMostOnce == Abstract!Spec
=============================================================================
