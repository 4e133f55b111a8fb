---------------------------- MODULE SendingProofs ----------------------------
(***************************************************************************)
(* Proofs about sending a message: its delivery, for any set of messages   *)
(* and renders, any number of parts, retries, runs and crashes; and the    *)
(* request layer below, for any number of calls, slots and retries.        *)
(***************************************************************************)
EXTENDS DeliveryProps, ApiRequestProps, FiniteSetTheorems, TLAPS

-----------------------------------------------------------------------------
(* Delivery (Delivery).                                                    *)

\* A receipt that exists is a record with one part record per part.
LEMMA ReceiptShape ==
    ASSUME TypeOK, NEW r \in Ref, Exists(r)
    PROVE  /\ IsReceipt(receipts[r])
           /\ receipts[r].render \in Render
           /\ PartsOf[receipts[r].render] \in Nat \ {0}
           /\ DOMAIN receipts[r].parts = 1..PartsOf[receipts[r].render]
           /\ \A p \in DOMAIN receipts[r].parts :
                 /\ p \in Nat \ {0}
                 /\ receipts[r].parts[p] \in Part
                 /\ KeyOf(r, receipts[r], p) \in Key
<1>1. /\ IsReceipt(receipts[r])
      /\ receipts[r].render \in Render
      /\ DOMAIN receipts[r].parts = 1..PartsOf[receipts[r].render]
      /\ \A p \in DOMAIN receipts[r].parts : receipts[r].parts[p] \in Part
  BY DEF TypeOK, Exists, IsReceipt
<1>2. PartsOf[receipts[r].render] \in Nat \ {0}
  BY <1>1, DeliveryAssumption
<1>3. ASSUME NEW p \in DOMAIN receipts[r].parts
      PROVE  p \in Nat \ {0} /\ KeyOf(r, receipts[r], p) \in Key
  <2>1. p \in 1..PartsOf[receipts[r].render] /\ p \in Nat \ {0}
    BY <1>1, <1>2
  <2>2. receipts[r].parts[p].attempt \in Nat
    BY <1>1 DEF Part
  <2>. QED  BY <1>1, <2>1, <2>2, DeliveryAssumption DEF KeyOf, Key
<1>. QED  BY <1>1, <1>2, <1>3

LEMMA AttemptType ==
    ASSUME TypeOK, NEW r \in Ref, Exists(r), NEW p \in DOMAIN receipts[r].parts
    PROVE  receipts[r].parts[p].attempt \in Nat /\ receipts[r].parts[p].attempt + 1 \in Nat
<1>1. receipts[r].parts[p] \in Part
  BY ReceiptShape
<1>2. receipts[r].parts[p].attempt \in Nat
  BY <1>1 DEF Part
<1>. QED  BY <1>2

\* A record of the shape of a receipt is a receipt, and is not "no receipt".
LEMMA ReceiptBuilt ==
    ASSUME NEW d \in Render, NEW f \in [1..PartsOf[d] -> Part]
    PROVE  /\ IsReceipt([render |-> d, parts |-> f])
           /\ [render |-> d, parts |-> f] # NoReceipt
  BY DeliveryAssumption DEF IsReceipt

\* Replacing the parts of one receipt changes nothing else.
LEMMA WithPartsShape ==
    ASSUME TypeOK, NEW r \in Ref, Exists(r),
           NEW f \in [DOMAIN receipts[r].parts -> Part],
           receipts' = WithParts(r, f)
    PROVE  /\ DOMAIN receipts' = Ref
           /\ \A s \in Ref : receipts'[s] = NoReceipt \/ IsReceipt(receipts'[s])
           /\ \A s \in Ref \ {r} : receipts'[s] = receipts[s]
           /\ receipts'[r] # NoReceipt
           /\ receipts'[r].render = receipts[r].render
           /\ receipts'[r].parts = f
<1>1. f \in [1..PartsOf[receipts[r].render] -> Part] /\ receipts[r].render \in Render
  BY ReceiptShape
<1>2. receipts'[r] = [render |-> receipts[r].render, parts |-> f]
  BY DEF WithParts, TypeOK
<1>3. IsReceipt(receipts'[r]) /\ receipts'[r] # NoReceipt
  BY <1>1, <1>2, ReceiptBuilt
<1>. QED  BY <1>2, <1>3 DEF WithParts, TypeOK

\* Replacing one part changes that part only.
LEMMA WithPartShape ==
    ASSUME TypeOK, NEW r \in Ref, Exists(r),
           NEW p \in DOMAIN receipts[r].parts, NEW pr \in Part,
           receipts' = WithPart(r, p, pr)
    PROVE  /\ DOMAIN receipts' = Ref
           /\ \A s \in Ref : receipts'[s] = NoReceipt \/ IsReceipt(receipts'[s])
           /\ \A s \in Ref \ {r} : receipts'[s] = receipts[s]
           /\ receipts'[r] # NoReceipt
           /\ receipts'[r].render = receipts[r].render
           /\ DOMAIN receipts'[r].parts = DOMAIN receipts[r].parts
           /\ \A q \in DOMAIN receipts[r].parts \ {p} :
                 receipts'[r].parts[q] = receipts[r].parts[q]
           /\ receipts'[r].parts[p] = pr
<1> DEFINE f == [receipts[r].parts EXCEPT ![p] = pr]
<1>1. receipts[r].parts \in [DOMAIN receipts[r].parts -> Part]
  BY DEF TypeOK, Exists, IsReceipt
<1>2. f \in [DOMAIN receipts[r].parts -> Part]
  BY <1>1
<1>3. receipts' = WithParts(r, f)
  BY DEF WithPart
<1> HIDE DEF f
<1>4. /\ DOMAIN receipts' = Ref
      /\ \A s \in Ref : receipts'[s] = NoReceipt \/ IsReceipt(receipts'[s])
      /\ \A s \in Ref \ {r} : receipts'[s] = receipts[s]
      /\ receipts'[r] # NoReceipt
      /\ receipts'[r].render = receipts[r].render
      /\ receipts'[r].parts = f
  BY <1>2, <1>3, WithPartsShape
<1>. QED  BY <1>1, <1>4 DEF f

\* Settling a part moves the loop on: the call stays a call, its answer is
\* forgotten, and it is waiting for nothing.
LEMMA SettleShape ==
    ASSUME call \in [Ref -> Call], NEW r \in Ref, NEW ok \in BOOLEAN, Settle(r, ok),
           DeliveryAssumption, call[r].part \in 1..PartsOf[call[r].render]
    PROVE  /\ call' \in [Ref -> Call]
           /\ \A s \in Ref \ {r} : call'[s] = call[s]
           /\ call'[r].stage \in {"deliver", "finished"}
           /\ call'[r].render = call[r].render
           /\ call'[r].part \in 1..PartsOf[call[r].render]
           /\ call'[r].failed = (call[r].failed \/ ~ok)
           /\ call'[r].reply = "none"
           /\ \/ call'[r].stage = "deliver" /\ call'[r].part = call[r].part + 1
              \/ call'[r].stage = "finished" /\ call[r].part = PartsOf[call[r].render]
<1> DEFINE c == call[r]
           n == call'[r]
<1>1. PartsOf[c.render] \in Nat /\ c.part \in Nat /\ c \in Call
  BY DEF Call, DeliveryAssumption
<1>2. n = [stage |-> IF c.part = PartsOf[c.render] THEN "finished" ELSE "deliver",
           part |-> IF c.part = PartsOf[c.render] THEN c.part ELSE c.part + 1,
           render |-> c.render, retry |-> c.retry, failed |-> c.failed \/ ~ok,
           tries |-> 0, slowed |-> FALSE, reply |-> "none", id |-> 0]
  BY <1>1 DEF Settle, Call
<1>3. n \in Call
  BY <1>1, <1>2 DEF Call, Stages, Replies
<1>4. call' \in [Ref -> Call] /\ \A s \in Ref \ {r} : call'[s] = call[s]
  BY <1>3 DEF Settle
<1>. QED  BY <1>1, <1>2, <1>4

\* The initial state.
LEMMA InitInv == Init => IInv
<1> SUFFICES ASSUME Init PROVE IInv
  OBVIOUS
<1>1. (CHOOSE d \in Render : TRUE) \in Render
  BY DeliveryAssumption
<1>2. call \in [Ref -> Call]
  BY <1>1 DEF Init, NewCall, Call, Stages, Replies
<1>3. TypeOK
  <2>1. DOMAIN receipts = Ref /\ \A r \in Ref : receipts[r] = NoReceipt
    BY DEF Init
  <2>2. ledger \in [Ref -> {"pending", "failed", "done"}]
    BY DEF Init
  <2>3. nextId \in Nat \ {0} /\ begun \in Nat
    BY DEF Init
  <2>4. fresh \subseteq Key /\ wire \subseteq Request /\ recent \subseteq Key /\ history \subseteq Message
    BY DEF Init
  <2>. QED  BY <1>2, <2>1, <2>2, <2>3, <2>4 DEF TypeOK
<1>4. WireInv /\ HistoryInv /\ NoDuplicate
  BY DEF Init, WireInv, HistoryInv, NoDuplicate
<1>8. CommittedIsWhole /\ DoneInv
  BY DEF Init, CommittedIsWhole, DoneInv
<1>5. AcknowledgementTrue
  BY DEF Init, AcknowledgementTrue, Exists
<1>6. WaitInv
  BY DEF Init, WaitInv, NewCall
<1>7. LoopInv
  BY <1>1, DeliveryAssumption DEF Init, LoopInv, NewCall
<1>. QED  BY <1>3, <1>4, <1>5, <1>6, <1>7, <1>8 DEF IInv

\* What a step that leaves the files, the requests and the messages alone
\* need not disturb.
LEMMA CallOnly ==
    ASSUME IInv, UNCHANGED <<receipts, ledger, wire, history, nextId>>
    PROVE  /\ WireInv' /\ HistoryInv' /\ NoDuplicate' /\ AcknowledgementTrue'
           /\ DoneInv' /\ CommittedIsWhole'
<1> USE DEF IInv, Exists, Evidenced, Copies, InFlight, Found, AllAre
<1>1. WireInv'
  BY DEF WireInv
<1>2. HistoryInv'
  BY DEF HistoryInv
<1>3. NoDuplicate' /\ CommittedIsWhole'
  BY DEF NoDuplicate, CommittedIsWhole
<1>4. AcknowledgementTrue'
  BY DEF AcknowledgementTrue
<1>5. DoneInv'
  BY DEF DoneInv
<1>. QED  BY <1>1, <1>2, <1>3, <1>4, <1>5

\* What is known of a call that a step does not touch, while the service stands still.
LEMMA WaitKept ==
    ASSUME WaitInv, NEW s \in Ref,
           call'[s] = call[s], receipts'[s] = receipts[s], wire' = wire, history' = history
    PROVE  WaitInv!(s)'
<1>1. /\ Exists(s)' <=> Exists(s)
      /\ Matches(s)' <=> Matches(s)
      /\ Current(s)' = Current(s)
  BY DEF Exists, Matches, Current
<1>2. SlotEmpty(s, call[s].part)' <=> SlotEmpty(s, call[s].part)
  BY DEF SlotEmpty, Copies, InFlight
<1>3. Found(s, call[s].part)' = Found(s, call[s].part)
  BY DEF Found, KeyOf
<1>4. WaitInv!(s)
  BY DEF WaitInv
<1>. QED  BY <1>1, <1>2, <1>3, <1>4

\* Settling a part without touching the files: a part that is acknowledged
\* in the receipt of the call's render, or any part as a failure.
LEMMA SettleOnly ==
    ASSUME IInv, NEW r \in Ref, NEW ok \in BOOLEAN, Settle(r, ok),
           call[r].stage # "idle",
           ok => Exists(r) /\ Matches(r) /\ Current(r).status = "acknowledged",
           UNCHANGED <<files, fresh, stoat, begun>>
    PROVE  IInv'
<1>1. WireInv' /\ HistoryInv' /\ NoDuplicate' /\ AcknowledgementTrue' /\ DoneInv' /\ CommittedIsWhole'
  BY CallOnly DEF files, stoat
<1>2. /\ call' \in [Ref -> Call]
      /\ \A s \in Ref \ {r} : call'[s] = call[s]
      /\ call'[r].stage \in {"deliver", "finished"}
      /\ call'[r].render = call[r].render
      /\ call'[r].part \in 1..PartsOf[call[r].render]
      /\ call'[r].failed = (call[r].failed \/ ~ok)
      /\ call'[r].reply = "none"
      /\ \/ call'[r].stage = "deliver" /\ call'[r].part = call[r].part + 1
         \/ call'[r].stage = "finished" /\ call[r].part = PartsOf[call[r].render]
  BY SettleShape, DeliveryAssumption DEF IInv, TypeOK, LoopInv
<1>3. TypeOK'
  BY <1>2 DEF IInv, TypeOK, files, stoat
<1>4. WaitInv'
  BY <1>2 DEF IInv, WaitInv, files, stoat, Exists, Matches, Current, SlotEmpty, Copies, InFlight, Found
<1>5. LoopInv'
  <2> SUFFICES ASSUME NEW s \in Ref PROVE LoopInv!(s)'
    BY DEF LoopInv
  <2>1. CASE s # r
    BY <1>2, <2>1 DEF IInv, LoopInv, files, stoat, Exists, Matches
  <2>2. CASE s = r
    BY <1>2, <2>2, DeliveryAssumption DEF IInv, LoopInv, TypeOK, Call, files, stoat, Exists, Matches, Current
  <2>. QED  BY <2>1, <2>2
<1>. QED  BY <1>1, <1>3, <1>4, <1>5 DEF IInv

\* A call that begins, goes back to a dispatch, or ends.
LEMMA NewCallType ==
    ASSUME NEW d \in Render, NEW retry \in BOOLEAN, NEW st \in Stages
    PROVE  NewCall(st, d, retry) \in Call
  BY DEF NewCall, Call, Replies

LEMMA IdleShape ==
    ASSUME NEW c \in Call
    PROVE  /\ Idle(c) \in Call
           /\ Idle(c).stage = "idle"
           /\ Idle(c).reply = "none"
           /\ Idle(c).part = c.part
           /\ Idle(c).render = c.render
  BY DEF Idle, Call, Stages, Replies

LEMMA BeginStep ==
    ASSUME IInv, NEW r \in Ref, NEW d \in Render, NEW retry \in BOOLEAN,
           ledger[r] # "done", Begin(r, d, retry)
    PROVE  IInv'
<1>1. WireInv' /\ HistoryInv' /\ NoDuplicate' /\ AcknowledgementTrue' /\ DoneInv' /\ CommittedIsWhole'
  BY CallOnly DEF Begin, files, stoat
<1>2. call' = [call EXCEPT ![r] = NewCall("deliver", d, retry)] /\ NewCall("deliver", d, retry) \in Call
  BY NewCallType DEF Begin, Stages
<1>3. TypeOK'
  BY <1>2 DEF IInv, TypeOK, Begin, files, stoat
<1>4. call'[r] = NewCall("deliver", d, retry) /\ \A s \in Ref \ {r} : call'[s] = call[s]
  BY <1>2 DEF IInv, TypeOK
<1>5. WaitInv'
  BY <1>4 DEF IInv, WaitInv, Begin, NewCall, files, stoat, Exists, Matches, Current,
              SlotEmpty, Copies, InFlight, Found
<1>6. LoopInv'
  BY <1>4, DeliveryAssumption DEF IInv, LoopInv, Begin, NewCall, files, Exists, Matches
<1>. QED  BY <1>1, <1>3, <1>5, <1>6 DEF IInv

LEMMA StopStep == ASSUME IInv, Stop PROVE IInv'
<1>1. WireInv' /\ HistoryInv' /\ NoDuplicate' /\ AcknowledgementTrue' /\ DoneInv' /\ CommittedIsWhole'
  BY CallOnly DEF Stop, files, stoat
<1>2. \A r \in Ref : /\ call'[r] \in Call
                     /\ call'[r].stage = "idle"
                     /\ call'[r].reply = "none"
                     /\ call'[r].part = call[r].part
                     /\ call'[r].render = call[r].render
  <2> SUFFICES ASSUME NEW r \in Ref PROVE <1>2!(r)
    OBVIOUS
  <2>1. call'[r] = Idle(call[r]) /\ call[r] \in Call
    BY DEF Stop, IInv, TypeOK
  <2>. QED  BY <2>1, IdleShape
<1>3. TypeOK'
  BY <1>2 DEF IInv, TypeOK, Stop, files, stoat
<1>4. WaitInv'
  BY <1>2 DEF WaitInv
<1>5. LoopInv'
  BY <1>2 DEF IInv, LoopInv
<1>. QED  BY <1>1, <1>3, <1>4, <1>5 DEF IInv

LEMMA TryAgainStep == ASSUME IInv, NEW r \in Ref, TryAgain(r) PROVE IInv'
<1>1. PICK tries \in Nat, slowed \in BOOLEAN :
         PostAgain(r, tries, slowed) /\ call[r].reply \in {"limited", "slowmode"}
               /\ call[r].stage = "waiting"
  BY DEF TryAgain, IInv, TypeOK, Call
<1>2. WireInv' /\ HistoryInv' /\ NoDuplicate' /\ AcknowledgementTrue' /\ DoneInv' /\ CommittedIsWhole'
  BY <1>1, CallOnly DEF PostAgain, files, stoat
<1>3. /\ call' \in [Ref -> Call]
      /\ \A s \in Ref \ {r} : call'[s] = call[s]
      /\ call'[r].stage = "dispatch"
      /\ call'[r].reply = "none"
      /\ call'[r].part = call[r].part
      /\ call'[r].render = call[r].render
      /\ call'[r].failed = call[r].failed
  BY <1>1 DEF PostAgain, IInv, TypeOK, Call, Stages, Replies
<1>4. TypeOK'
  BY <1>1, <1>3 DEF IInv, TypeOK, PostAgain, files, stoat
<1>5. WaitInv'
  <2> SUFFICES ASSUME NEW s \in Ref PROVE WaitInv!(s)'
    BY DEF WaitInv
  <2>1. UNCHANGED <<receipts, wire, history>>
    BY <1>1 DEF PostAgain, files, stoat
  <2>2. CASE s # r
    BY <1>3, <2>1, <2>2, WaitKept DEF IInv
  <2>3. CASE s = r
    <3>1. /\ Exists(r) /\ Matches(r) /\ Current(r).status = "uncertain"
          /\ SlotEmpty(r, call[r].part)
      BY <1>1 DEF IInv, WaitInv
    <3>2. Exists(r)' /\ Matches(r)' /\ Current(r)' = Current(r)
      BY <1>3, <2>1, <3>1 DEF Exists, Matches, Current
    <3>3. SlotEmpty(r, call[r].part)'
      <4>1. call'[r].part = call[r].part
        BY <1>3
      <4>. QED  BY <2>1, <3>1, <4>1 DEF SlotEmpty, Copies, InFlight
    <3>4. call'[r].stage = "dispatch" /\ call'[r].reply = "none"
      BY <1>3
    <3>. QED  BY <2>3, <3>2, <3>3, <3>4, <3>1
  <2>. QED  BY <2>2, <2>3
<1>6. LoopInv'
  BY <1>1, <1>3 DEF IInv, LoopInv, PostAgain, files, Exists, Matches
<1>. QED  BY <1>2, <1>4, <1>5, <1>6 DEF IInv

\* save_state: a call that passed every part without a failure leaves a
\* whole message behind.
LEMMA CommitStep == ASSUME IInv, NEW r \in Ref, Commit(r) PROVE IInv'
<1> USE DEF Commit
<1>1. WireInv'
  BY DEF IInv, WireInv, Exists, Evidenced, Copies, stoat
<1>2. HistoryInv' /\ NoDuplicate'
  <2>1. ledger[r] # "done"
    BY DEF IInv, LoopInv
  <2>2. \A s \in Ref : ledger[s] = "done" => ledger'[s] = "done"
    BY <2>1 DEF IInv, TypeOK
  <2>3. \A m \in history : m.key.ref \in Ref
    BY DEF IInv, TypeOK, Message, Key
  <2>. QED  BY <2>2, <2>3 DEF IInv, HistoryInv, NoDuplicate, Exists, Evidenced, stoat
<1>3. AcknowledgementTrue'
  BY DEF IInv, AcknowledgementTrue, Exists, Found, stoat
<1>4. /\ call' \in [Ref -> Call]
      /\ \A s \in Ref \ {r} : call'[s] = call[s]
      /\ call'[r].stage = "idle"
      /\ call'[r].reply = "none"
      /\ call'[r].part = call[r].part
      /\ call'[r].render = call[r].render
  <2>1. call[r] \in Call /\ call' = [call EXCEPT ![r] = Idle(call[r])] /\ call \in [Ref -> Call]
    BY DEF IInv, TypeOK
  <2>. QED  BY <2>1, IdleShape
<1>5. ledger' \in [Ref -> {"pending", "failed", "done"}] /\ \A s \in Ref \ {r} : ledger'[s] = ledger[s]
  BY DEF IInv, TypeOK
<1>6. TypeOK'
  BY <1>4, <1>5 DEF IInv, TypeOK, stoat
<1>7. WaitInv'
  BY <1>4 DEF IInv, WaitInv, Exists, Matches, Current, SlotEmpty, Copies, InFlight, Found, stoat
<1>8. LoopInv'
  BY <1>4, <1>5 DEF IInv, LoopInv, Exists, Matches
<1>9. ledger'[r] = "done" =>
        /\ Exists(r)
        /\ receipts[r].render = call[r].render
        /\ DOMAIN receipts[r].parts = 1..PartsOf[call[r].render]
        /\ \A q \in 1..PartsOf[call[r].render] : receipts[r].parts[q].status = "acknowledged"
  <2> SUFFICES ASSUME ledger'[r] = "done" PROVE <1>9!2
    OBVIOUS
  <2>1. ~call[r].failed
    BY DEF IInv, TypeOK
  <2>2. \A q \in 1..PartsOf[call[r].render] :
           Exists(r) /\ Matches(r) /\ receipts[r].parts[q].status = "acknowledged"
    BY <2>1 DEF IInv, LoopInv
  <2>3. 1 \in 1..PartsOf[call[r].render]
    BY DeliveryAssumption DEF IInv, TypeOK, Call
  <2>. QED  BY <2>2, <2>3, ReceiptShape DEF IInv, Matches
<1>10. DoneInv'
  <2>1. \A s \in Ref : ledger'[s] = "done" /\ Exists(s) => AllAre(s, "acknowledged")
    <3> SUFFICES ASSUME NEW s \in Ref, ledger'[s] = "done", Exists(s)
                 PROVE  AllAre(s, "acknowledged")
      OBVIOUS
    <3>1. CASE s # r
      BY <3>1, <1>5 DEF IInv, DoneInv
    <3>2. CASE s = r
      BY <3>2, <1>9 DEF AllAre
    <3>. QED  BY <3>1, <3>2
  <2>. QED  BY <2>1 DEF DoneInv, AllAre, Exists
<1>11. CommittedIsWhole'
  <2> SUFFICES ASSUME NEW s \in Ref, ledger'[s] = "done"
               PROVE  \E d \in Render :
                         /\ \A m \in history : m.key.ref = s => m.render = d
                         /\ {m.key.part : m \in {x \in history : x.key.ref = s}} = 1..PartsOf[d]
    BY DEF CommittedIsWhole, stoat
  <2>1. CASE s # r
    BY <2>1, <1>5 DEF IInv, CommittedIsWhole
  <2>2. CASE s = r
    <3>1. Exists(r) /\ receipts[r].render \in Render
      BY <2>2, <1>9, ReceiptShape DEF IInv
    <3>2. \A m \in history : m.key.ref = r =>
             m.render = receipts[r].render /\ m.key.part \in 1..PartsOf[receipts[r].render]
      BY <2>2, <3>1, <1>9 DEF IInv, HistoryInv, Evidenced
    <3>3. \A q \in 1..PartsOf[receipts[r].render] :
             \E m \in history : m.key.ref = r /\ m.key.part = q
      <4> SUFFICES ASSUME NEW q \in 1..PartsOf[receipts[r].render]
                   PROVE  \E m \in history : m.key.ref = r /\ m.key.part = q
        OBVIOUS
      <4>1. q \in DOMAIN receipts[r].parts /\ receipts[r].parts[q].status = "acknowledged"
        BY <2>2, <3>1, <1>9
      <4>2. PICK m \in Found(r, q) : TRUE
        BY <3>1, <4>1 DEF IInv, AcknowledgementTrue
      <4>. QED  BY <4>2 DEF Found, KeyOf
    <3>. QED  BY <2>2, <3>1, <3>2, <3>3
  <2>. QED  BY <2>1, <2>2
<1>. QED  BY <1>1, <1>2, <1>3, <1>6, <1>7, <1>8, <1>10, <1>11 DEF IInv

\* Rewriting a receipt's parts keeps the evidence invariants when every part
\* keeps its key or has nothing under it, and its status fits what is in
\* flight and in the destination.
Fits(r, f) ==
    \A p \in DOMAIN receipts[r].parts :
        /\ f[p].attempt = receipts[r].parts[p].attempt \/ SlotEmpty(r, p)
        /\ InFlight(r, p) # {} => f[p].status = "uncertain"
        /\ Copies(r, p) # {} => f[p].status \in {"uncertain", "acknowledged"}
        /\ f[p].status = "acknowledged" =>
              /\ f[p].attempt = receipts[r].parts[p].attempt
              /\ \E m \in Found(r, p) : m.id = f[p].id
        /\ ledger[r] = "done" => f[p].status = "acknowledged"

LEMMA PartsChange ==
    ASSUME IInv, NEW r \in Ref, Exists(r),
           NEW f \in [DOMAIN receipts[r].parts -> Part], Fits(r, f),
           receipts' = WithParts(r, f),
           UNCHANGED <<ledger, wire, history, nextId>>
    PROVE  /\ WireInv' /\ HistoryInv' /\ NoDuplicate' /\ AcknowledgementTrue'
           /\ DoneInv' /\ CommittedIsWhole'
<1>0. /\ DOMAIN receipts' = Ref
      /\ \A s \in Ref \ {r} : receipts'[s] = receipts[s]
      /\ receipts'[r] # NoReceipt
      /\ receipts'[r].render = receipts[r].render
      /\ receipts'[r].parts = f
  BY WithPartsShape DEF IInv
<1>a. DOMAIN f = DOMAIN receipts[r].parts
  OBVIOUS
<1>b. \A w \in wire : w.key.ref \in Ref /\ w.key \in Key
  BY DEF IInv, TypeOK, Request, Key
<1>c. \A m \in history : m.key.ref \in Ref /\ m.key \in Key
  BY DEF IInv, TypeOK, Message, Key
<1>d. \A s \in Ref : Exists(s)' <=> Exists(s)
  BY <1>0 DEF Exists
<1>1. WireInv'
  <2> SUFFICES ASSUME NEW w \in wire
               PROVE  /\ Exists(w.key.ref)'
                      /\ Evidenced(w, {"uncertain"})'
                      /\ Copies(w.key.ref, w.key.part)' = {}
    BY DEF WireInv
  <2>1. /\ Exists(w.key.ref)
        /\ Evidenced(w, {"uncertain"})
        /\ Copies(w.key.ref, w.key.part) = {}
    BY DEF IInv, WireInv
  <2>2. CASE w.key.ref # r
    BY <1>0, <1>b, <1>d, <2>1, <2>2 DEF Evidenced, Copies, KeyOf
  <2>3. CASE w.key.ref = r
    <3>1. w \in InFlight(r, w.key.part)
      BY <2>3 DEF InFlight
    <3>2. f[w.key.part].status = "uncertain" /\ f[w.key.part].attempt = receipts[r].parts[w.key.part].attempt
      BY <2>1, <2>3, <3>1 DEF Fits, Evidenced, SlotEmpty
    <3>. QED  BY <1>0, <1>a, <1>d, <2>1, <2>3, <3>2 DEF Evidenced, Copies, KeyOf
  <2>. QED  BY <2>2, <2>3
<1>2. HistoryInv'
  <2>1. ASSUME NEW m \in history, Exists(m.key.ref)
        PROVE  Evidenced(m, {"uncertain", "acknowledged"})'
    <3>1. Evidenced(m, {"uncertain", "acknowledged"})
      BY <2>1 DEF IInv, HistoryInv
    <3>2. CASE m.key.ref # r
      BY <1>0, <1>c, <3>1, <3>2 DEF Evidenced, KeyOf
    <3>3. CASE m.key.ref = r
      <4>1. m \in Copies(r, m.key.part)
        BY <3>3 DEF Copies
      <4>2. f[m.key.part].status \in {"uncertain", "acknowledged"}
            /\ f[m.key.part].attempt = receipts[r].parts[m.key.part].attempt
        BY <3>1, <3>3, <4>1 DEF Fits, Evidenced, SlotEmpty
      <4>. QED  BY <1>0, <1>a, <3>1, <3>3, <4>2 DEF Evidenced, KeyOf
    <3>. QED  BY <3>2, <3>3
  <2>. QED  BY <1>c, <1>d, <2>1 DEF IInv, HistoryInv
<1>3. NoDuplicate' /\ CommittedIsWhole'
  BY DEF IInv, NoDuplicate, CommittedIsWhole
<1>4. AcknowledgementTrue'
  <2> SUFFICES ASSUME NEW s \in Ref, Exists(s), NEW p \in DOMAIN receipts'[s].parts,
                      receipts'[s].parts[p].status = "acknowledged"
               PROVE  \E m \in Found(s, p)' : m.id = receipts'[s].parts[p].id
    BY <1>d DEF AcknowledgementTrue
  <2>1. CASE s # r
    BY <1>0, <2>1 DEF IInv, AcknowledgementTrue, Found, KeyOf
  <2>2. CASE s = r
    <3>1. PICK m \in Found(r, p) : m.id = f[p].id /\ f[p].attempt = receipts[r].parts[p].attempt
      BY <1>0, <1>a, <2>2 DEF Fits
    <3>2. m \in Found(r, p)'
      BY <1>0, <3>1 DEF Found, KeyOf
    <3>. QED  BY <1>0, <2>2, <3>1, <3>2
  <2>. QED  BY <2>1, <2>2
<1>5. DoneInv'
  <2> SUFFICES ASSUME NEW s \in Ref, ledger[s] = "done", Exists(s)
               PROVE  \A p \in DOMAIN receipts'[s].parts : receipts'[s].parts[p].status = "acknowledged"
    BY <1>d DEF DoneInv, AllAre
  <2>1. CASE s # r
    BY <1>0, <2>1 DEF IInv, DoneInv, AllAre
  <2>2. CASE s = r
    BY <1>0, <1>a, <2>2 DEF Fits
  <2>. QED  BY <2>1, <2>2
<1>. QED  BY <1>1, <1>2, <1>3, <1>4, <1>5

\* A new receipt keeps them when nothing of the message was ever sent.
LEMMA NewReceiptChange ==
    ASSUME IInv, NEW r \in Ref, NEW d \in Render, NEW a \in Nat,
           ledger[r] # "done",
           \A m \in history : m.key.ref # r,
           \A w \in wire : w.key.ref # r,
           receipts' = [receipts EXCEPT ![r] = NewReceipt(d, a)],
           UNCHANGED <<ledger, wire, history, nextId>>
    PROVE  /\ WireInv' /\ HistoryInv' /\ NoDuplicate' /\ AcknowledgementTrue'
           /\ DoneInv' /\ CommittedIsWhole'
           /\ receipts'[r] = NewReceipt(d, a)
           /\ \A s \in Ref \ {r} : receipts'[s] = receipts[s]
           /\ DOMAIN receipts' = Ref
           /\ Exists(r)'
           /\ IsReceipt(receipts'[r])
           /\ KeysOf(r, NewReceipt(d, a)) \subseteq Key
<1>0. /\ receipts'[r] = NewReceipt(d, a)
      /\ \A s \in Ref \ {r} : receipts'[s] = receipts[s]
      /\ DOMAIN receipts' = Ref
  BY DEF IInv, TypeOK
<1>1. [p \in 1..PartsOf[d] |-> Part0(a)] \in [1..PartsOf[d] -> Part]
  BY DEF Part0, Part, Statuses
<1>2. Exists(r)' /\ IsReceipt(receipts'[r])
  BY <1>0, <1>1, ReceiptBuilt DEF NewReceipt, Exists
<1>3. KeysOf(r, NewReceipt(d, a)) \subseteq Key
  BY DeliveryAssumption DEF KeysOf, KeyOf, NewReceipt, Part0, Key
<1>4. WireInv'
  BY <1>0 DEF IInv, WireInv, TypeOK, Request, Key, Exists, Evidenced, Copies, KeyOf
<1>5. HistoryInv'
  BY <1>0 DEF IInv, HistoryInv, TypeOK, Message, Key, Exists, Evidenced, KeyOf
<1>6. NoDuplicate' /\ CommittedIsWhole'
  BY DEF IInv, NoDuplicate, CommittedIsWhole
<1>7. AcknowledgementTrue'
  <2> SUFFICES ASSUME NEW s \in Ref, Exists(s)', NEW p \in DOMAIN receipts'[s].parts,
                      receipts'[s].parts[p].status = "acknowledged"
               PROVE  \E m \in Found(s, p)' : m.id = receipts'[s].parts[p].id
    BY DEF AcknowledgementTrue
  <2>1. s # r
    BY <1>0 DEF NewReceipt, Part0
  <2>. QED  BY <1>0, <2>1 DEF IInv, AcknowledgementTrue, Found, KeyOf, Exists
<1>8. DoneInv'
  BY <1>0 DEF IInv, DoneInv, AllAre, Exists
<1>. QED  BY <1>0, <1>2, <1>3, <1>4, <1>5, <1>6, <1>7, <1>8

\* Rewriting the receipt of the call's render and settling the part.
LEMMA PartsAndSettle ==
    ASSUME IInv, NEW r \in Ref, Exists(r), Matches(r), call[r].stage # "idle",
           NEW f \in [DOMAIN receipts[r].parts -> Part], Fits(r, f),
           \A p \in DOMAIN receipts[r].parts :
              receipts[r].parts[p].status = "acknowledged" => f[p].status = "acknowledged",
           receipts' = WithParts(r, f),
           NEW ok \in BOOLEAN, Settle(r, ok),
           ok => f[call[r].part].status = "acknowledged",
           UNCHANGED <<ledger, fresh, stoat, begun>>
    PROVE  IInv'
<1>1. WireInv' /\ HistoryInv' /\ NoDuplicate' /\ AcknowledgementTrue' /\ DoneInv' /\ CommittedIsWhole'
  BY PartsChange DEF stoat
<1>2. /\ DOMAIN receipts' = Ref
      /\ \A s \in Ref : receipts'[s] = NoReceipt \/ IsReceipt(receipts'[s])
      /\ \A s \in Ref \ {r} : receipts'[s] = receipts[s]
      /\ receipts'[r] # NoReceipt
      /\ receipts'[r].render = receipts[r].render
      /\ receipts'[r].parts = f
  BY WithPartsShape DEF IInv
<1>3. /\ call' \in [Ref -> Call]
      /\ \A s \in Ref \ {r} : call'[s] = call[s]
      /\ call'[r].stage \in {"deliver", "finished"}
      /\ call'[r].render = call[r].render
      /\ call'[r].part \in 1..PartsOf[call[r].render]
      /\ call'[r].failed = (call[r].failed \/ ~ok)
      /\ call'[r].reply = "none"
      /\ \/ call'[r].stage = "deliver" /\ call'[r].part = call[r].part + 1
         \/ call'[r].stage = "finished" /\ call[r].part = PartsOf[call[r].render]
  BY SettleShape, DeliveryAssumption DEF IInv, TypeOK, LoopInv
<1>4. TypeOK'
  BY <1>2, <1>3 DEF IInv, TypeOK, stoat
<1>5. WaitInv'
  <2> SUFFICES ASSUME NEW s \in Ref PROVE WaitInv!(s)'
    BY DEF WaitInv
  <2>1. CASE s # r
    BY <1>2, <1>3, <2>1 DEF IInv, WaitInv, stoat, Exists, Matches, Current,
                            SlotEmpty, Copies, InFlight, Found, KeyOf
  <2>2. CASE s = r
    BY <1>3, <2>2
  <2>. QED  BY <2>1, <2>2
<1>6. LoopInv'
  <2> SUFFICES ASSUME NEW s \in Ref PROVE LoopInv!(s)'
    BY DEF LoopInv
  <2>1. CASE s # r
    BY <1>2, <1>3, <2>1 DEF IInv, LoopInv, Exists, Matches
  <2>2. CASE s = r
    <3>1. DOMAIN receipts[r].parts = 1..PartsOf[call[r].render]
          /\ PartsOf[call[r].render] \in Nat /\ call[r].part \in Nat
      BY ReceiptShape DEF IInv, Matches, TypeOK, Call
    <3>2. ~call'[r].failed => ~call[r].failed /\ ok
      BY <1>3
    <3>3. ~call[r].failed => \A q \in 1..PartsOf[call[r].render] :
             q < call[r].part => f[q].status = "acknowledged"
      BY <3>1 DEF IInv, LoopInv
    <3>4. ~call'[r].failed => \A q \in 1..PartsOf[call[r].render] :
             q < call'[r].part \/ call'[r].stage = "finished" => f[q].status = "acknowledged"
      BY <1>3, <3>1, <3>2, <3>3
    <3>. QED  BY <1>2, <1>3, <2>2, <3>4 DEF IInv, LoopInv, Exists, Matches
  <2>. QED  BY <2>1, <2>2
<1>. QED  BY <1>1, <1>4, <1>5, <1>6 DEF IInv

\* recover(): what the history shows under a part's key is that part.
LEMMA RecoverStep ==
    ASSUME IInv, NEW r \in Ref, Exists(r), Matches(r),
           call[r].stage \in {"deliver", "waiting"}, Recover(r)
    PROVE  IInv'
<1> DEFINE open(p) == receipts[r].parts[p].status \in {"prepared", "uncertain"}
           seen(p) == open(p) /\ Found(r, p) # {}
           f == [p \in DOMAIN receipts[r].parts |->
                   IF seen(p)
                   THEN [receipts[r].parts[p] EXCEPT
                           !.status = "acknowledged",
                           !.id = (CHOOSE m \in Found(r, p) : TRUE).id]
                   ELSE receipts[r].parts[p]]
<1>1. receipts' = WithParts(r, f)
      /\ Settle(r, f[call[r].part].status = "acknowledged")
      /\ UNCHANGED <<ledger, fresh, stoat, begun>>
  BY DEF Recover
<1>2. \A p \in DOMAIN receipts[r].parts :
         IF seen(p)
         THEN \E m \in Found(r, p) :
                f[p] = [status |-> "acknowledged", attempt |-> receipts[r].parts[p].attempt, id |-> m.id]
         ELSE f[p] = receipts[r].parts[p]
  <2> SUFFICES ASSUME NEW p \in DOMAIN receipts[r].parts, seen(p)
               PROVE  \E m \in Found(r, p) :
                        f[p] = [status |-> "acknowledged", attempt |-> receipts[r].parts[p].attempt, id |-> m.id]
    OBVIOUS
  <2>1. (CHOOSE m \in Found(r, p) : TRUE) \in Found(r, p)
    OBVIOUS
  <2>2. receipts[r].parts[p] \in Part
    BY ReceiptShape DEF IInv
  <2>. QED  BY <2>1, <2>2 DEF Part
<1>3. \A p \in DOMAIN receipts[r].parts : f[p] \in Part
  <2> HIDE DEF f, seen
  <2> SUFFICES ASSUME NEW p \in DOMAIN receipts[r].parts PROVE f[p] \in Part
    OBVIOUS
  <2>1. receipts[r].parts[p] \in Part
    BY ReceiptShape DEF IInv
  <2>2. \A m \in Found(r, p) : m.id \in Nat
    BY DEF Found, IInv, TypeOK, Message
  <2>3. CASE seen(p)
    <3>1. PICK m \in Found(r, p) :
             f[p] = [status |-> "acknowledged", attempt |-> receipts[r].parts[p].attempt, id |-> m.id]
      BY <1>2, <2>3
    <3>. QED  BY <2>1, <2>2, <3>1 DEF Part, Statuses
  <2>4. CASE ~seen(p)
    BY <1>2, <2>1, <2>4
  <2>. QED  BY <2>3, <2>4
<1>4. f \in [DOMAIN receipts[r].parts -> Part]
  BY <1>3
<1>5. Fits(r, f)
  <2> HIDE DEF f
  <2> SUFFICES ASSUME NEW p \in DOMAIN receipts[r].parts
               PROVE  Fits(r, f)!(p)
    BY DEF Fits
  <2>0. receipts[r].parts[p] \in Part
    BY ReceiptShape DEF IInv
  <2>1. CASE seen(p)
    <3>1. PICK m \in Found(r, p) :
             f[p] = [status |-> "acknowledged", attempt |-> receipts[r].parts[p].attempt, id |-> m.id]
      BY <1>2, <2>1
    <3>2. m \in Copies(r, p)
      BY <3>1 DEF Found, Copies, KeyOf
    <3>3. InFlight(r, p) = {}
      BY <3>2 DEF IInv, WireInv, InFlight
    <3>. QED  BY <3>1, <3>2, <3>3
  <2>2. CASE ~seen(p)
    <3>1. f[p] = receipts[r].parts[p]
      BY <1>2, <2>2
    <3>2. InFlight(r, p) # {} => f[p].status = "uncertain"
      BY <3>1 DEF IInv, WireInv, InFlight, Evidenced
    <3>3. Copies(r, p) # {} => f[p].status \in {"uncertain", "acknowledged"}
      BY <3>1 DEF IInv, HistoryInv, Copies, Evidenced
    <3>4. f[p].status = "acknowledged" => \E m \in Found(r, p) : m.id = f[p].id
      BY <3>1 DEF IInv, AcknowledgementTrue
    <3>5. ledger[r] = "done" => f[p].status = "acknowledged"
      BY <3>1 DEF IInv, DoneInv, AllAre
    <3>. QED  BY <3>1, <3>2, <3>3, <3>4, <3>5
  <2>. QED  BY <2>1, <2>2
<1>6. \A p \in DOMAIN receipts[r].parts :
         receipts[r].parts[p].status = "acknowledged" => f[p].status = "acknowledged"
  BY <1>2
<1> HIDE DEF f
<1>. QED  BY <1>1, <1>4, <1>5, <1>6, PartsAndSettle

\* Marking the current part acknowledged or rejected, as its answer says.
LEMMA MarkStep ==
    ASSUME IInv, NEW r \in Ref, call[r].stage = "waiting",
           NEW st \in {"acknowledged", "confirmed_rejected"}, NEW i \in Nat,
           st = "acknowledged" => \E m \in Found(r, call[r].part) : m.id = i,
           st = "confirmed_rejected" => SlotEmpty(r, call[r].part),
           receipts' = Marked(r, call[r].part, st, i),
           Settle(r, st = "acknowledged"),
           UNCHANGED <<ledger, fresh, stoat, begun>>
    PROVE  IInv'
<1> DEFINE c == call[r].part
           pr == [status |-> st, attempt |-> receipts[r].parts[c].attempt, id |-> i]
           f == [receipts[r].parts EXCEPT ![c] = pr]
<1>1. Exists(r) /\ Matches(r) /\ Current(r).status = "uncertain"
  BY DEF IInv, WaitInv
<1>2. c \in DOMAIN receipts[r].parts /\ receipts[r].parts \in [DOMAIN receipts[r].parts -> Part]
  BY <1>1, ReceiptShape DEF IInv, LoopInv, Matches, TypeOK, IsReceipt, Exists
<1>3. pr \in Part
  BY <1>2 DEF Part, Statuses
<1>4. f \in [DOMAIN receipts[r].parts -> Part]
  BY <1>2, <1>3
<1>5. f[c] = pr /\ \A p \in DOMAIN receipts[r].parts \ {c} : f[p] = receipts[r].parts[p]
  BY <1>2
<1>6. receipts' = WithParts(r, f)
  BY DEF Marked, WithPart
<1> HIDE DEF f
<1>7. Fits(r, f)
  <2> SUFFICES ASSUME NEW p \in DOMAIN receipts[r].parts
               PROVE  Fits(r, f)!(p)
    BY DEF Fits
  <2>0. ledger[r] # "done"
    BY DEF IInv, LoopInv
  <2>1. CASE p # c
    <3>1. f[p] = receipts[r].parts[p]
      BY <1>5, <2>1
    <3>2. InFlight(r, p) # {} => f[p].status = "uncertain"
      BY <3>1 DEF IInv, WireInv, InFlight, Evidenced
    <3>3. Copies(r, p) # {} => f[p].status \in {"uncertain", "acknowledged"}
      BY <1>1, <3>1 DEF IInv, HistoryInv, Copies, Evidenced
    <3>4. f[p].status = "acknowledged" => \E m \in Found(r, p) : m.id = f[p].id
      BY <1>1, <3>1 DEF IInv, AcknowledgementTrue
    <3>. QED  BY <2>0, <3>1, <3>2, <3>3, <3>4
  <2>2. CASE p = c
    <3>1. f[p] = pr
      BY <1>5, <2>2
    <3>2. st = "acknowledged" => InFlight(r, p) = {}
      BY <2>2 DEF IInv, WireInv, InFlight, Found, KeyOf, Copies
    <3>3. st = "confirmed_rejected" => InFlight(r, p) = {} /\ Copies(r, p) = {}
      BY <2>2 DEF SlotEmpty
    <3>. QED  BY <2>0, <2>2, <3>1, <3>2, <3>3
  <2>. QED  BY <2>1, <2>2
<1>8. \A p \in DOMAIN receipts[r].parts :
         receipts[r].parts[p].status = "acknowledged" => f[p].status = "acknowledged"
  BY <1>1, <1>5 DEF Current
<1>9. st = "acknowledged" => f[c].status = "acknowledged"
  BY <1>5
<1>10. call[r].stage # "idle"
  OBVIOUS
<1>. QED  BY <1>1, <1>4, <1>6, <1>7, <1>8, <1>9, <1>10, PartsAndSettle

-----------------------------------------------------------------------------
(* One lemma for each remaining action.                                    *)

\* A message of which nothing is acknowledged or uncertain was never sent.
LEMMA NothingSent ==
    ASSUME IInv, NEW r \in Ref, ledger[r] # "done",
           Exists(r) => \A p \in DOMAIN receipts[r].parts :
                           receipts[r].parts[p].status \notin {"uncertain", "acknowledged"}
    PROVE  /\ \A m \in history : m.key.ref # r
           /\ \A w \in wire : w.key.ref # r
  BY DEF IInv, HistoryInv, WireInv, Evidenced

\* Giving the message of a call a receipt of that call's render.
LEMMA NewReceiptStep ==
    ASSUME IInv, NEW r \in Ref, NEW a \in Nat, call[r].stage = "deliver",
           Exists(r) => ~Matches(r) /\ AllAre(r, "confirmed_rejected"),
           receipts' = [receipts EXCEPT ![r] = NewReceipt(call[r].render, a)],
           fresh' = fresh \union KeysOf(r, NewReceipt(call[r].render, a)),
           UNCHANGED <<ledger, call, stoat, begun>>
    PROVE  IInv'
<1>0. call[r].render \in Render /\ ledger[r] # "done"
  BY DEF IInv, TypeOK, Call, LoopInv
<1>1. (\A m \in history : m.key.ref # r) /\ (\A w \in wire : w.key.ref # r)
  BY <1>0, NothingSent DEF AllAre
<1>2. /\ WireInv' /\ HistoryInv' /\ NoDuplicate' /\ AcknowledgementTrue' /\ DoneInv' /\ CommittedIsWhole'
      /\ \A s \in Ref \ {r} : receipts'[s] = receipts[s]
      /\ DOMAIN receipts' = Ref
      /\ IsReceipt(receipts'[r])
      /\ KeysOf(r, NewReceipt(call[r].render, a)) \subseteq Key
  BY <1>0, <1>1, NewReceiptChange DEF stoat
<1>3. TypeOK'
  BY <1>2 DEF IInv, TypeOK, stoat
<1>4. WaitInv'
  <2> SUFFICES ASSUME NEW s \in Ref PROVE WaitInv!(s)'
    BY DEF WaitInv
  <2>1. CASE s # r
    BY <1>2, <2>1 DEF IInv, WaitInv, stoat, Exists, Matches, Current,
                      SlotEmpty, Copies, InFlight, Found, KeyOf
  <2>2. CASE s = r
    BY <2>2 DEF IInv, WaitInv
  <2>. QED  BY <2>1, <2>2
<1>5. LoopInv'
  <2> SUFFICES ASSUME NEW s \in Ref PROVE LoopInv!(s)'
    BY DEF LoopInv
  <2>1. CASE s # r
    BY <1>2, <2>1 DEF IInv, LoopInv, Exists, Matches
  <2>2. CASE s = r
    <3>1. ~call[r].failed => \A q \in 1..PartsOf[call[r].render] : ~(q < call[r].part)
      BY DEF IInv, LoopInv
    <3>. QED  BY <1>0, <2>2, <3>1 DEF IInv, LoopInv
  <2>. QED  BY <2>1, <2>2
<1>. QED  BY <1>2, <1>3, <1>4, <1>5 DEF IInv

LEMMA CreateReceiptStep == ASSUME IInv, NEW r \in Ref, CreateReceipt(r) PROVE IInv'
  BY NewReceiptStep DEF CreateReceipt

LEMMA ReissueStep == ASSUME IInv, NEW r \in Ref, Reissue(r) PROVE IInv'
<1>1. PICK p \in DOMAIN receipts[r].parts :
         LET new == NewReceipt(call[r].render, receipts[r].parts[p].attempt + 1)
         IN  /\ receipts' = [receipts EXCEPT ![r] = new]
             /\ fresh' = fresh \union KeysOf(r, new)
  BY DEF Reissue
<1>2. receipts[r].parts[p].attempt + 1 \in Nat
  BY ReceiptShape DEF Reissue, IInv, Part
<1>. QED  BY <1>1, <1>2, NewReceiptStep DEF Reissue

\* Changing the current part while nothing of it is in flight or there.
LEMMA PartStep ==
    ASSUME IInv, NEW r \in Ref, Exists(r), Matches(r), call[r].stage = "deliver",
           NEW pr \in Part, pr.status \in {"prepared", "uncertain"},
           Current(r).status \in {"prepared", "confirmed_rejected"},
           receipts' = WithPart(r, call[r].part, pr),
           UNCHANGED <<ledger, wire, history, nextId>>
    PROVE  /\ WireInv' /\ HistoryInv' /\ NoDuplicate' /\ AcknowledgementTrue'
           /\ DoneInv' /\ CommittedIsWhole'
           /\ SlotEmpty(r, call[r].part)
           /\ call[r].part \in DOMAIN receipts[r].parts
           /\ DOMAIN receipts' = Ref
           /\ \A s \in Ref : receipts'[s] = NoReceipt \/ IsReceipt(receipts'[s])
           /\ \A s \in Ref \ {r} : receipts'[s] = receipts[s]
           /\ receipts'[r] # NoReceipt
           /\ receipts'[r].render = receipts[r].render
           /\ receipts'[r].parts[call[r].part] = pr
           /\ \A q \in DOMAIN receipts[r].parts \ {call[r].part} :
                 receipts'[r].parts[q] = receipts[r].parts[q]
<1> DEFINE c == call[r].part
           f == [receipts[r].parts EXCEPT ![c] = pr]
<1>1. c \in DOMAIN receipts[r].parts /\ receipts[r].parts \in [DOMAIN receipts[r].parts -> Part]
  BY ReceiptShape DEF IInv, LoopInv, Matches, TypeOK, IsReceipt, Exists
<1>2. f \in [DOMAIN receipts[r].parts -> Part]
      /\ f[c] = pr /\ \A p \in DOMAIN receipts[r].parts \ {c} : f[p] = receipts[r].parts[p]
  BY <1>1
<1>3. receipts' = WithParts(r, f)
  BY DEF WithPart
<1>4. SlotEmpty(r, c)
  BY DEF IInv, WireInv, HistoryInv, Evidenced, SlotEmpty, Copies, InFlight, Current
<1>5. ledger[r] # "done"
  BY DEF IInv, LoopInv
<1> HIDE DEF f
<1>6. Fits(r, f)
  <2> SUFFICES ASSUME NEW p \in DOMAIN receipts[r].parts
               PROVE  Fits(r, f)!(p)
    BY DEF Fits
  <2>1. CASE p # c
    <3>1. f[p] = receipts[r].parts[p]
      BY <1>2, <2>1
    <3>2. InFlight(r, p) # {} => f[p].status = "uncertain"
      BY <3>1 DEF IInv, WireInv, InFlight, Evidenced
    <3>3. Copies(r, p) # {} => f[p].status \in {"uncertain", "acknowledged"}
      BY <3>1 DEF IInv, HistoryInv, Copies, Evidenced
    <3>4. f[p].status = "acknowledged" => \E m \in Found(r, p) : m.id = f[p].id
      BY <3>1 DEF IInv, AcknowledgementTrue
    <3>. QED  BY <1>5, <3>1, <3>2, <3>3, <3>4
  <2>2. CASE p = c
    BY <1>2, <1>4, <1>5, <2>2 DEF SlotEmpty
  <2>. QED  BY <2>1, <2>2
<1>7. /\ WireInv' /\ HistoryInv' /\ NoDuplicate' /\ AcknowledgementTrue'
      /\ DoneInv' /\ CommittedIsWhole'
  BY <1>2, <1>3, <1>6, PartsChange
<1>8. /\ DOMAIN receipts' = Ref
      /\ \A s \in Ref : receipts'[s] = NoReceipt \/ IsReceipt(receipts'[s])
      /\ \A s \in Ref \ {r} : receipts'[s] = receipts[s]
      /\ receipts'[r] # NoReceipt
      /\ receipts'[r].render = receipts[r].render
      /\ receipts'[r].parts = f
  BY <1>2, <1>3, WithPartsShape DEF IInv
<1>. QED  BY <1>1, <1>2, <1>4, <1>7, <1>8

\* ... with the call still at its part, or gone on to dispatch it.
LEMMA PartAndStage ==
    ASSUME IInv, NEW r \in Ref, Exists(r), Matches(r), call[r].stage = "deliver",
           NEW pr \in Part, pr.status \in {"prepared", "uncertain"},
           Current(r).status \in {"prepared", "confirmed_rejected"},
           receipts' = WithPart(r, call[r].part, pr),
           NEW st \in {"deliver", "dispatch"},
           st = "dispatch" => pr.status = "uncertain",
           call' = [call EXCEPT ![r].stage = st],
           fresh' \subseteq Key,
           UNCHANGED <<ledger, stoat, begun>>
    PROVE  IInv'
<1>1. /\ WireInv' /\ HistoryInv' /\ NoDuplicate' /\ AcknowledgementTrue'
      /\ DoneInv' /\ CommittedIsWhole'
      /\ SlotEmpty(r, call[r].part)
      /\ call[r].part \in DOMAIN receipts[r].parts
      /\ DOMAIN receipts' = Ref
      /\ \A s \in Ref : receipts'[s] = NoReceipt \/ IsReceipt(receipts'[s])
      /\ \A s \in Ref \ {r} : receipts'[s] = receipts[s]
      /\ receipts'[r] # NoReceipt
      /\ receipts'[r].render = receipts[r].render
      /\ receipts'[r].parts[call[r].part] = pr
      /\ \A q \in DOMAIN receipts[r].parts \ {call[r].part} :
            receipts'[r].parts[q] = receipts[r].parts[q]
  BY PartStep DEF stoat
<1>2. /\ call' \in [Ref -> Call]
      /\ \A s \in Ref \ {r} : call'[s] = call[s]
      /\ call'[r].stage = st
      /\ call'[r].part = call[r].part
      /\ call'[r].render = call[r].render
      /\ call'[r].failed = call[r].failed
      /\ call'[r].reply = call[r].reply
  <2>1. call \in [Ref -> Call] /\ call[r] \in Call /\ st \in Stages
    BY DEF IInv, TypeOK, Stages
  <2>2. [call[r] EXCEPT !.stage = st] \in Call
    BY <2>1 DEF Call
  <2>. QED  BY <2>1, <2>2 DEF Call
<1>3. TypeOK'
  BY <1>1, <1>2 DEF IInv, TypeOK, stoat
<1>4. WaitInv'
  <2> SUFFICES ASSUME NEW s \in Ref PROVE WaitInv!(s)'
    BY DEF WaitInv
  <2>1. CASE s # r
    BY <1>1, <1>2, <2>1, WaitKept DEF IInv, stoat
  <2>2. CASE s = r
    <3>1. call[r].reply = "none"
      BY DEF IInv, WaitInv
    <3>. QED  BY <1>1, <1>2, <2>2, <3>1 DEF stoat, Exists, Matches, Current, SlotEmpty, Copies, InFlight
  <2>. QED  BY <2>1, <2>2
<1>5. LoopInv'
  <2> SUFFICES ASSUME NEW s \in Ref PROVE LoopInv!(s)'
    BY DEF LoopInv
  <2>1. CASE s # r
    BY <1>1, <1>2, <2>1 DEF IInv, LoopInv, Exists, Matches
  <2>2. CASE s = r
    <3>1. DOMAIN receipts[r].parts = 1..PartsOf[call[r].render]
          /\ PartsOf[call[r].render] \in Nat /\ call[r].part \in Nat
      BY ReceiptShape DEF IInv, Matches, TypeOK, Call
    <3>2. ~call[r].failed => \A q \in 1..PartsOf[call[r].render] :
             q < call[r].part => receipts'[r].parts[q].status = "acknowledged"
      BY <1>1, <3>1 DEF IInv, LoopInv
    <3>. QED  BY <1>1, <1>2, <2>2, <3>1, <3>2 DEF IInv, LoopInv, Exists, Matches
  <2>. QED  BY <2>1, <2>2
<1>. QED  BY <1>1, <1>3, <1>4, <1>5 DEF IInv

LEMMA RetryRejectedStep == ASSUME IInv, NEW r \in Ref, RetryRejected(r) PROVE IInv'
<1> USE DEF RetryRejected
<1> DEFINE a == Current(r).attempt + 1
<1>1. call[r].part \in DOMAIN receipts[r].parts /\ call[r].part \in Nat \ {0}
  BY ReceiptShape DEF IInv, LoopInv, Matches
<1>2. a \in Nat
  <2>1. Exists(r)
    BY DEF IInv, LoopInv, WaitInv
  <2>. QED  BY <1>1, <2>1, AttemptType DEF IInv, Current
<1>3. Part0(a) \in Part /\ Part0(a).status = "prepared"
  BY <1>2 DEF Part0, Part, Statuses
<1>4. [CurrentKey(r) EXCEPT !.attempt = a] \in Key
  BY <1>1, <1>2 DEF CurrentKey, KeyOf, Key
<1>5. fresh' \subseteq Key
  BY <1>4 DEF IInv, TypeOK
<1>6. call' = [call EXCEPT ![r].stage = "deliver"]
  BY DEF IInv, TypeOK, Call
<1>. QED  BY <1>3, <1>5, <1>6, PartAndStage

LEMMA DispatchStep == ASSUME IInv, NEW r \in Ref, Dispatch(r) PROVE IInv'
<1> USE DEF Dispatch
<1> DEFINE pr == [status |-> "uncertain", attempt |-> receipts[r].parts[call[r].part].attempt, id |-> 0]
<1>1. call[r].part \in DOMAIN receipts[r].parts
  BY ReceiptShape DEF IInv, LoopInv, Matches
<1>2. pr \in Part
  BY <1>1, ReceiptShape DEF IInv, Part, Statuses
<1>3. receipts' = WithPart(r, call[r].part, pr)
  BY DEF Marked
<1>4. fresh' \subseteq Key
  BY DEF IInv, TypeOK
<1>. QED  BY <1>2, <1>3, <1>4, PartAndStage DEF MayDispatch

LEMMA RetireStep == ASSUME IInv, NEW r \in Ref, Retire(r) PROVE IInv'
<1> USE DEF Retire
<1>0. /\ DOMAIN receipts' = Ref
      /\ \A s \in Ref \ {r} : receipts'[s] = receipts[s]
      /\ receipts'[r] = NoReceipt
  BY DEF IInv, TypeOK
<1>1. TypeOK'
  BY <1>0 DEF IInv, TypeOK, stoat
<1>2. \A w \in wire : w.key.ref \in Ref \ {r}
  BY DEF IInv, TypeOK, Request, Key, WireInv, Evidenced, AllAre
<1>3. WireInv'
  BY <1>0, <1>2 DEF IInv, WireInv, Exists, Evidenced, Copies, KeyOf, stoat
<1>4. HistoryInv'
  <2>1. \A m \in history : m.key.ref \in Ref
    BY DEF IInv, TypeOK, Message, Key
  <2>. QED  BY <1>0, <2>1 DEF IInv, HistoryInv, Exists, Evidenced, KeyOf, stoat
<1>5. NoDuplicate' /\ CommittedIsWhole'
  BY DEF IInv, NoDuplicate, CommittedIsWhole, stoat
<1>6. AcknowledgementTrue'
  BY <1>0 DEF IInv, AcknowledgementTrue, Exists, Found, KeyOf, stoat
<1>7. WaitInv'
  <2> SUFFICES ASSUME NEW s \in Ref PROVE WaitInv!(s)'
    BY DEF WaitInv
  <2>1. CASE s # r
    BY <1>0, <2>1 DEF IInv, WaitInv, stoat, Exists, Matches, Current,
                      SlotEmpty, Copies, InFlight, Found, KeyOf
  <2>2. CASE s = r
    BY <2>2 DEF IInv, WaitInv
  <2>. QED  BY <2>1, <2>2
<1>8. LoopInv'
  BY <1>0 DEF IInv, LoopInv, Exists, Matches
<1>9. DoneInv'
  BY <1>0 DEF IInv, DoneInv, Exists, AllAre
<1>. QED  BY <1>1, <1>3, <1>4, <1>5, <1>6, <1>7, <1>8, <1>9 DEF IInv

\* The request leaves: its slot was empty, so it is the only one.
LEMMA PostStep == ASSUME IInv, NEW r \in Ref, Post(r) PROVE IInv'
<1> USE DEF Post
<1> DEFINE w0 == [key |-> CurrentKey(r), render |-> call[r].render]
<1>0. /\ Exists(r) /\ Matches(r) /\ Current(r).status = "uncertain"
      /\ SlotEmpty(r, call[r].part)
      /\ call[r].reply = "none"
  BY DEF IInv, WaitInv
<1>1. /\ call[r].part \in DOMAIN receipts[r].parts
      /\ call[r] \in Call
      /\ CurrentKey(r) \in Key
  BY <1>0, ReceiptShape DEF IInv, LoopInv, Matches, TypeOK, CurrentKey
<1>2. /\ call' \in [Ref -> Call]
      /\ \A s \in Ref \ {r} : call'[s] = call[s]
      /\ call'[r].stage = "waiting"
      /\ call'[r].part = call[r].part
      /\ call'[r].render = call[r].render
      /\ call'[r].failed = call[r].failed
      /\ call'[r].reply = "none"
  <2> DEFINE n == [call[r] EXCEPT !.stage = "waiting", !.tries = call[r].tries + 1]
  <2>1. call[r].tries + 1 \in Nat
    BY <1>1 DEF Call
  <2>2. n \in Call /\ n.stage = "waiting" /\ n.part = call[r].part /\ n.render = call[r].render
        /\ n.failed = call[r].failed /\ n.reply = "none"
    BY <1>0, <1>1, <2>1 DEF Call, Stages
  <2>3. call' = [call EXCEPT ![r] = n] /\ call \in [Ref -> Call]
    BY DEF IInv, TypeOK
  <2> HIDE DEF n
  <2>. QED  BY <2>2, <2>3
<1>3. w0 \in Request
  BY <1>1 DEF Request, Call
<1>4. TypeOK'
  BY <1>2, <1>3 DEF IInv, TypeOK, files
<1>5. WireInv'
  <2>1. Exists(r) /\ Evidenced(w0, {"uncertain"}) /\ Copies(r, call[r].part) = {}
    BY <1>0, <1>1 DEF Evidenced, CurrentKey, KeyOf, Matches, Current, SlotEmpty
  <2>2. w0.key.ref = r /\ w0.key.part = call[r].part
    BY DEF CurrentKey, KeyOf
  <2>3. \A w \in wire' : Exists(w.key.ref) /\ Evidenced(w, {"uncertain"}) /\ Copies(w.key.ref, w.key.part) = {}
    <3> HIDE DEF w0
    <3>1. wire' = wire \union {w0}
      BY DEF w0
    <3>. QED  BY <2>1, <2>2, <3>1 DEF IInv, WireInv
  <2>. QED  BY <2>3 DEF WireInv, Exists, Evidenced, Copies, files
<1>6. HistoryInv' /\ NoDuplicate' /\ AcknowledgementTrue' /\ DoneInv' /\ CommittedIsWhole'
  <2>1. HistoryInv'
    BY DEF IInv, HistoryInv, Exists, Evidenced, files
  <2>2. NoDuplicate' /\ CommittedIsWhole'
    BY DEF IInv, NoDuplicate, CommittedIsWhole, files
  <2>3. AcknowledgementTrue'
    BY DEF IInv, AcknowledgementTrue, Exists, Found, files
  <2>4. DoneInv'
    BY DEF IInv, DoneInv, Exists, AllAre, files
  <2>. QED  BY <2>1, <2>2, <2>3, <2>4
<1>7. WaitInv'
  <2> SUFFICES ASSUME NEW s \in Ref PROVE WaitInv!(s)'
    BY DEF WaitInv
  <2>1. CASE s # r
    <3>1. w0.key.ref = r
      BY DEF CurrentKey, KeyOf
    <3>2. \A p : InFlight(s, p)' = InFlight(s, p)
      <4> HIDE DEF w0
      <4>1. wire' = wire \union {w0}
        BY DEF w0
      <4>. QED  BY <2>1, <3>1, <4>1 DEF InFlight
    <3>3. \A p : SlotEmpty(s, p)' <=> SlotEmpty(s, p)
      BY <3>2 DEF SlotEmpty, Copies
    <3>4. call'[s] = call[s] /\ WaitInv!(s)
      BY <1>2, <2>1 DEF IInv, WaitInv
    <3>. QED  BY <3>3, <3>4 DEF files, Exists, Matches, Current, Found
  <2>2. CASE s = r
    BY <1>0, <1>2, <2>2 DEF files, Exists, Matches, Current
  <2>. QED  BY <2>1, <2>2
<1>8. LoopInv'
  BY <1>2 DEF IInv, LoopInv, files, Exists, Matches
<1>. QED  BY <1>4, <1>5, <1>6, <1>7, <1>8 DEF IInv

-----------------------------------------------------------------------------
(* The service's steps.                                                    *)

\* An answer reaches the call that waits for it, or nobody.
LEMMA AnswerShape ==
    ASSUME call \in [Ref -> Call], NEW w \in Request, NEW reply \in Replies, NEW i \in Nat,
           Answer(w, reply, i)
    PROVE  /\ call' \in [Ref -> Call]
           /\ \A s \in Ref :
                /\ call'[s].stage = call[s].stage
                /\ call'[s].part = call[s].part
                /\ call'[s].render = call[s].render
                /\ call'[s].failed = call[s].failed
                /\ \/ call'[s] = call[s]
                   \/ /\ call[s].stage = "waiting"
                      /\ CurrentKey(s) = w.key
                      /\ call'[s].reply = reply
                      /\ call'[s].id = i
<1> DEFINE r == w.key.ref
           n == [call[r] EXCEPT !.reply = reply, !.id = i]
<1>1. r \in Ref
  BY DEF Request, Key
<1>2. /\ n \in Call
      /\ n.stage = call[r].stage /\ n.part = call[r].part /\ n.render = call[r].render
      /\ n.failed = call[r].failed /\ n.reply = reply /\ n.id = i
  BY ZenonT(30), <1>1 DEF Call
<1>3. \/ call' = call
      \/ call' = [call EXCEPT ![r] = n] /\ call[r].stage = "waiting" /\ CurrentKey(r) = w.key
  <2>1. CASE call[r].stage = "waiting" /\ call[r].reply = "none" /\ CurrentKey(r) = w.key
    <3>1. call' = [call EXCEPT ![r].reply = reply, ![r].id = i]
      BY <2>1 DEF Answer
    <3>2. [call EXCEPT ![r].reply = reply, ![r].id = i] = [call EXCEPT ![r] = n]
      BY <1>1 DEF Call
    <3>. QED  BY <2>1, <3>1, <3>2
  <2>2. CASE ~(call[r].stage = "waiting" /\ call[r].reply = "none" /\ CurrentKey(r) = w.key)
    BY <2>2 DEF Answer
  <2>. QED  BY <2>1, <2>2
<1> HIDE DEF n
<1>. QED  BY <1>1, <1>2, <1>3

\* A request in flight is the only one of its slot, and nothing of the slot
\* is in the destination.
LEMMA OnlyRequest ==
    ASSUME IInv, NEW w \in wire
    PROVE  /\ \A v \in wire : v.key.ref = w.key.ref /\ v.key.part = w.key.part => v = w
           /\ Copies(w.key.ref, w.key.part) = {}
           /\ Exists(w.key.ref)
           /\ Evidenced(w, {"uncertain"})
           /\ ledger[w.key.ref] # "done"
           /\ w.key.ref \in Ref
           /\ w \in Request
<1>1. w \in Request /\ w.key.ref \in Ref
  BY DEF IInv, TypeOK, Request, Key
<1>2. Copies(w.key.ref, w.key.part) = {} /\ Exists(w.key.ref) /\ Evidenced(w, {"uncertain"})
  BY DEF IInv, WireInv
<1>3. ledger[w.key.ref] # "done"
  BY <1>1, <1>2 DEF IInv, DoneInv, AllAre, Evidenced
<1>4. ASSUME NEW v \in wire, v.key.ref = w.key.ref, v.key.part = w.key.part
      PROVE  v = w
  <2>1. v \in Request /\ Evidenced(v, {"uncertain"})
    BY DEF IInv, TypeOK, WireInv
  <2>2. v.key = w.key /\ v.render = w.render
    BY <1>2, <1>4, <2>1 DEF Evidenced
  <2>. QED  BY <1>1, <2>1, <2>2 DEF Request
<1>. QED  BY <1>1, <1>2, <1>3, <1>4

\* A request leaves the wire without creating anything.
LEMMA WireShrinks ==
    ASSUME IInv, NEW w \in wire, wire' = wire \ {w}, recent' \subseteq Key,
           NEW reply \in Replies \ {"created"},
           call' = call \/ Answer(w, reply, 0),
           UNCHANGED <<files, fresh, history, nextId, begun>>
    PROVE  IInv'
<1>1. /\ call' \in [Ref -> Call]
      /\ \A s \in Ref :
           /\ call'[s].stage = call[s].stage
           /\ call'[s].part = call[s].part
           /\ call'[s].render = call[s].render
           /\ call'[s].failed = call[s].failed
           /\ \/ call'[s] = call[s]
              \/ /\ call[s].stage = "waiting"
                 /\ CurrentKey(s) = w.key
                 /\ call'[s].reply = reply
  BY AnswerShape, OnlyRequest DEF IInv, TypeOK
<1>2. TypeOK'
  BY <1>1 DEF IInv, TypeOK, files
<1>3. WireInv' /\ HistoryInv' /\ NoDuplicate' /\ CommittedIsWhole'
  BY ZenonT(30) DEF IInv, WireInv, HistoryInv, NoDuplicate, CommittedIsWhole, files, Exists, Evidenced, Copies, KeyOf
<1>4. AcknowledgementTrue' /\ DoneInv'
  BY DEF IInv, AcknowledgementTrue, DoneInv, files, Exists, Found, AllAre
<1>5. \A s, p : SlotEmpty(s, p) => SlotEmpty(s, p)'
  BY DEF SlotEmpty, Copies, InFlight
<1>6. WaitInv'
  <2> SUFFICES ASSUME NEW s \in Ref PROVE WaitInv!(s)'
    BY DEF WaitInv
  <2>0. WaitInv!(s)
    BY DEF IInv, WaitInv
  <2>1. CASE call'[s] = call[s]
    BY <2>0, <2>1, <1>5 DEF files, Exists, Matches, Current, Found, KeyOf
  <2>2. CASE call[s].stage = "waiting" /\ CurrentKey(s) = w.key /\ call'[s].reply = reply
    <3>1. w.key.ref = s /\ w.key.part = call[s].part
      BY <2>2 DEF CurrentKey, KeyOf
    <3>2. SlotEmpty(s, w.key.part)'
      BY <3>1, OnlyRequest DEF SlotEmpty, InFlight, Copies
    <3>3. call'[s].part = w.key.part
      BY <1>1, <3>1
    <3>4. SlotEmpty(s, call[s].part)'
      BY <3>2, <3>3 DEF SlotEmpty, InFlight, Copies
    <3>5. (Exists(s) /\ Matches(s) /\ Current(s).status = "uncertain")'
      BY <1>1, <2>0, <2>2 DEF files, Exists, Matches, Current
    <3>. QED  BY <1>1, <2>2, <3>4, <3>5 DEF SlotEmpty, InFlight, Copies
  <2>. QED  BY <1>1, <2>1, <2>2
<1>7. LoopInv'
  BY <1>1 DEF IInv, LoopInv, files, Exists, Matches
<1>. QED  BY <1>2, <1>3, <1>4, <1>6, <1>7 DEF IInv

\* The service creates the message of a request: the first of its slot.
LEMMA CreatesStep == ASSUME IInv, NEW w \in wire, StoatCreates(w) PROVE IInv'
<1> DEFINE m0 == [id |-> nextId, key |-> w.key, render |-> w.render]
<1>0. /\ history' = history \union {m0}
      /\ nextId' = nextId + 1
      /\ wire' = wire \ {w}
      /\ Answer(w, "created", nextId)
      /\ recent' = recent \union {w.key}
      /\ UNCHANGED <<files, fresh, begun>>
  BY DEF StoatCreates
<1>a. m0.key = w.key /\ m0.id = nextId /\ m0.render = w.render
  OBVIOUS
<1>b. m0 \in Message /\ nextId \in Nat /\ nextId' \in Nat \ {0}
  BY <1>0, OnlyRequest DEF Message, Request, IInv, TypeOK
<1>c. ledger[w.key.ref] # "done" /\ Copies(w.key.ref, w.key.part) = {}
      /\ Exists(w.key.ref) /\ Evidenced(w, {"uncertain"})
      /\ \A v \in wire : v.key.ref = w.key.ref /\ v.key.part = w.key.part => v = w
  BY OnlyRequest
<1> HIDE DEF m0
<1>1. /\ call' \in [Ref -> Call]
      /\ \A s \in Ref :
           /\ call'[s].stage = call[s].stage
           /\ call'[s].part = call[s].part
           /\ call'[s].render = call[s].render
           /\ call'[s].failed = call[s].failed
           /\ \/ call'[s] = call[s]
              \/ /\ call[s].stage = "waiting"
                 /\ CurrentKey(s) = w.key
                 /\ call'[s].reply = "created"
                 /\ call'[s].id = nextId
  BY <1>0, <1>b, AnswerShape, OnlyRequest DEF IInv, TypeOK, Replies
<1>2. TypeOK'
  <2>1. w.key \in Key
    BY OnlyRequest DEF Request
  <2>. QED  BY <1>0, <1>1, <1>b, <2>1 DEF IInv, TypeOK, files
<1>3. WireInv'
  <2>1. \A v \in wire' : ~(v.key.ref = w.key.ref /\ v.key.part = w.key.part)
    BY <1>0, <1>c
  <2>2. \A v \in wire' : Copies(v.key.ref, v.key.part)' = Copies(v.key.ref, v.key.part)
    BY <1>0, <1>a, <2>1 DEF Copies
  <2>3. \A v \in wire' : Exists(v.key.ref)' /\ Evidenced(v, {"uncertain"})'
    BY <1>0 DEF IInv, WireInv, files, Exists, Evidenced, KeyOf
  <2>4. \A v \in wire' : Copies(v.key.ref, v.key.part) = {}
    BY <1>0 DEF IInv, WireInv
  <2>. QED  BY <2>2, <2>3, <2>4 DEF WireInv
<1>4. HistoryInv'
  <2>1. \A m \in history : m.id < nextId /\ m.id \in Nat
    BY DEF IInv, HistoryInv, TypeOK, Message
  <2>2. \A m \in history' : m.id < nextId'
    BY <1>0, <1>a, <1>b, <2>1
  <2>3. \A m, n \in history' : m.id = n.id => m = n
    BY <1>0, <1>a, <1>b, <2>1 DEF IInv, HistoryInv
  <2>4. Evidenced(m0, {"uncertain", "acknowledged"})
    BY <1>a, <1>c DEF Evidenced
  <2>5. \A m \in history' : /\ Exists(m.key.ref) => Evidenced(m, {"uncertain", "acknowledged"})
                            /\ ~Exists(m.key.ref) => ledger[m.key.ref] = "done"
    BY <1>0, <1>a, <1>c, <2>4 DEF IInv, HistoryInv
  <2>6. \A m : Evidenced(m, {"uncertain", "acknowledged"})' <=> Evidenced(m, {"uncertain", "acknowledged"})
    BY <1>0 DEF files, Evidenced
  <2>7. \A m : Exists(m)' <=> Exists(m)
    BY <1>0 DEF files, Exists
  <2>8. ledger' = ledger
    BY <1>0 DEF files
  <2>. QED  BY <2>2, <2>3, <2>5, <2>6, <2>7, <2>8 DEF HistoryInv
<1>5. NoDuplicate'
  <2>1. \A m \in history : ~(m.key.ref = w.key.ref /\ m.key.part = w.key.part)
    BY <1>c DEF Copies
  <2>. QED  BY <1>0, <1>a, <2>1 DEF IInv, NoDuplicate
<1>6. \A s, p : Found(s, p) \subseteq Found(s, p)'
  BY <1>0 DEF Found, files
<1>7. AcknowledgementTrue' /\ DoneInv'
  BY <1>0, <1>6 DEF IInv, AcknowledgementTrue, DoneInv, files, Exists, AllAre
<1>8. CommittedIsWhole'
  <2> SUFFICES ASSUME NEW s \in Ref, ledger[s] = "done"
               PROVE  CommittedIsWhole!(s)!2'
    BY <1>0 DEF CommittedIsWhole, files
  <2>1. s # w.key.ref
    BY <1>c
  <2>2. {m \in history' : m.key.ref = s} = {m \in history : m.key.ref = s}
    BY <1>0, <1>a, <2>1
  <2>3. CommittedIsWhole!(s)!2
    BY DEF IInv, CommittedIsWhole
  <2>. QED  BY <2>2, <2>3
<1>9. WaitInv'
  <2> SUFFICES ASSUME NEW s \in Ref PROVE WaitInv!(s)'
    BY DEF WaitInv
  <2>0. WaitInv!(s)
    BY DEF IInv, WaitInv
  <2>1. \A q : SlotEmpty(s, q) => SlotEmpty(s, q)'
    BY <1>0, <1>a DEF SlotEmpty, Copies, InFlight
  <2>2. CASE call'[s] = call[s]
    BY <1>0, <2>0, <2>1, <1>6, <2>2 DEF files, Exists, Matches, Current
  <2>3. CASE call[s].stage = "waiting" /\ CurrentKey(s) = w.key
             /\ call'[s].reply = "created" /\ call'[s].id = nextId
    <3>1. m0 \in Found(s, w.key.part)'
      BY <1>0, <1>a, <2>3 DEF Found, CurrentKey, KeyOf, files
    <3>2. call'[s].part = w.key.part
      BY <1>1, <2>3 DEF CurrentKey, KeyOf
    <3>3. \E m \in Found(s, call[s].part)' : m.id = call'[s].id
      BY <1>a, <2>3, <3>1, <3>2 DEF Found
    <3>4. (Exists(s) /\ Matches(s) /\ Current(s).status = "uncertain")'
      BY <1>0, <1>1, <2>0, <2>3 DEF files, Exists, Matches, Current
    <3>. QED  BY <1>1, <2>3, <3>3, <3>4
  <2>. QED  BY <1>1, <2>2, <2>3
<1>10. LoopInv'
  BY <1>0, <1>1 DEF IInv, LoopInv, files, Exists, Matches
<1>. QED  BY <1>2, <1>3, <1>4, <1>5, <1>7, <1>8, <1>9, <1>10 DEF IInv

\* The idempotency cache is not part of the argument: forgetting is harmless.
LEMMA ForgetsStep == ASSUME IInv, StoatForgets PROVE IInv'
<1> USE DEF StoatForgets
<1>1. WireInv' /\ HistoryInv' /\ NoDuplicate' /\ AcknowledgementTrue' /\ DoneInv' /\ CommittedIsWhole'
  BY CallOnly DEF files
<1>2. TypeOK'
  BY DEF IInv, TypeOK, files
<1>3. WaitInv'
  BY DEF IInv, WaitInv, files, Exists, Matches, Current, SlotEmpty, Copies, InFlight, Found
<1>4. LoopInv'
  BY DEF IInv, LoopInv, files, Exists, Matches
<1>. QED  BY <1>1, <1>2, <1>3, <1>4 DEF IInv

-----------------------------------------------------------------------------
(* Every step, and the theorems.                                           *)

\* One step of a call.
LEMMA ClientStep == ASSUME IInv, NEW r \in Ref, Client(r) PROVE IInv'
<1>1. CASE CreateReceipt(r)
  BY <1>1, CreateReceiptStep
<1>2. CASE Reissue(r)
  BY <1>2, ReissueStep
<1>3. CASE RetryRejected(r)
  BY <1>3, RetryRejectedStep
<1>4. CASE AlreadyAcknowledged(r)
  BY <1>4, SettleOnly DEF AlreadyAcknowledged
<1>5. CASE Refuse(r)
  BY <1>5, SettleOnly DEF Refuse
<1>6. CASE Lookup(r)
  <2>1. CASE Recover(r)
    BY <1>6, <2>1, RecoverStep DEF Lookup
  <2>2. CASE RecoverFails(r)
    BY <1>6, <2>2, SettleOnly DEF Lookup, RecoverFails
  <2>. QED  BY <1>6, <2>1, <2>2 DEF Lookup
<1>7. CASE Dispatch(r)
  BY <1>7, DispatchStep
<1>8. CASE Post(r)
  BY <1>8, PostStep
<1>9. CASE PostImpossible(r)
  BY <1>9, SettleOnly DEF PostImpossible
<1>10. CASE Created(r)
  <2>1. call[r].id \in Nat /\ \E m \in Found(r, call[r].part) : m.id = call[r].id
    BY <1>10 DEF Created, IInv, TypeOK, Call, WaitInv
  <2>. QED  BY <1>10, <2>1, MarkStep DEF Created
<1>11. CASE TryAgain(r)
  BY <1>11, TryAgainStep
<1>12. CASE Rejected(r)
  <2>1. SlotEmpty(r, call[r].part)
    BY <1>12 DEF Rejected, ConfirmedRejection, IInv, WaitInv
  <2>. QED  BY <1>12, <2>1, MarkStep DEF Rejected
<1>13. CASE UncertainAnswer(r)
  <2>1. call[r].stage = "waiting" /\ Exists(r) /\ Matches(r)
    BY <1>13 DEF UncertainAnswer, IInv, WaitInv
  <2>2. CASE Recover(r)
    BY <2>1, <2>2, RecoverStep
  <2>3. CASE RecoverFails(r)
    BY <2>1, <2>3, SettleOnly DEF RecoverFails
  <2>. QED  BY <1>13, <2>2, <2>3 DEF UncertainAnswer
<1>14. CASE Commit(r)
  BY <1>14, CommitStep
<1>. QED  BY <1>1, <1>2, <1>3, <1>4, <1>5, <1>6, <1>7, <1>8, <1>9, <1>10,
             <1>11, <1>12, <1>13, <1>14 DEF Client

\* One step of the service on a request.
LEMMA ServerStep == ASSUME IInv, NEW w \in wire, Server(w) PROVE IInv'
<1>0. w.key \in Key /\ recent \subseteq Key
  BY OnlyRequest DEF Request, IInv, TypeOK
<1>1. CASE StoatCreates(w)
  BY <1>1, CreatesStep
<1>2. CASE StoatRefuses(w)
  <2>1. PICK a \in {"limited", "slowmode", "forbidden"} : Answer(w, a, 0)
    BY <1>2 DEF StoatRefuses
  <2>2. a \in Replies \ {"created"}
    BY DEF Replies
  <2>. QED  BY <1>0, <1>2, <2>1, <2>2, WireShrinks DEF StoatRefuses
<1>3. CASE StoatDuplicate(w)
  <2>1. "duplicate" \in Replies \ {"created"}
    BY DEF Replies
  <2>. QED  BY <1>0, <1>3, <2>1, WireShrinks DEF StoatDuplicate
<1>4. CASE Lost(w)
  <2>1. "none" \in Replies \ {"created"}
    BY DEF Replies
  <2>. QED  BY <1>0, <1>4, <2>1, WireShrinks DEF Lost
<1>. QED  BY <1>1, <1>2, <1>3, <1>4 DEF Server

\* The inductive invariant is preserved by every step.
LEMMA NextInv == IInv /\ [Next]_vars => IInv'
<1> SUFFICES ASSUME IInv, [Next]_vars PROVE IInv'
  OBVIOUS
<1>1. CASE \E r \in Ref, d \in Render : BeginRun(r, d) \/ BeginRetry(r, d)
  <2>1. PICK r \in Ref, d \in Render : BeginRun(r, d) \/ BeginRetry(r, d)
    BY <1>1
  <2>2. PICK retry \in BOOLEAN : Begin(r, d, retry)
    BY <2>1 DEF BeginRun, BeginRetry
  <2>3. ledger[r] # "done"
    BY <2>1 DEF BeginRun, BeginRetry
  <2>. QED  BY <2>2, <2>3, BeginStep
<1>2. CASE \E r \in Ref : Client(r) \/ Retire(r)
  BY <1>2, ClientStep, RetireStep
<1>3. CASE \E w \in wire : Server(w)
  BY <1>3, ServerStep
<1>4. CASE StoatForgets
  BY <1>4, ForgetsStep
<1>5. CASE Stop
  BY <1>5, StopStep
<1>6. CASE UNCHANGED vars
  <2>1. WireInv' /\ HistoryInv' /\ NoDuplicate' /\ AcknowledgementTrue' /\ DoneInv' /\ CommittedIsWhole'
    BY <1>6, CallOnly DEF vars, files, stoat
  <2>2. TypeOK'
    BY <1>6 DEF IInv, TypeOK, vars, files, stoat
  <2>3. WaitInv'
    BY <1>6 DEF IInv, WaitInv, vars, files, stoat, Exists, Matches, Current, SlotEmpty, Copies, InFlight, Found
  <2>4. LoopInv'
    BY <1>6 DEF IInv, LoopInv, vars, files, Exists, Matches
  <2>. QED  BY <2>1, <2>2, <2>3, <2>4 DEF IInv
<1>. QED  BY <1>1, <1>2, <1>3, <1>4, <1>5, <1>6 DEF Next

\* The inductive invariant holds in every state of every behaviour.
THEOREM DeliveryInv == Spec => []IInv
<1>. QED  BY InitInv, NextInv, PTL DEF Spec

\* deliver_part, _api_request and save_state keep the state well formed.
THEOREM DeliveryTypeCorrect == Spec => []TypeOK
<1>1. IInv => TypeOK
  BY DEF IInv
<1>. QED  BY <1>1, DeliveryInv, PTL

\* No part of a message is posted twice, for any number of messages, parts,
\* retries, crashes and resumes.
THEOREM AtMostOnceDelivery == Spec => []NoDuplicate
<1>1. IInv => NoDuplicate
  BY DEF IInv
<1>. QED  BY <1>1, DeliveryInv, PTL

\* An acknowledged part is in the destination under its recorded identifier.
THEOREM AcknowledgementsHold == Spec => []AcknowledgementTrue
<1>1. IInv => AcknowledgementTrue
  BY DEF IInv
<1>. QED  BY <1>1, DeliveryInv, PTL

\* A rejected part is neither in the destination nor on its way there.
THEOREM RejectionsHold == Spec => []RejectionTrue
<1>1. IInv => RejectionTrue
  BY DEF IInv, RejectionTrue, WireInv, HistoryInv, Evidenced, Copies, InFlight
<1>. QED  BY <1>1, DeliveryInv, PTL

\* Every request and every uncommitted message has its evidence on disk.
THEOREM EvidenceSurvives == Spec => []EvidenceKept
<1>1. IInv => EvidenceKept
  BY DEF IInv, EvidenceKept, WireInv, HistoryInv, Evidenced, TypeOK
<1>. QED  BY <1>1, DeliveryInv, PTL

\* A message counted as delivered is in the destination whole.
THEOREM CommittedWhole == Spec => []CommittedIsWhole
<1>1. IInv => CommittedIsWhole
  BY DEF IInv
<1>. QED  BY <1>1, DeliveryInv, PTL

\* What the files say of a message, part by part and as a whole, is true.
THEOREM OutcomesHold == Spec => []OutcomesTrue
<1>1. AcknowledgementTrue /\ RejectionTrue /\ CommittedIsWhole => OutcomesTrue
  BY DEF OutcomesTrue
<1>. QED  BY <1>1, AcknowledgementsHold, RejectionsHold, CommittedWhole, PTL

\* A request leaves only while its part is nowhere: neither in flight nor in
\* the destination.
THEOREM ResendsAreSafe == Spec => ResentOnlyAfterRefusal
<1>1. IInv /\ [Next]_vars => PostsIntoEmptySlot
  <2> SUFFICES ASSUME IInv, [Next]_vars PROVE PostsIntoEmptySlot
    OBVIOUS
  <2>1. CASE \E r \in Ref : Post(r)
    <3>1. PICK r \in Ref : Post(r)
      BY <2>1
    <3>2. SlotEmpty(r, call[r].part)
      BY <3>1 DEF Post, IInv, WaitInv
    <3>3. \A w \in wire' \ wire : w.key.ref = r /\ w.key.part = call[r].part
      <4>1. wire' = wire \union {[key |-> CurrentKey(r), render |-> call[r].render]}
        BY <3>1 DEF Post
      <4>. QED  BY <4>1 DEF CurrentKey, KeyOf
    <3>. QED  BY <3>2, <3>3 DEF SlotEmpty, PostsIntoEmptySlot
  <2>2. CASE ~\E r \in Ref : Post(r)
    <3>1. ASSUME NEW r \in Ref, Client(r) PROVE wire' = wire
      BY <2>2, <3>1 DEF Client, CreateReceipt, Reissue, RetryRejected, AlreadyAcknowledged, Refuse,
            Lookup, Recover, RecoverFails, Dispatch, PostImpossible, Created, TryAgain, PostAgain,
            Rejected, UncertainAnswer, Commit, stoat
    <3>2. ASSUME NEW w \in wire, Server(w) PROVE wire' \subseteq wire
      BY <3>2 DEF Server, StoatCreates, StoatRefuses, StoatDuplicate, Lost
    <3>3. ASSUME \/ \E r \in Ref, d \in Render : BeginRun(r, d) \/ BeginRetry(r, d)
                 \/ \E r \in Ref : Retire(r)
                 \/ StoatForgets \/ Stop \/ UNCHANGED vars
          PROVE  wire' = wire
      BY <3>3 DEF BeginRun, BeginRetry, Begin, Retire, StoatForgets, Stop, vars, stoat
    <3>. QED  BY <3>1, <3>2, <3>3 DEF Next, PostsIntoEmptySlot
  <2>. QED  BY <2>1, <2>2
<1>. QED  BY <1>1, DeliveryInv, PTL DEF Spec, ResentOnlyAfterRefusal
-----------------------------------------------------------------------------
(* Delivery implements AtMostOnce.                                         *)

\* A slot's messages: none, or the one there may be.
LEMMA CopiesShape ==
    ASSUME IInv, NEW r, NEW p
    PROVE  /\ Cardinality(Copies(r, p)) = IF Copies(r, p) = {} THEN 0 ELSE 1
<1>1. CASE Copies(r, p) = {}
  BY <1>1, FS_EmptySet
<1>2. CASE Copies(r, p) # {}
  <2>1. PICK m : m \in Copies(r, p)
    BY <1>2
  <2>2. Copies(r, p) = {m}
    BY <2>1 DEF Copies, IInv, NoDuplicate
  <2>. QED  BY <1>2, <2>2, FS_Singleton
<1>. QED  BY <1>1, <1>2

\* What AtMostOnce lets the verdict on a slot become.
Ruled(r, p) ==
    \/ VerdictOf(r, p)' = VerdictOf(r, p)
    \/ VerdictOf(r, p) = "open" /\ VerdictOf(r, p)' = "landed" /\ Copies(r, p) # {}
    \/ VerdictOf(r, p) = "open" /\ VerdictOf(r, p)' = "refused" /\ Copies(r, p) = {}
    \/ VerdictOf(r, p) = "refused" /\ VerdictOf(r, p)' = "open"

LEMMA VerdictShape ==
    ASSUME NEW r, NEW p
    PROVE  /\ VerdictOf(r, p) \in {"open", "landed", "refused"}
           /\ VerdictOf(r, p)' \in {"open", "landed", "refused"}
  BY DEF VerdictOf

LEMMA SlotShape == \A s \in Slots : s[1] \in Ref /\ s = <<s[1], s[2]>>
  BY DEF Slots

\* A step that sends nothing and rules every slot fairly is one of AtMostOnce.
LEMMA RuledIsLearn ==
    ASSUME IInv, history' = history, \A r \in Ref : \A p : Ruled(r, p)
    PROVE  Abstract!Learn
<1>1. ASSUME NEW s \in Slots
      PROVE  Abstract!Rule(s, VerdictOf(s[1], s[2])')
  <2>1. Ruled(s[1], s[2])
    BY SlotShape
  <2>2. Cardinality(Copies(s[1], s[2])) = IF Copies(s[1], s[2]) = {} THEN 0 ELSE 1
    BY CopiesShape
  <2>. QED  BY <2>1, <2>2 DEF Ruled, Abstract!Rule
<1>2. [s \in Slots |-> VerdictOf(s[1], s[2])]' = [s \in Slots |-> VerdictOf(s[1], s[2])']
  OBVIOUS
<1>3. [s \in Slots |-> VerdictOf(s[1], s[2])]' \in [Slots -> {"open", "landed", "refused"}]
  BY <1>2, VerdictShape
<1>4. [s \in Slots |-> Cardinality(Copies(s[1], s[2]))]'
        = [s \in Slots |-> Cardinality(Copies(s[1], s[2]))]
  BY DEF Copies
<1>. QED  BY <1>1, <1>2, <1>3, <1>4 DEF Abstract!Learn

\* A message whose files and whose part of the history stay as they are.
LEMMA VerdictKept ==
    ASSUME NEW r, NEW p, receipts'[r] = receipts[r], ledger'[r] = ledger[r],
           Copies(r, p)' = Copies(r, p)
    PROVE  VerdictOf(r, p)' = VerdictOf(r, p)
  BY DEF VerdictOf, Exists

\* What a part's status may become, by what there is of the part.
Changes(r, p, a, b) ==
    \/ b = a
    \/ a \in {"prepared", "uncertain"} /\ b \in {"prepared", "uncertain"}
    \/ a \in {"prepared", "uncertain"} /\ b = "acknowledged" /\ Copies(r, p) # {}
    \/ a \in {"prepared", "uncertain"} /\ b = "confirmed_rejected" /\ Copies(r, p) = {}
    \/ a = "confirmed_rejected" /\ b = "prepared"

LEMMA PartsRuled ==
    ASSUME IInv, NEW r \in Ref, Exists(r), receipts'[r] # NoReceipt,
           \A s \in Ref \ {r} : receipts'[s] = receipts[s],
           DOMAIN receipts'[r].parts = DOMAIN receipts[r].parts,
           \A p \in DOMAIN receipts[r].parts :
               Changes(r, p, receipts[r].parts[p].status, receipts'[r].parts[p].status),
           UNCHANGED <<ledger, history>>
    PROVE  Abstract!Learn
<1>1. ASSUME NEW s \in Ref \ {r}, NEW p PROVE Ruled(s, p)
  BY <1>1, VerdictKept DEF Copies, Ruled
<1>2. ASSUME NEW p PROVE Ruled(r, p)
  <2>1. CASE p \notin DOMAIN receipts[r].parts
    BY <2>1 DEF Ruled, VerdictOf, Exists
  <2>2. CASE p \in DOMAIN receipts[r].parts
    <3>1. Changes(r, p, receipts[r].parts[p].status, receipts'[r].parts[p].status)
      BY <2>2
    <3>2. receipts[r].parts[p].status \in Statuses
      BY <2>2, ReceiptShape DEF IInv, Part
    <3>. QED  BY <2>2, <3>1, <3>2 DEF Ruled, VerdictOf, Exists, Changes, Statuses
  <2>. QED  BY <2>1, <2>2
<1>. QED  BY <1>1, <1>2, RuledIsLearn

\* One part of a receipt changed.
LEMMA PartRuled ==
    ASSUME IInv, NEW r \in Ref, Exists(r), NEW c \in DOMAIN receipts[r].parts, NEW pr \in Part,
           receipts' = WithPart(r, c, pr),
           Changes(r, c, receipts[r].parts[c].status, pr.status),
           UNCHANGED <<ledger, history>>
    PROVE  Abstract!Learn
<1>1. /\ \A s \in Ref \ {r} : receipts'[s] = receipts[s]
      /\ receipts'[r] # NoReceipt
      /\ DOMAIN receipts'[r].parts = DOMAIN receipts[r].parts
      /\ \A q \in DOMAIN receipts[r].parts \ {c} :
            receipts'[r].parts[q] = receipts[r].parts[q]
      /\ receipts'[r].parts[c] = pr
  BY WithPartShape DEF IInv
<1>2. \A p \in DOMAIN receipts[r].parts :
         Changes(r, p, receipts[r].parts[p].status, receipts'[r].parts[p].status)
  BY <1>1 DEF Changes
<1>. QED  BY <1>1, <1>2, PartsRuled

\* The part a call is at, and the record Marked gives it.
LEMMA MarkedShape ==
    ASSUME IInv, NEW r \in Ref, Exists(r), Matches(r), NEW st \in Statuses, NEW i \in Nat,
           receipts' = Marked(r, call[r].part, st, i)
    PROVE  /\ call[r].part \in DOMAIN receipts[r].parts
           /\ \E pr \in Part : receipts' = WithPart(r, call[r].part, pr) /\ pr.status = st
<1>1. call[r].part \in DOMAIN receipts[r].parts
  BY ReceiptShape DEF IInv, LoopInv, Matches
<1>2. receipts[r].parts[call[r].part].attempt \in Nat
  BY <1>1, ReceiptShape DEF IInv, Part
<1>. DEFINE pr == [status |-> st, attempt |-> receipts[r].parts[call[r].part].attempt, id |-> i]
<1>3. pr \in Part /\ pr.status = st
  BY <1>2 DEF Part
<1>4. receipts' = WithPart(r, call[r].part, pr)
  BY DEF Marked
<1>. QED  BY <1>1, <1>3, <1>4

LEMMA RetryRejectedRuled ==
    ASSUME IInv, NEW r \in Ref, RetryRejected(r)
    PROVE  Abstract!Learn
<1> USE DEF RetryRejected
<1>1. call[r].part \in DOMAIN receipts[r].parts
  BY ReceiptShape DEF IInv, LoopInv, Matches
<1>2. PICK a \in Nat : a = Current(r).attempt + 1
  <2>1. Exists(r)
    BY DEF IInv, LoopInv, WaitInv
  <2>2. Current(r).attempt + 1 \in Nat
    BY <1>1, <2>1, AttemptType DEF IInv, Current
  <2>. QED  BY <2>2
<1>3. Part0(a) \in Part /\ Part0(a).status = "prepared"
  BY <1>2 DEF Part0, Part, Statuses
<1>4. receipts' = WithPart(r, call[r].part, Part0(a))
  BY <1>2
<1>5. Changes(r, call[r].part, receipts[r].parts[call[r].part].status, Part0(a).status)
  BY <1>3 DEF Changes, Current
<1>. QED  BY <1>1, <1>3, <1>4, <1>5, PartRuled DEF stoat

LEMMA DispatchRuled ==
    ASSUME IInv, NEW r \in Ref, Dispatch(r)
    PROVE  Abstract!Learn
<1>1. call[r].part \in DOMAIN receipts[r].parts
  BY MarkedShape DEF Dispatch, Statuses
<1>2. PICK pr \in Part : receipts' = WithPart(r, call[r].part, pr) /\ pr.status = "uncertain"
  BY MarkedShape DEF Dispatch, Statuses
<1>3. Changes(r, call[r].part, receipts[r].parts[call[r].part].status, pr.status)
  BY <1>2 DEF Changes, Current, Dispatch, MayDispatch
<1>. QED  BY <1>1, <1>2, <1>3, PartRuled DEF Dispatch, stoat

LEMMA CreatedRuled ==
    ASSUME IInv, NEW r \in Ref, Created(r)
    PROVE  Abstract!Learn
<1>1. Exists(r) /\ Matches(r) /\ Current(r).status = "uncertain" /\ call[r].id \in Nat
  BY DEF IInv, WaitInv, Created, TypeOK, Call
<1>2. PICK pr \in Part : /\ receipts' = WithPart(r, call[r].part, pr)
                         /\ pr.status = "acknowledged"
  BY <1>1, MarkedShape DEF Created, Statuses
<1>3. call[r].part \in DOMAIN receipts[r].parts
  BY <1>1, MarkedShape DEF Created, Statuses
<1>4. Copies(r, call[r].part) # {}
  <2>1. PICK m \in Found(r, call[r].part) : TRUE
    BY DEF IInv, WaitInv, Created
  <2>2. m \in Copies(r, call[r].part)
    BY <2>1 DEF Found, Copies, KeyOf
  <2>. QED  BY <2>2
<1>5. Changes(r, call[r].part, receipts[r].parts[call[r].part].status, pr.status)
  BY <1>1, <1>2, <1>4 DEF Changes, Current
<1>. QED  BY <1>1, <1>2, <1>3, <1>5, PartRuled DEF Created, stoat

LEMMA RejectedRuled ==
    ASSUME IInv, NEW r \in Ref, Rejected(r)
    PROVE  Abstract!Learn
<1>1. Exists(r) /\ Matches(r) /\ Current(r).status = "uncertain"
  BY DEF IInv, WaitInv, Rejected
<1>2. PICK pr \in Part : /\ receipts' = WithPart(r, call[r].part, pr)
                         /\ pr.status = "confirmed_rejected"
  BY <1>1, MarkedShape DEF Rejected, Statuses
<1>3. call[r].part \in DOMAIN receipts[r].parts
  BY <1>1, MarkedShape DEF Rejected, Statuses
<1>4. Copies(r, call[r].part) = {}
  BY DEF IInv, WaitInv, Rejected, ConfirmedRejection, SlotEmpty
<1>5. Changes(r, call[r].part, receipts[r].parts[call[r].part].status, pr.status)
  BY <1>1, <1>2, <1>4 DEF Changes, Current
<1>. QED  BY <1>1, <1>2, <1>3, <1>5, PartRuled DEF Rejected, stoat

LEMMA RecoverRuled ==
    ASSUME IInv, NEW r \in Ref, Exists(r), Recover(r)
    PROVE  Abstract!Learn
<1> DEFINE seen(p) == /\ receipts[r].parts[p].status \in {"prepared", "uncertain"}
                      /\ Found(r, p) # {}
           f == [p \in DOMAIN receipts[r].parts |->
                   IF seen(p)
                   THEN [receipts[r].parts[p] EXCEPT
                           !.status = "acknowledged",
                           !.id = (CHOOSE m \in Found(r, p) : TRUE).id]
                   ELSE receipts[r].parts[p]]
<1>1. receipts' = WithParts(r, f) /\ UNCHANGED <<ledger, stoat>>
  BY DEF Recover
<1>2. ASSUME NEW p \in DOMAIN receipts[r].parts
      PROVE  /\ f[p] \in Part
             /\ Changes(r, p, receipts[r].parts[p].status, f[p].status)
  <2>1. receipts[r].parts[p] \in Part
    BY ReceiptShape DEF IInv
  <2>2. CASE seen(p)
    <3>1. PICK m \in Found(r, p) : m = CHOOSE n \in Found(r, p) : TRUE
      BY <2>2
    <3>2. m \in Copies(r, p) /\ m.id \in Nat
      BY <3>1 DEF Found, Copies, KeyOf, IInv, TypeOK, Message
    <3>3. f[p] = [receipts[r].parts[p] EXCEPT !.status = "acknowledged", !.id = m.id]
      BY <2>2, <3>1
    <3>4. f[p] \in Part /\ f[p].status = "acknowledged"
      BY <2>1, <3>2, <3>3 DEF Part, Statuses
    <3>. QED  BY <2>2, <3>2, <3>4 DEF Changes
  <2>3. CASE ~seen(p)
    BY <2>1, <2>3 DEF Changes
  <2>. QED  BY <2>2, <2>3
<1>3. f \in [DOMAIN receipts[r].parts -> Part] /\ DOMAIN f = DOMAIN receipts[r].parts
  BY <1>2
<1> HIDE DEF f
<1>4. /\ \A s \in Ref \ {r} : receipts'[s] = receipts[s]
      /\ receipts'[r] # NoReceipt /\ receipts'[r].parts = f
  BY <1>1, <1>3, WithPartsShape DEF IInv
<1>. QED  BY <1>1, <1>2, <1>3, <1>4, PartsRuled DEF stoat

\* A new receipt: the message was never sent, or all of it was refused.
LEMMA NewReceiptRuled ==
    ASSUME IInv, NEW r \in Ref, NEW d \in Render, NEW a \in Nat,
           \A p : VerdictOf(r, p) \in {"open", "refused"},
           receipts' = [receipts EXCEPT ![r] = NewReceipt(d, a)],
           UNCHANGED <<ledger, history>>
    PROVE  Abstract!Learn
<1>1. receipts'[r] = NewReceipt(d, a) /\ \A s \in Ref \ {r} : receipts'[s] = receipts[s]
  BY DEF IInv, TypeOK
<1>2. /\ receipts'[r] # NoReceipt
      /\ DOMAIN receipts'[r].parts = 1..PartsOf[d]
      /\ \A p \in 1..PartsOf[d] : receipts'[r].parts[p].status = "prepared"
  <2>1. \A p \in 1..PartsOf[d] : Part0(a) \in Part
    BY DEF Part0, Part, Statuses
  <2>2. PICK f \in [1..PartsOf[d] -> Part] : f = [p \in 1..PartsOf[d] |-> Part0(a)]
    BY <2>1
  <2>3. NewReceipt(d, a) = [render |-> d, parts |-> f] /\ NewReceipt(d, a) # NoReceipt
    BY <2>2, ReceiptBuilt DEF NewReceipt
  <2>4. receipts'[r].parts = f
    BY <1>1, <2>3
  <2>5. DOMAIN f = 1..PartsOf[d] /\ \A p \in 1..PartsOf[d] : f[p].status = "prepared"
    BY <2>2 DEF Part0
  <2>. QED  BY <1>1, <2>3, <2>4, <2>5
<1>3. ASSUME NEW s \in Ref \ {r}, NEW p PROVE Ruled(s, p)
  BY <1>1, <1>3, VerdictKept DEF Copies, Ruled
<1>4. ASSUME NEW p PROVE Ruled(r, p)
  <2>1. VerdictOf(r, p)' = "open"
    BY <1>2 DEF VerdictOf, Exists
  <2>. QED  BY <2>1 DEF Ruled
<1>. QED  BY <1>3, <1>4, RuledIsLearn

LEMMA CreateReceiptRuled ==
    ASSUME IInv, NEW r \in Ref, CreateReceipt(r)
    PROVE  Abstract!Learn
<1>1. \A p : VerdictOf(r, p) = "open"
  BY DEF IInv, LoopInv, CreateReceipt, VerdictOf
<1>2. PICK d \in Render, a \in Nat : receipts' = [receipts EXCEPT ![r] = NewReceipt(d, a)]
  BY DEF CreateReceipt, IInv, TypeOK, Call
<1>3. UNCHANGED <<ledger, history>>
  BY DEF CreateReceipt, stoat
<1>. QED  BY <1>1, <1>2, <1>3, NewReceiptRuled

LEMMA ReissueRuled ==
    ASSUME IInv, NEW r \in Ref, Reissue(r)
    PROVE  Abstract!Learn
<1>1. PICK p \in DOMAIN receipts[r].parts :
         receipts' = [receipts EXCEPT ![r] =
                        NewReceipt(call[r].render, receipts[r].parts[p].attempt + 1)]
  BY DEF Reissue
<1>2. receipts[r].parts[p].attempt + 1 \in Nat /\ call[r].render \in Render
  BY AttemptType DEF IInv, TypeOK, Call, Reissue
<1>3. \A q : VerdictOf(r, q) \in {"open", "refused"}
  BY DEF Reissue, VerdictOf, AllAre
<1>. QED  BY <1>1, <1>2, <1>3, NewReceiptRuled DEF Reissue, stoat

\* A committed message's verdict rests on its receipt.
LEMMA CommitRuled ==
    ASSUME IInv, NEW r \in Ref, Commit(r)
    PROVE  Abstract!Learn
<1>1. /\ ledger[r] # "done" /\ receipts' = receipts /\ history' = history
      /\ \A s \in Ref \ {r} : ledger'[s] = ledger[s]
  BY DEF Commit, IInv, LoopInv, TypeOK, stoat
<1>2. ledger'[r] = "done" => Exists(r)
  <2> SUFFICES ASSUME ledger'[r] = "done" PROVE Exists(r)
    OBVIOUS
  <2>1. ~call[r].failed
    BY DEF IInv, TypeOK, Commit
  <2>2. \A q \in 1..PartsOf[call[r].render] : Exists(r)
    BY <2>1 DEF IInv, LoopInv, Commit
  <2>3. 1 \in 1..PartsOf[call[r].render]
    BY DeliveryAssumption DEF IInv, TypeOK, Call
  <2>. QED  BY <2>2, <2>3
<1>3. ASSUME NEW s \in Ref \ {r}, NEW p PROVE Ruled(s, p)
  BY <1>1, <1>3, VerdictKept DEF Copies, Ruled
<1>4. ASSUME NEW p PROVE Ruled(r, p)
  BY <1>1, <1>2 DEF Ruled, VerdictOf, Exists
<1>. QED  BY <1>1, <1>3, <1>4, RuledIsLearn

\* A receipt is unlinked when its message is committed: what it said of the parts, the
\* destination says.
LEMMA RetireRuled ==
    ASSUME IInv, NEW r \in Ref, Retire(r)
    PROVE  Abstract!Learn
<1>1. /\ ledger[r] = "done" /\ Exists(r) /\ AllAre(r, "acknowledged")
      /\ receipts'[r] = NoReceipt /\ \A s \in Ref \ {r} : receipts'[s] = receipts[s]
      /\ ledger' = ledger /\ history' = history
  BY DEF Retire, IInv, TypeOK, stoat
<1>2. ASSUME NEW s \in Ref \ {r}, NEW p PROVE Ruled(s, p)
  BY <1>1, <1>2, VerdictKept DEF Copies, Ruled
<1>3. ASSUME NEW p PROVE Ruled(r, p)
  <2>1. VerdictOf(r, p)' = IF Copies(r, p) # {} THEN "landed" ELSE "open"
    BY <1>1 DEF VerdictOf, Exists, Copies
  <2>2. CASE p \in DOMAIN receipts[r].parts
    <3>1. PICK m \in Found(r, p) : TRUE
      BY <2>2, <1>1 DEF IInv, AcknowledgementTrue, AllAre
    <3>2. m \in Copies(r, p)
      BY <3>1 DEF Found, Copies, KeyOf
    <3>. QED  BY <1>1, <2>1, <2>2, <3>2 DEF Ruled, VerdictOf, AllAre
  <2>3. CASE p \notin DOMAIN receipts[r].parts
    <3>1. Copies(r, p) = {}
      BY <1>1, <2>3 DEF Copies, IInv, HistoryInv, Evidenced
    <3>. QED  BY <1>1, <2>1, <2>3, <3>1 DEF Ruled, VerdictOf
  <2>. QED  BY <2>2, <2>3
<1>. QED  BY <1>1, <1>2, <1>3, RuledIsLearn

\* A step that touches neither the files nor the history.
LEMMA QuietRuled ==
    ASSUME IInv, UNCHANGED <<receipts, ledger, history>>
    PROVE  Abstract!Learn
<1>1. ASSUME NEW s \in Ref, NEW p PROVE Ruled(s, p)
  BY VerdictKept DEF Copies, Ruled
<1>. QED  BY <1>1, RuledIsLearn

\* A message lands in a slot that is open and empty.
LEMMA CreatesLands ==
    ASSUME IInv, NEW w \in wire, StoatCreates(w)
    PROVE  [Abstract!Next]_Abstract!vars
<1>1. /\ w.key.ref \in Ref /\ Exists(w.key.ref) /\ Copies(w.key.ref, w.key.part) = {}
      /\ VerdictOf(w.key.ref, w.key.part) = "open"
      /\ w \in Request
  BY DEF IInv, WireInv, Evidenced, VerdictOf, TypeOK, Request, Key
<1>2. PICK m : /\ m = [id |-> nextId, key |-> w.key, render |-> w.render]
               /\ history' = history \union {m}
  BY DEF StoatCreates
<1>3. m.key = w.key
  BY <1>2
<1>4. receipts' = receipts /\ ledger' = ledger
  BY DEF StoatCreates, files
<1>5. Copies(w.key.ref, w.key.part)' = {m}
  BY <1>1, <1>2, <1>3 DEF Copies
<1>6. ASSUME NEW r, NEW p, r # w.key.ref \/ p # w.key.part
      PROVE  Copies(r, p)' = Copies(r, p)
  BY <1>2, <1>3, <1>6 DEF Copies
<1>7. ASSUME NEW r, NEW p PROVE VerdictOf(r, p)' = VerdictOf(r, p)
  <2>1. CASE r = w.key.ref /\ p = w.key.part
    BY <2>1, <1>1, <1>4 DEF VerdictOf, Exists
  <2>2. CASE r # w.key.ref \/ p # w.key.part
    BY <2>2, <1>4, <1>6, VerdictKept
  <2>. QED  BY <2>1, <2>2
<1>8. [s \in Slots |-> VerdictOf(s[1], s[2])]' = [s \in Slots |-> VerdictOf(s[1], s[2])]
  BY <1>7
<1>. DEFINE slot == <<w.key.ref, w.key.part>>
<1>9. CASE slot \in Slots
  <2>1. Cardinality(Copies(slot[1], slot[2])) = 0 /\ Cardinality(Copies(slot[1], slot[2]))' = 1
    BY <1>1, <1>5, FS_EmptySet, FS_Singleton
  <2>2. \A s \in Slots \ {slot} :
           Cardinality(Copies(s[1], s[2]))' = Cardinality(Copies(s[1], s[2]))
    BY <1>6, SlotShape
  <2>3. [s \in Slots |-> Cardinality(Copies(s[1], s[2]))]'
          = [[s \in Slots |-> Cardinality(Copies(s[1], s[2]))] EXCEPT ![slot] = 1]
    BY <2>1, <2>2, <1>9
  <2>4. Abstract!Land(slot)
    BY <1>1, <1>8, <1>9, <2>1, <2>3 DEF Abstract!Land
  <2>. QED  BY <1>9, <2>4 DEF Abstract!Next
<1>10. CASE slot \notin Slots
  <2>1. \A s \in Slots : Cardinality(Copies(s[1], s[2]))' = Cardinality(Copies(s[1], s[2]))
    BY <1>6, <1>10, SlotShape
  <2>2. [s \in Slots |-> Cardinality(Copies(s[1], s[2]))]'
          = [s \in Slots |-> Cardinality(Copies(s[1], s[2]))]
    BY <2>1
  <2>. QED  BY <1>8, <2>2 DEF Abstract!vars
<1>. QED  BY <1>9, <1>10

LEMMA ClientRuled ==
    ASSUME IInv, NEW r \in Ref, Client(r)
    PROVE  Abstract!Learn
<1>1. CASE Lookup(r)
  <2>1. CASE Recover(r)
    BY <1>1, <2>1, RecoverRuled DEF Lookup
  <2>2. CASE RecoverFails(r)
    BY <2>2, QuietRuled DEF RecoverFails, files, stoat
  <2>. QED  BY <1>1, <2>1, <2>2 DEF Lookup
<1>2. CASE UncertainAnswer(r)
  <2>1. CASE Recover(r)
    <3>1. Exists(r)
      BY <1>2 DEF UncertainAnswer, IInv, WaitInv
    <3>. QED  BY <2>1, <3>1, RecoverRuled
  <2>2. CASE RecoverFails(r)
    BY <2>2, QuietRuled DEF RecoverFails, files, stoat
  <2>. QED  BY <1>2, <2>1, <2>2 DEF UncertainAnswer
<1>3. CASE \/ AlreadyAcknowledged(r) \/ Refuse(r) \/ Post(r) \/ PostImpossible(r) \/ TryAgain(r)
  <2>1. UNCHANGED <<receipts, ledger, history>>
    BY <1>3 DEF AlreadyAcknowledged, Refuse, Post, PostImpossible, TryAgain, PostAgain, files, stoat
  <2>. QED  BY <2>1, QuietRuled
<1>. QED  BY <1>1, <1>2, <1>3, CreateReceiptRuled, ReissueRuled, RetryRejectedRuled,
             DispatchRuled, CreatedRuled, RejectedRuled, CommitRuled DEF Client

LEMMA DeliverySteps == IInv /\ [Next]_vars => [Abstract!Next]_Abstract!vars
<1> SUFFICES ASSUME IInv, [Next]_vars PROVE [Abstract!Next]_Abstract!vars
  OBVIOUS
<1>1. CASE \E r \in Ref : Client(r)
  BY <1>1, ClientRuled DEF Abstract!Next
<1>2. CASE \E r \in Ref : Retire(r)
  BY <1>2, RetireRuled DEF Abstract!Next
<1>3. CASE \E w \in wire : StoatCreates(w)
  BY <1>3, CreatesLands
<1>4. CASE \/ \E r \in Ref, d \in Render : BeginRun(r, d) \/ BeginRetry(r, d)
           \/ \E w \in wire : StoatRefuses(w) \/ StoatDuplicate(w) \/ Lost(w)
           \/ StoatForgets \/ Stop \/ UNCHANGED vars
  <2>1. UNCHANGED <<receipts, ledger, history>>
    BY <1>4 DEF BeginRun, BeginRetry, Begin, StoatRefuses, StoatDuplicate, Lost, StoatForgets,
                Stop, vars, files, stoat
  <2>. QED  BY <2>1, QuietRuled DEF Abstract!Next
<1>. QED  BY <1>1, <1>2, <1>3, <1>4 DEF Next, Server

LEMMA DeliveryStarts == Init => Abstract!Init
<1> SUFFICES ASSUME Init PROVE Abstract!Init
  OBVIOUS
<1>1. \A s \in Slots : Cardinality(Copies(s[1], s[2])) = 0
  BY FS_EmptySet DEF Init, Copies
<1>2. \A s \in Slots : VerdictOf(s[1], s[2]) = "open"
  BY SlotShape DEF Init, VerdictOf, Exists
<1>. QED  BY <1>1, <1>2 DEF Abstract!Init

\* deliver_part, its receipts, the requests and save_state implement AtMostOnce: seen
\* from the destination, every run, crash, lost answer and retry is a message that lands
\* once, and a verdict on it that is true when it is reached and final once it is landed.
THEOREM DeliveryImplements == Spec => ImplementsAtMostOnce
<1>. QED  BY DeliveryStarts, DeliverySteps, DeliveryInv, PTL
          DEF Spec, ImplementsAtMostOnce, Abstract!Spec

-----------------------------------------------------------------------------
(* The request layer (ApiRequest).                                         *)

\* The stages in which a call holds a slot.
Holding(r, st) ==
    IF IsMessage(r) THEN st \in {"http", "lookup", "limited"}
                    ELSE st \notin {"idle", "queue", "done"}

\* What is true of one call by itself.
FitsWindow(r, c) ==
    /\ c.slot = Holding(r, c.stage)
    /\ c.stage \notin IF IsMessage(r) THEN {"queue", "backoff"}
                                      ELSE {"send", "recover", "lookup", "cooldown"}
    /\ c.stage \in {"idle", "queue", "enter", "paused", "attempt", "cooldown"} => c.state = "none"
    /\ c.state = "none" => c.charge = 0
    /\ c.stage \in {"limited", "backoff"} => c.attempt < MaxRetries - 1

Holders == {q \in Requests : requests[q].slot}
Backing == {q \in Requests : At(q, "backoff")}

\* The inductive invariant.
RequestIInv ==
    /\ RequestTypeOK
    /\ \A r \in Requests : FitsWindow(r, requests[r])
    /\ Cardinality(Holders) <= SlotCount
    /\ BreakerCountsFaults
    /\ ShadowHonest
    /\ \A r \in Requests : requests[r].state = "current" => requests[r].charge <= bucket.reported

-----------------------------------------------------------------------------
(* How the calls change: one goes on to c, the others stay or, when a      *)
(* bucket is published, are outdated.                                      *)

Moves(r, c) ==
    \/ requests' = [requests EXCEPT ![r] = c]
    \/ requests' = [q \in Requests |-> IF q = r THEN c ELSE Outdated(requests[q])]

Backs(c) == IF c.stage = "backoff" THEN 1 ELSE 0

\* Outdating a call leaves all but its reference to the bucket alone.
LEMMA OutdatedKeeps ==
    ASSUME NEW r \in Requests, NEW c \in CallState
    PROVE  /\ Outdated(c) \in CallState
           /\ Outdated(c).stage = c.stage
           /\ Outdated(c).slot = c.slot
           /\ Outdated(c).state # "current"
           /\ FitsWindow(r, c) => FitsWindow(r, Outdated(c))
<1>1. Outdated(c) \in CallState /\ Outdated(c).stage = c.stage /\ Outdated(c).slot = c.slot
      /\ Outdated(c).charge = c.charge /\ Outdated(c).attempt = c.attempt
      /\ Outdated(c).state = IF c.state = "current" THEN "replaced" ELSE c.state
  BY DEF Outdated, CallState, BucketRef
<1>. QED  BY <1>1 DEF FitsWindow, Holding

\* The end of a call fits any call.
LEMMA EndFits ==
    ASSUME NEW r \in Requests
    PROVE  End \in CallState /\ FitsWindow(r, End) /\ End.stage = "done" /\ End.slot = FALSE
                /\ End.state = "none"
<1>1. 0 \in 0..MaxRetries - 1 /\ 0 \in 0..Limit
  BY ApiAssumption
<1>2. NewRequest \in CallState /\ NewRequest.slot = FALSE /\ NewRequest.state = "none" /\ NewRequest.charge = 0
  BY <1>1 DEF NewRequest, CallState, Stage, BucketRef
<1>3. End \in CallState /\ End.stage = "done" /\ End.slot = FALSE /\ End.state = "none" /\ End.charge = 0
  BY <1>2 DEF End, CallState, Stage
<1>4. Holding(r, "done") = FALSE
  BY DEF Holding
<1>5. "done" \notin IF IsMessage(r) THEN {"queue", "backoff"}
                                  ELSE {"send", "recover", "lookup", "cooldown"}
  OBVIOUS
<1>. QED  BY <1>3, <1>4, <1>5 DEF FitsWindow

\* Sets of calls are finite, and so are their numbers.
LEMMA CallsFinite ==
    ASSUME NEW T \in SUBSET Requests
    PROVE  IsFiniteSet(T) /\ Cardinality(T) \in Nat
  BY FS_Subset, FS_CardinalityType, ApiAssumption

\* When one call moves, the others stay where they are.
LEMMA OthersStay ==
    ASSUME RequestTypeOK, \A q \in Requests : FitsWindow(q, requests[q]),
           NEW r \in Requests, NEW c \in CallState, FitsWindow(r, c), Moves(r, c)
    PROVE  /\ requests' \in [Requests -> CallState]
           /\ requests'[r] = c
           /\ \A q \in Requests : FitsWindow(q, requests'[q])
           /\ \A q \in Requests \ {r} :
                 /\ requests'[q].stage = requests[q].stage
                 /\ requests'[q].slot = requests[q].slot
                 /\ requests'[q].state = "current" => requests'[q] = requests[q]
<1>1. CASE requests' = [requests EXCEPT ![r] = c]
  BY <1>1 DEF RequestTypeOK
<1>2. CASE requests' = [q \in Requests |-> IF q = r THEN c ELSE Outdated(requests[q])]
  BY <1>2, OutdatedKeeps DEF RequestTypeOK
<1>. QED  BY <1>1, <1>2 DEF Moves

\* The set of calls with a property changes by the call that moves at most.
LEMMA OneChanges ==
    ASSUME NEW T \in SUBSET Requests, NEW U \in SUBSET Requests, NEW r \in Requests,
           T \ {r} = U \ {r}
    PROVE  Cardinality(U) = Cardinality(T) + (IF r \in U THEN 1 ELSE 0)
                                           - (IF r \in T THEN 1 ELSE 0)
<1>1. IsFiniteSet(T) /\ IsFiniteSet(U) /\ Cardinality(T) \in Nat /\ Cardinality(U) \in Nat
  BY CallsFinite
<1>2. Cardinality(T \ {r}) = IF r \in T THEN Cardinality(T) - 1 ELSE Cardinality(T)
  BY <1>1, FS_RemoveElement
<1>3. Cardinality(U \ {r}) = IF r \in U THEN Cardinality(U) - 1 ELSE Cardinality(U)
  BY <1>1, FS_RemoveElement
<1>. QED  BY <1>1, <1>2, <1>3

\* A call that goes on to c takes a slot only when one is free.
TakesFree(r, c) == c.slot => requests[r].slot \/ Free

\* The step counts no fault twice.
CountsOnce(r, c) ==
    /\ failures' \in Nat
    /\ faults' \in Nat
    /\ \/ failures' + Backs(c) - faults' <= failures + Backs(requests[r]) - faults
       \/ failures' = 0 /\ Backs(c) - faults' <= Backs(requests[r]) - faults

\* The step promises no more than is reported.
Promises(r, c) ==
    /\ bucket' \in Bucket
    /\ bucket'.remaining <= bucket'.reported
    /\ c.state = "current" => c.charge <= bucket'.reported
    /\ \/ bucket'.reported = bucket.reported
       \/ requests' = [q \in Requests |-> IF q = r THEN c ELSE Outdated(requests[q])]

\* A call that moves takes a slot only when one is free, and the calls that
\* back off are counted by what it leaves and enters.
LEMMA CallMoves ==
    ASSUME RequestTypeOK, \A q \in Requests : FitsWindow(q, requests[q]), Cardinality(Holders) <= SlotCount,
           NEW r \in Requests, NEW c \in CallState, FitsWindow(r, c), Moves(r, c),
           TakesFree(r, c)
    PROVE  /\ Cardinality(Holders') <= SlotCount
           /\ Cardinality(Backing) \in Nat
           /\ Cardinality(Backing') = Cardinality(Backing) + Backs(c) - Backs(requests[r])
<1>1. /\ requests' \in [Requests -> CallState]
      /\ requests'[r] = c
      /\ \A q \in Requests \ {r} : requests'[q].stage = requests[q].stage /\ requests'[q].slot = requests[q].slot
  BY OthersStay
<1>2. Holders \in SUBSET Requests /\ Holders' \in SUBSET Requests
      /\ Backing \in SUBSET Requests /\ Backing' \in SUBSET Requests
  BY DEF Holders, Backing
<1>3. Holders \ {r} = Holders' \ {r} /\ Backing \ {r} = Backing' \ {r}
  BY <1>1 DEF Holders, Backing, At
<1>4. Cardinality(Holders) \in Nat /\ Cardinality(Backing) \in Nat /\ SlotCount \in Nat
  BY <1>2, CallsFinite, ApiAssumption DEF SlotCount
<1>5. Cardinality(Holders') = Cardinality(Holders) + (IF r \in Holders' THEN 1 ELSE 0)
                                                   - (IF r \in Holders THEN 1 ELSE 0)
  BY <1>2, <1>3, OneChanges
<1>6. Cardinality(Backing') = Cardinality(Backing) + (IF r \in Backing' THEN 1 ELSE 0)
                                                   - (IF r \in Backing THEN 1 ELSE 0)
  BY <1>2, <1>3, OneChanges
<1>7. (r \in Holders' <=> c.slot) /\ (r \in Holders <=> requests[r].slot)
  BY <1>1 DEF Holders
<1>8. (r \in Backing' <=> c.stage = "backoff") /\ (r \in Backing <=> requests[r].stage = "backoff")
  BY <1>1 DEF Backing, At
<1>9. Free <=> Cardinality(Holders) < SlotCount
  BY DEF Free, Holders
<1>10. Cardinality(Holders') <= SlotCount
  BY <1>4, <1>5, <1>7, <1>9 DEF TakesFree
<1>11. Cardinality(Backing') = Cardinality(Backing) + Backs(c) - Backs(requests[r])
  BY <1>4, <1>6, <1>8 DEF Backs
<1>. QED  BY <1>4, <1>10, <1>11

\* What is left to show of a step: its slot, its count and its promise.
LEMMA StepKeeps ==
    ASSUME RequestIInv, NEW r \in Requests, NEW c \in CallState, FitsWindow(r, c), Moves(r, c),
           TakesFree(r, c), CountsOnce(r, c), Promises(r, c)
    PROVE  RequestIInv'
<1>1. RequestTypeOK /\ (\A q \in Requests : FitsWindow(q, requests[q])) /\ Cardinality(Holders) <= SlotCount
  BY DEF RequestIInv
<1>2. /\ requests' \in [Requests -> CallState]
      /\ requests'[r] = c
      /\ \A q \in Requests : FitsWindow(q, requests'[q])
      /\ \A q \in Requests \ {r} : requests'[q].state = "current" => requests'[q] = requests[q]
  BY <1>1, OthersStay
<1>3. /\ Cardinality(Holders') <= SlotCount
      /\ Cardinality(Backing) \in Nat
      /\ Cardinality(Backing') = Cardinality(Backing) + Backs(c) - Backs(requests[r])
  BY <1>1, CallMoves
<1>4. RequestTypeOK'
  BY <1>2 DEF RequestTypeOK, CountsOnce, Promises
<1>5. BreakerCountsFaults'
  <2>1. failures + Cardinality(Backing) <= faults /\ failures \in Nat /\ faults \in Nat
    BY DEF RequestIInv, RequestTypeOK, BreakerCountsFaults, Backing
  <2>2. Backs(c) \in {0, 1} /\ Backs(requests[r]) \in {0, 1}
    BY DEF Backs
  <2>3. failures' + Cardinality(Backing') <= faults'
    BY <1>3, <2>1, <2>2 DEF CountsOnce
  <2>. QED  BY <2>3 DEF BreakerCountsFaults, Backing
<1>6. \A q \in Requests : requests'[q].state = "current" => requests'[q].charge <= bucket'.reported
  <2>. SUFFICES ASSUME NEW q \in Requests, requests'[q].state = "current"
                PROVE  requests'[q].charge <= bucket'.reported
    OBVIOUS
  <2>1. CASE q = r
    BY <2>1, <1>2 DEF Promises
  <2>2. CASE q # r /\ bucket'.reported = bucket.reported
    BY <2>2, <1>2 DEF RequestIInv
  <2>3. CASE q # r /\ requests' = [p \in Requests |-> IF p = r THEN c ELSE Outdated(requests[p])]
    BY <2>3, <1>1, OutdatedKeeps DEF RequestTypeOK
  <2>. QED  BY <2>1, <2>2, <2>3 DEF Promises
<1>. QED  BY <1>2, <1>3, <1>4, <1>5, <1>6 DEF RequestIInv, ShadowHonest, Promises

\* The states of the counters that every step starts from.
LEMMA CountersFit ==
    ASSUME RequestIInv
    PROVE  /\ failures \in Nat
           /\ faults \in Nat
           /\ bucket \in Bucket
           /\ bucket.remaining <= bucket.reported
  BY DEF RequestIInv, RequestTypeOK, ShadowHonest

\* A step that moves one call, holds no new slot and counts nothing.
LEMMA QuietStepKeeps ==
    ASSUME RequestIInv, NEW r \in Requests, NEW c \in CallState, FitsWindow(r, c), Set(r, c),
           c.slot => requests[r].slot, c.state # "current",
           Backs(c) <= Backs(requests[r]), UNCHANGED <<failures, bucket, faults>>
    PROVE  RequestIInv'
<1>1. Backs(c) \in {0, 1} /\ Backs(requests[r]) \in {0, 1}
  BY DEF Backs
<1>2. Moves(r, c) /\ TakesFree(r, c)
  BY DEF Moves, Set, TakesFree
<1>3. failures' = failures /\ faults' = faults /\ bucket' = bucket
  OBVIOUS
<1>4. CountsOnce(r, c)
  BY <1>1, <1>3, CountersFit DEF CountsOnce
<1>5. Promises(r, c)
  BY <1>3, CountersFit DEF Promises
<1>. QED  BY <1>2, <1>4, <1>5, StepKeeps

\* What a call is when it leaves an attempt.
LEMMA LeaveShape ==
    ASSUME RequestIInv, NEW r \in Requests, NEW st \in Stage
    PROVE  /\ Leave(r, st) \in CallState
           /\ Leave(r, st).stage = st
           /\ Leave(r, st).slot = IF IsMessage(r) THEN FALSE ELSE requests[r].slot
           /\ Leave(r, st).state = "none"
           /\ Leave(r, st).charge = 0
           /\ Leave(r, st).attempt = requests[r].attempt
<1>1. requests[r] \in CallState /\ 0 \in 0..Limit
  BY ApiAssumption DEF RequestIInv, RequestTypeOK
<1>2. LeaveHolding(r, st) \in CallState /\ LeaveHolding(r, st).stage = st
      /\ LeaveHolding(r, st).slot = requests[r].slot /\ LeaveHolding(r, st).state = "none"
      /\ LeaveHolding(r, st).charge = 0 /\ LeaveHolding(r, st).attempt = requests[r].attempt
  BY <1>1 DEF LeaveHolding, CallState, BucketRef
<1>. QED  BY <1>1, <1>2 DEF Leave, CallState

\* A call that holds a slot and is no message send may go on at any stage of
\* its own; a message send may do so without a slot.
LEMMA LeaveFits ==
    ASSUME RequestIInv, NEW r \in Requests, NEW st \in Stage,
           IF IsMessage(r) THEN st \in {"attempt", "recover", "cooldown"}
                           ELSE st = "attempt" /\ requests[r].slot
    PROVE  FitsWindow(r, Leave(r, st))
<1>1. requests[r] \in CallState
  BY DEF RequestIInv, RequestTypeOK
<1>2. Leave(r, st).slot = Holding(r, st)
  <2>1. CASE IsMessage(r)
    <3>1. Leave(r, st).slot = FALSE
      BY <2>1, LeaveShape
    <3>2. Holding(r, st) = FALSE
      BY <2>1 DEF Holding
    <3>. QED  BY <3>1, <3>2
  <2>2. CASE ~IsMessage(r)
    <3>1. Leave(r, st).slot = TRUE
      BY <1>1, <2>2, LeaveShape DEF CallState
    <3>2. Holding(r, st) = TRUE
      BY <2>2 DEF Holding
    <3>. QED  BY <3>1, <3>2
  <2>. QED  BY <2>1, <2>2
<1>3. st \notin IF IsMessage(r) THEN {"queue", "backoff"}
                               ELSE {"send", "recover", "lookup", "cooldown"}
  OBVIOUS
<1>. QED  BY <1>2, <1>3, LeaveShape DEF FitsWindow

-----------------------------------------------------------------------------
(* One lemma for each action.                                              *)

LEMMA BeginKeeps == ASSUME RequestIInv, NEW r \in Requests, Issue(r) PROVE RequestIInv'
<1>. DEFINE c == [requests[r] EXCEPT !.stage = IF IsMessage(r) THEN "enter" ELSE "queue"]
<1>1. requests[r] \in CallState /\ FitsWindow(r, requests[r]) /\ requests[r].stage = "idle"
  BY DEF RequestIInv, RequestTypeOK, Issue, At
<1>2. c \in CallState /\ Set(r, c)
  BY <1>1 DEF CallState, Stage, Issue, Goto
<1>3. FitsWindow(r, c) /\ (c.slot => requests[r].slot) /\ c.state # "current"
  BY <1>1 DEF FitsWindow, Holding, CallState
<1>4. Backs(c) = 0
  BY <1>1 DEF Backs, CallState
<1>. HIDE DEF c
<1>. QED  BY <1>2, <1>3, <1>4, QuietStepKeeps DEF Issue, Backs

LEMMA AcquireKeeps == ASSUME RequestIInv, NEW r \in Requests, Acquire(r) PROVE RequestIInv'
<1>. DEFINE st == CASE At(r, "queue") -> "enter" [] At(r, "send") -> "http" [] OTHER -> "lookup"
            c == [requests[r] EXCEPT !.slot = TRUE, !.stage = st]
<1>1. requests[r] \in CallState /\ FitsWindow(r, requests[r]) /\ requests[r].stage \in {"queue", "send", "recover"}
  BY DEF RequestIInv, RequestTypeOK, Acquire, At
<1>2. st = IF requests[r].stage = "queue" THEN "enter"
           ELSE IF requests[r].stage = "send" THEN "http" ELSE "lookup"
  BY <1>1 DEF At
<1>3. c \in CallState /\ c.stage = st /\ c.slot = TRUE /\ c.state = requests[r].state
      /\ c.charge = requests[r].charge
  BY <1>1, <1>2 DEF CallState, Stage
<1>4. Set(r, c) /\ Free
  BY DEF Acquire, TakesSlot
<1>5. FitsWindow(r, c)
  <2>. HIDE DEF c, st
  <2>1. CASE requests[r].stage = "queue"
    BY <2>1, <1>1, <1>2, <1>3 DEF FitsWindow, Holding
  <2>2. CASE requests[r].stage \in {"send", "recover"}
    BY <2>2, <1>1, <1>2, <1>3 DEF FitsWindow, Holding
  <2>. QED  BY <1>1, <2>1, <2>2
<1>6. Backs(c) = 0 /\ Backs(requests[r]) = 0
  BY <1>1, <1>2, <1>3 DEF Backs
<1>7. Moves(r, c) /\ TakesFree(r, c) /\ failures' = failures /\ faults' = faults
      /\ bucket' = bucket
  BY <1>4 DEF Moves, Set, TakesFree, Acquire
<1>. HIDE DEF c
<1>8. CountsOnce(r, c)
  BY <1>6, <1>7, CountersFit DEF CountsOnce
<1>9. Promises(r, c)
  BY <1>3, <1>7, CountersFit DEF Promises, RequestIInv
<1>. QED  BY <1>3, <1>5, <1>7, <1>8, <1>9, StepKeeps

LEMMA EnterKeeps == ASSUME RequestIInv, NEW r \in Requests, Enter(r) PROVE RequestIInv'
<1>. DEFINE st == IF failures >= Threshold THEN "paused" ELSE "attempt"
            c == [requests[r] EXCEPT !.stage = st, !.attempt = 0]
<1>1. requests[r] \in CallState /\ FitsWindow(r, requests[r]) /\ requests[r].stage = "enter"
  BY DEF RequestIInv, RequestTypeOK, Enter, At
<1>2. c \in CallState /\ Set(r, c)
  <2>1. 0 \in 0..MaxRetries - 1 /\ st \in Stage
    BY ApiAssumption DEF Stage
  <2>. QED  BY <1>1, <2>1 DEF CallState, Enter
<1>3. FitsWindow(r, c) /\ (c.slot => requests[r].slot) /\ c.state # "current"
  BY <1>1 DEF FitsWindow, Holding, CallState
<1>4. Backs(c) = 0 /\ Backs(requests[r]) = 0
  BY <1>1 DEF Backs, CallState
<1>. HIDE DEF c
<1>. QED  BY <1>2, <1>3, <1>4, QuietStepKeeps DEF Enter

LEMMA PauseOverKeeps == ASSUME RequestIInv, NEW r \in Requests, PauseOver(r) PROVE RequestIInv'
<1>. DEFINE c == [requests[r] EXCEPT !.stage = "attempt"]
<1>1. requests[r] \in CallState /\ FitsWindow(r, requests[r]) /\ requests[r].stage = "paused"
  BY DEF RequestIInv, RequestTypeOK, PauseOver, At
<1>2. c \in CallState /\ Moves(r, c)
  BY <1>1 DEF CallState, Stage, PauseOver, Goto, Set, Moves
<1>3. FitsWindow(r, c) /\ (c.slot => requests[r].slot) /\ c.state # "current"
  BY <1>1 DEF FitsWindow, Holding, CallState
<1>4. Backs(c) = 0 /\ Backs(requests[r]) = 0
  BY <1>1 DEF Backs, CallState
<1>5. failures' = 0 /\ faults' = faults /\ bucket' = bucket
  BY DEF PauseOver
<1>. HIDE DEF c
<1>6. TakesFree(r, c) /\ CountsOnce(r, c) /\ Promises(r, c)
  BY <1>3, <1>4, <1>5, CountersFit DEF TakesFree, CountsOnce, Promises
<1>. QED  BY <1>2, <1>3, <1>6, StepKeeps

\* What a charge does to a call that is about to send.
LEMMA ChargeKeeps ==
    ASSUME RequestIInv, NEW r \in Requests, NEW ref \in BucketRef, Charge(r, ref),
           requests[r].stage \in {"attempt", "pacing"},
           ref = requests[r].state \/ requests[r].stage = "attempt",
           UNCHANGED <<failures, faults>>
    PROVE  RequestIInv'
<1>. DEFINE d == [requests[r] EXCEPT !.stage = IF IsMessage(r) THEN "send" ELSE "http",
                                 !.bypass = FALSE]
            c == IF ref = "current"
                 THEN [d EXCEPT !.state = "current", !.charge = bucket.remaining]
                 ELSE [d EXCEPT !.state = ref]
<1>1. requests[r] \in CallState /\ FitsWindow(r, requests[r]) /\ bucket \in Bucket
      /\ failures \in Nat /\ faults \in Nat /\ bucket.remaining <= bucket.reported
  BY DEF RequestIInv, RequestTypeOK, ShadowHonest
<1>2. d \in CallState /\ d.stage = (IF IsMessage(r) THEN "send" ELSE "http")
      /\ d.slot = requests[r].slot /\ d.state = requests[r].state /\ d.charge = requests[r].charge
  BY <1>1 DEF CallState, Stage
<1>. HIDE DEF d
<1>3. c \in CallState /\ c.stage = (IF IsMessage(r) THEN "send" ELSE "http")
      /\ c.slot = requests[r].slot /\ c.state = ref
      /\ c.charge = IF ref = "current" THEN bucket.remaining ELSE requests[r].charge
  BY <1>1, <1>2 DEF CallState, BucketRef, Bucket
<1>4. FitsWindow(r, c)
  BY <1>1, <1>3 DEF FitsWindow, Holding
<1>5. Set(r, c) /\ bucket' = IF ref = "current" THEN [bucket EXCEPT !.remaining = Charged]
                                                ELSE bucket
  BY DEF Charge, d
<1>6. Charged \in 0..Limit /\ Charged <= bucket.remaining
  BY <1>1, ApiAssumption DEF Charged, Bucket
<1>7. bucket' \in Bucket /\ bucket'.reported = bucket.reported
      /\ bucket'.remaining <= bucket'.reported
  BY <1>1, <1>5, <1>6, ApiAssumption DEF Bucket
<1>8. Backs(c) = 0 /\ Backs(requests[r]) = 0
  BY <1>1, <1>3 DEF Backs
<1>. HIDE DEF c
<1>9. Moves(r, c) /\ TakesFree(r, c)
  BY <1>3, <1>5 DEF Moves, Set, TakesFree
<1>10. CountsOnce(r, c)
  BY <1>1, <1>8 DEF CountsOnce
<1>11. Promises(r, c)
  <2>1. CASE ref = "current"
    BY <2>1, <1>1, <1>3, <1>7 DEF Promises
  <2>2. CASE ref # "current"
    BY <2>2, <1>3, <1>7 DEF Promises
  <2>. QED  BY <2>1, <2>2
<1>. QED  BY <1>3, <1>4, <1>9, <1>10, <1>11, StepKeeps

LEMMA AttemptKeeps == ASSUME RequestIInv, NEW r \in Requests, Attempt(r) PROVE RequestIInv'
<1>1. requests[r] \in CallState /\ FitsWindow(r, requests[r]) /\ requests[r].stage = "attempt"
      /\ UNCHANGED <<failures, faults>>
  BY DEF RequestIInv, RequestTypeOK, Attempt, At
<1>2. CASE MustPace(r)
  <2>. DEFINE c == [requests[r] EXCEPT !.stage = "pacing", !.state = "current", !.bypass = FALSE]
  <2>1. c \in CallState /\ c.stage = "pacing" /\ c.slot = requests[r].slot
        /\ c.state = "current" /\ c.charge = requests[r].charge
    BY <1>1 DEF CallState, Stage, BucketRef
  <2>2. Moves(r, c) /\ bucket' = bucket
    BY <1>2 DEF Attempt, Moves, Set
  <2>3. FitsWindow(r, c) /\ c.charge = 0
    BY <1>1, <2>1 DEF FitsWindow, Holding
  <2>4. Backs(c) = 0 /\ Backs(requests[r]) = 0
    BY <1>1, <2>1 DEF Backs
  <2>5. 0 <= bucket.reported
    BY CountersFit, ApiAssumption DEF Bucket
  <2>. HIDE DEF c
  <2>6. TakesFree(r, c) /\ CountsOnce(r, c) /\ Promises(r, c)
    BY <1>1, <2>1, <2>2, <2>3, <2>4, <2>5, CountersFit DEF TakesFree, CountsOnce, Promises
  <2>. QED  BY <2>1, <2>2, <2>3, <2>6, StepKeeps
<1>3. CASE ~MustPace(r)
  BY <1>1, <1>3, ChargeKeeps DEF Attempt, BucketRef
<1>. QED  BY <1>2, <1>3

LEMMA PacedKeeps == ASSUME RequestIInv, NEW r \in Requests, Paced(r) PROVE RequestIInv'
<1>1. requests[r].state \in BucketRef /\ requests[r].stage = "pacing"
  BY DEF RequestIInv, RequestTypeOK, CallState, Paced, At
<1>. QED  BY <1>1, ChargeKeeps DEF Paced

\* A refund keeps to what is reported.
LEMMA RefundFits ==
    ASSUME RequestIInv, NEW r \in Requests
    PROVE  /\ Refunded(r) \in Bucket
           /\ Refunded(r).reported = bucket.reported
           /\ Refunded(r).remaining <= bucket.reported
<1>1. requests[r] \in CallState /\ (requests[r].state = "current" => requests[r].charge <= bucket.reported)
  BY DEF RequestIInv, RequestTypeOK
<1>. QED  BY <1>1, CountersFit DEF Refunded, Bucket, CallState

\* Ending a call, or leaving an attempt, quietly.
LEMMA EndKeeps ==
    ASSUME RequestIInv, NEW r \in Requests, Set(r, End), UNCHANGED <<failures, bucket, faults>>
    PROVE  RequestIInv'
<1>1. Backs(End) = 0 /\ Backs(requests[r]) \in {0, 1}
  BY EndFits DEF Backs
<1>2. Backs(End) <= Backs(requests[r])
  BY <1>1
<1>3. (End.slot => requests[r].slot) /\ End.state # "current"
  BY EndFits
<1>. QED  BY <1>2, <1>3, EndFits, QuietStepKeeps

LEMMA LeaveKeeps ==
    ASSUME RequestIInv, NEW r \in Requests, NEW st \in Stage, Set(r, Leave(r, st)),
           IF IsMessage(r) THEN st \in {"attempt", "recover", "cooldown"}
                           ELSE st = "attempt" /\ requests[r].slot,
           UNCHANGED <<failures, bucket, faults>>
    PROVE  RequestIInv'
<1>1. Backs(Leave(r, st)) = 0 /\ Backs(requests[r]) \in {0, 1}
  BY LeaveShape DEF Backs
<1>2. FitsWindow(r, Leave(r, st))
  BY LeaveFits
<1>3. Leave(r, st).slot => requests[r].slot
  BY LeaveShape
<1>4. Backs(Leave(r, st)) <= Backs(requests[r])
  BY <1>1
<1>5. Leave(r, st).state # "current"
  BY LeaveShape
<1>. QED  BY <1>2, <1>3, <1>4, <1>5, LeaveShape, QuietStepKeeps

\* A bucket that a response publishes.
LEMMA PublishedFits ==
    ASSUME NEW r, NEW c, Published(r, c)
    PROVE  /\ bucket' \in Bucket
           /\ bucket'.remaining <= bucket'.reported
           /\ Moves(r, c)
           /\ requests' = [q \in Requests |-> IF q = r THEN c ELSE Outdated(requests[q])]
<1>1. PICK n \in 0..Limit :
         bucket' = [known |-> TRUE, remaining |-> n, reported |-> n, elapsed |-> FALSE]
  BY DEF Published
<1>. QED  BY <1>1, ApiAssumption DEF Published, Moves, Bucket

\* A step that publishes or not, and counts a call that does not back off.
LEMMA MayPublishKeeps ==
    ASSUME RequestIInv, NEW r \in Requests, NEW c \in CallState, MayPublish(r, c), FitsWindow(r, c),
           c.slot => requests[r].slot, c.state # "current", Backs(c) = 0,
           failures' = 0, UNCHANGED faults
    PROVE  RequestIInv'
<1>1. failures' \in Nat /\ faults' = faults /\ faults \in Nat /\ Backs(requests[r]) \in {0, 1}
  BY CountersFit DEF Backs
<1>2. CASE Published(r, Outdated(c))
  <2>. DEFINE o == Outdated(c)
  <2>1. o \in CallState /\ FitsWindow(r, o) /\ o.slot = c.slot /\ o.state # "current" /\ Backs(o) = 0
    BY OutdatedKeeps DEF Backs
  <2>. HIDE DEF o
  <2>2. Published(r, o)
    BY <1>2 DEF o
  <2>3. TakesFree(r, o) /\ CountsOnce(r, o) /\ Promises(r, o) /\ Moves(r, o)
    BY <1>1, <2>1, <2>2, PublishedFits DEF TakesFree, CountsOnce, Promises
  <2>. QED  BY <2>1, <2>3, StepKeeps
<1>3. CASE Set(r, c) /\ UNCHANGED bucket
  <2>1. Moves(r, c) /\ bucket' = bucket
    BY <1>3 DEF Moves, Set
  <2>2. TakesFree(r, c) /\ CountsOnce(r, c) /\ Promises(r, c)
    BY <1>1, <2>1, CountersFit DEF TakesFree, CountsOnce, Promises
  <2>. QED  BY <2>1, <2>2, StepKeeps
<1>. QED  BY <1>2, <1>3 DEF MayPublish

LEMMA SuccessKeeps == ASSUME RequestIInv, NEW r \in Requests, Success(r) PROVE RequestIInv'
<1>1. CASE MayPublish(r, End)
  <2>1. Backs(End) = 0
    BY EndFits DEF Backs
  <2>. QED  BY <1>1, <2>1, EndFits, MayPublishKeeps DEF Success
<1>2. CASE IsMessage(r) /\ MayPublish(r, Leave(r, "recover"))
  <2>1. "recover" \in Stage
    BY DEF Stage
  <2>2. FitsWindow(r, Leave(r, "recover"))
    BY <1>2, <2>1, LeaveFits
  <2>3. Backs(Leave(r, "recover")) = 0 /\ Leave(r, "recover").slot = FALSE
    BY <1>2, <2>1, LeaveShape DEF Backs
  <2>. QED  BY <1>2, <2>1, <2>2, <2>3, LeaveShape, MayPublishKeeps DEF Success
<1>. QED  BY <1>1, <1>2 DEF Success

LEMMA RefusalKeeps == ASSUME RequestIInv, NEW r \in Requests, Refusal(r) PROVE RequestIInv'
<1>1. "recover" \in Stage
  BY DEF Stage
<1>. QED  BY <1>1, EndKeeps, LeaveKeeps DEF Refusal

LEMMA RateLimitedKeeps == ASSUME RequestIInv, NEW r \in Requests, RateLimited(r) PROVE RequestIInv'
<1>. DEFINE b == [requests[r] EXCEPT !.stage = "limited", !.state = "none", !.charge = 0]
            c(x) == [b EXCEPT !.bypass = x]
<1>1. requests[r] \in CallState /\ FitsWindow(r, requests[r]) /\ requests[r].stage = "http"
      /\ UNCHANGED <<failures, faults>> /\ 0 \in 0..Limit
  BY ApiAssumption DEF RequestIInv, RequestTypeOK, RateLimited, CountedLimit, At
<1>2. ASSUME NEW x \in BOOLEAN, ~Last(r)
      PROVE  /\ c(x) \in CallState /\ FitsWindow(r, c(x)) /\ c(x).slot = requests[r].slot
             /\ c(x).state = "none" /\ Backs(c(x)) = 0
  <2>1. b \in CallState /\ b.stage = "limited" /\ b.slot = requests[r].slot
        /\ b.state = "none" /\ b.charge = 0 /\ b.attempt = requests[r].attempt
    BY <1>1 DEF CallState, Stage, BucketRef
  <2>. HIDE DEF b
  <2>2. c(x) \in CallState /\ c(x).stage = "limited" /\ c(x).slot = requests[r].slot
        /\ c(x).state = "none" /\ c(x).charge = 0 /\ c(x).attempt = requests[r].attempt
    BY <2>1 DEF CallState
  <2>. HIDE DEF c
  <2>3. c(x).attempt < MaxRetries - 1
    BY <1>1, <1>2, <2>2, ApiAssumption DEF Last, CallState
  <2>. QED  BY <1>1, <2>2, <2>3 DEF FitsWindow, Holding, Backs
<1>3. Backs(requests[r]) = 0
  BY <1>1 DEF Backs
<1>4. CASE Last(r)
  BY <1>1, <1>4, EndKeeps DEF RateLimited
<1>5. CASE ~Last(r) /\ Published(r, c(TRUE))
  <2>. DEFINE d == c(TRUE)
  <2>1. d \in CallState /\ FitsWindow(r, d) /\ d.slot = requests[r].slot /\ d.state = "none" /\ Backs(d) = 0
    BY <1>2, <1>5
  <2>2. Published(r, d) /\ failures' = failures /\ faults' = faults
    BY <1>1, <1>5
  <2>. HIDE DEF d
  <2>3. TakesFree(r, d) /\ CountsOnce(r, d) /\ Promises(r, d) /\ Moves(r, d)
    BY <1>3, <2>1, <2>2, PublishedFits, CountersFit DEF TakesFree, CountsOnce, Promises
  <2>. QED  BY <2>1, <2>3, StepKeeps
<1>6. CASE ~Last(r) /\ Set(r, c(requests[r].state = "current")) /\ UNCHANGED bucket
  <2>. DEFINE d == c(requests[r].state = "current")
  <2>1. (requests[r].state = "current") \in BOOLEAN
    OBVIOUS
  <2>2. d \in CallState /\ FitsWindow(r, d) /\ d.slot = requests[r].slot /\ d.state = "none" /\ Backs(d) = 0
    BY <1>2, <1>6, <2>1
  <2>3. Set(r, d) /\ UNCHANGED <<failures, bucket, faults>>
    BY <1>1, <1>6
  <2>. HIDE DEF d
  <2>4. Backs(d) <= Backs(requests[r]) /\ d.state # "current" /\ (d.slot => requests[r].slot)
    BY <1>3, <2>2
  <2>. QED  BY <2>2, <2>3, <2>4, QuietStepKeeps
<1>. QED  BY <1>4, <1>5, <1>6 DEF RateLimited

\* A call that goes on to another attempt.
LEMMA RetryShape ==
    ASSUME RequestIInv, NEW r \in Requests, requests[r].stage \in {"limited", "backoff"}
    PROVE  LET c == [Leave(r, "attempt") EXCEPT !.attempt = @ + 1]
           IN  /\ c \in CallState
               /\ FitsWindow(r, c)
               /\ c.slot => requests[r].slot
               /\ c.state = "none"
               /\ Backs(c) = 0
<1>. DEFINE l == Leave(r, "attempt")
            c == [l EXCEPT !.attempt = l.attempt + 1]
<1>1. requests[r] \in CallState /\ FitsWindow(r, requests[r]) /\ "attempt" \in Stage
  BY DEF RequestIInv, RequestTypeOK, Stage
<1>2. ~IsMessage(r) => requests[r].slot = TRUE
  BY <1>1 DEF FitsWindow, Holding
<1>3. l \in CallState /\ l.stage = "attempt" /\ l.state = "none" /\ l.charge = 0
      /\ l.attempt = requests[r].attempt /\ l.slot = IF IsMessage(r) THEN FALSE ELSE requests[r].slot
  BY <1>1, LeaveShape
<1>4. FitsWindow(r, l)
  BY <1>1, <1>2, LeaveFits
<1>. HIDE DEF l
<1>5. l.attempt + 1 \in 0..MaxRetries - 1
  BY <1>1, <1>3, ApiAssumption DEF FitsWindow, CallState
<1>6. c \in CallState /\ c.stage = "attempt" /\ c.state = "none" /\ c.charge = 0
      /\ c.slot = l.slot
  BY <1>3, <1>5 DEF CallState
<1>7. c = [Leave(r, "attempt") EXCEPT !.attempt = @ + 1]
  BY DEF l
<1>. HIDE DEF c
<1>8. FitsWindow(r, c) /\ Backs(c) = 0
  BY <1>3, <1>4, <1>6 DEF FitsWindow, Backs
<1>9. c.slot => requests[r].slot
  BY <1>3, <1>6
<1>. QED  BY <1>6, <1>7, <1>8, <1>9

LEMMA LimitOverKeeps == ASSUME RequestIInv, NEW r \in Requests, LimitOver(r) PROVE RequestIInv'
<1>. DEFINE c == [Leave(r, "attempt") EXCEPT !.attempt = @ + 1]
<1>1. requests[r].stage = "limited" /\ Set(r, c) /\ UNCHANGED <<failures, bucket, faults>>
  BY DEF LimitOver, At
<1>2. c \in CallState /\ FitsWindow(r, c) /\ (c.slot => requests[r].slot) /\ c.state = "none" /\ Backs(c) = 0
  BY <1>1, RetryShape
<1>. HIDE DEF c
<1>3. Backs(c) <= Backs(requests[r])
  BY <1>2 DEF Backs
<1>4. c.state # "current"
  BY <1>2
<1>. QED  BY <1>1, <1>2, <1>3, <1>4, QuietStepKeeps

LEMMA BackoffOverKeeps == ASSUME RequestIInv, NEW r \in Requests, BackoffOver(r) PROVE RequestIInv'
<1>. DEFINE c == [Leave(r, "attempt") EXCEPT !.attempt = @ + 1]
<1>1. requests[r].stage = "backoff" /\ Set(r, c)
      /\ failures' = failures + 1 /\ faults' = faults /\ bucket' = Refunded(r)
  BY DEF BackoffOver, At
<1>2. c \in CallState /\ FitsWindow(r, c) /\ (c.slot => requests[r].slot) /\ c.state = "none" /\ Backs(c) = 0
  BY <1>1, RetryShape
<1>. HIDE DEF c
<1>3. Backs(requests[r]) = 1
  BY <1>1 DEF Backs
<1>4. CountsOnce(r, c)
  BY <1>1, <1>2, <1>3, CountersFit DEF CountsOnce
<1>5. Promises(r, c)
  BY <1>1, <1>2, RefundFits DEF Promises
<1>6. Moves(r, c) /\ TakesFree(r, c)
  BY <1>1, <1>2 DEF Moves, Set, TakesFree
<1>. QED  BY <1>2, <1>4, <1>5, <1>6, StepKeeps

LEMMA SlowmodeKeeps == ASSUME RequestIInv, NEW r \in Requests, Slowmode(r) PROVE RequestIInv'
<1>. DEFINE l == Leave(r, "cooldown")
            c == [l EXCEPT !.cooled = TRUE]
<1>1. IsMessage(r) /\ UNCHANGED <<failures, bucket, faults>> /\ "cooldown" \in Stage
  BY DEF Slowmode, Stage
<1>2. CASE requests[r].cooled
  BY <1>1, <1>2, EndKeeps DEF Slowmode
<1>3. CASE ~requests[r].cooled
  <2>1. l \in CallState /\ l.stage = "cooldown" /\ l.slot = FALSE /\ l.state = "none"
        /\ l.charge = 0 /\ FitsWindow(r, l)
    BY <1>1, LeaveShape, LeaveFits
  <2>2. Set(r, c)
    BY <1>3 DEF Slowmode
  <2>. HIDE DEF l
  <2>3. c \in CallState /\ c.stage = "cooldown" /\ c.slot = l.slot /\ c.state = "none"
        /\ c.charge = 0
    BY <2>1 DEF CallState
  <2>. HIDE DEF c
  <2>4. FitsWindow(r, c) /\ Backs(c) = 0
    BY <2>1, <2>3 DEF FitsWindow, Backs
  <2>5. Backs(c) <= Backs(requests[r])
    BY <2>4 DEF Backs
  <2>6. (c.slot => requests[r].slot) /\ c.state # "current"
    BY <2>1, <2>3
  <2>. QED  BY <1>1, <2>2, <2>3, <2>4, <2>5, <2>6, QuietStepKeeps
<1>. QED  BY <1>2, <1>3

LEMMA CooledKeeps == ASSUME RequestIInv, NEW r \in Requests, Cooled(r) PROVE RequestIInv'
<1>. DEFINE c == [requests[r] EXCEPT !.stage = "enter"]
<1>1. requests[r] \in CallState /\ FitsWindow(r, requests[r]) /\ requests[r].stage = "cooldown"
      /\ Set(r, c) /\ UNCHANGED <<failures, bucket, faults>>
  BY DEF RequestIInv, RequestTypeOK, Cooled, At, Goto
<1>2. c \in CallState /\ c.stage = "enter" /\ c.slot = requests[r].slot
      /\ c.state = requests[r].state /\ c.charge = requests[r].charge
  BY <1>1 DEF CallState, Stage
<1>. HIDE DEF c
<1>3. FitsWindow(r, c) /\ c.state # "current"
  BY <1>1, <1>2 DEF FitsWindow, Holding
<1>4. Backs(c) <= Backs(requests[r])
  BY <1>1, <1>2 DEF Backs
<1>5. c.slot => requests[r].slot
  BY <1>2
<1>. QED  BY <1>1, <1>2, <1>3, <1>4, <1>5, QuietStepKeeps

\* Where a fault leads, a call fits and holds no new slot.
LEMMA AfterFaultShape ==
    ASSUME RequestIInv, NEW r \in Requests, requests[r].stage = "http"
    PROVE  /\ AfterFault(r) \in CallState
           /\ FitsWindow(r, AfterFault(r))
           /\ AfterFault(r).slot => requests[r].slot
           /\ AfterFault(r).state = "current" => AfterFault(r).charge <= bucket.reported
<1>1. requests[r] \in CallState /\ FitsWindow(r, requests[r])
      /\ (requests[r].state = "current" => requests[r].charge <= bucket.reported)
  BY DEF RequestIInv, RequestTypeOK
<1>2. CASE IsMessage(r)
  <2>1. AfterFault(r) = Leave(r, "recover") /\ "recover" \in Stage
    BY <1>2 DEF AfterFault, Stage
  <2>2. Leave(r, "recover").slot = FALSE
    BY <1>2, <2>1, LeaveShape
  <2>. QED  BY <1>2, <2>1, <2>2, LeaveShape, LeaveFits
<1>3. CASE ~IsMessage(r) /\ Last(r)
  <2>1. AfterFault(r) = End
    BY <1>3 DEF AfterFault
  <2>. QED  BY <2>1, EndFits
<1>4. CASE ~IsMessage(r) /\ ~Last(r)
  <2>. DEFINE c == [requests[r] EXCEPT !.stage = "backoff"]
  <2>1. AfterFault(r) = c
    BY <1>4 DEF AfterFault
  <2>2. c \in CallState /\ c.stage = "backoff" /\ c.slot = requests[r].slot
        /\ c.state = requests[r].state /\ c.charge = requests[r].charge /\ c.attempt = requests[r].attempt
    BY <1>1 DEF CallState, Stage
  <2>. HIDE DEF c
  <2>3. c.attempt < MaxRetries - 1
    BY <1>1, <1>4, <2>2, ApiAssumption DEF Last, CallState
  <2>4. FitsWindow(r, c)
    BY <1>1, <1>4, <2>2, <2>3 DEF FitsWindow, Holding
  <2>5. c.slot => requests[r].slot
    BY <2>2
  <2>6. c.state = "current" => c.charge <= bucket.reported
    BY <1>1, <2>2
  <2>. QED  BY <2>1, <2>2, <2>4, <2>5, <2>6
<1>. QED  BY <1>2, <1>3, <1>4

LEMMA FaultKeeps == ASSUME RequestIInv, NEW r \in Requests, Fault(r) PROVE RequestIInv'
<1>. DEFINE c == AfterFault(r)
<1>1. requests[r].stage = "http" /\ faults' = faults + 1 /\ Set(r, c)
  BY DEF Fault, At
<1>2. /\ c \in CallState /\ FitsWindow(r, c) /\ (c.slot => requests[r].slot)
      /\ (c.state = "current" => c.charge <= bucket.reported)
  BY <1>1, AfterFaultShape
<1>3. IF c.stage = "backoff" THEN failures' = failures /\ bucket' = bucket
      ELSE failures' = failures + 1 /\ (bucket' = bucket \/ bucket' = Refunded(r))
  BY DEF Fault, RefundedIfMessage
<1>. HIDE DEF c
<1>4. Backs(c) = (IF c.stage = "backoff" THEN 1 ELSE 0) /\ Backs(requests[r]) = 0
  BY <1>1 DEF Backs
<1>5. CountsOnce(r, c)
  BY <1>1, <1>3, <1>4, CountersFit DEF CountsOnce
<1>6. bucket' = bucket \/ bucket' = Refunded(r)
  BY <1>3
<1>7. Promises(r, c)
  BY <1>2, <1>6, CountersFit, RefundFits DEF Promises
<1>8. Moves(r, c) /\ TakesFree(r, c)
  BY <1>1, <1>2 DEF Moves, Set, TakesFree
<1>. QED  BY <1>2, <1>5, <1>7, <1>8, StepKeeps

LEMMA BrokenAnswerKeeps == ASSUME RequestIInv, NEW r \in Requests, BrokenAnswer(r) PROVE RequestIInv'
<1>. DEFINE c == AfterFault(r)
<1>1. requests[r].stage = "http" /\ faults' = faults + 1
      /\ failures' = (IF c.stage = "backoff" THEN 0 ELSE 1)
  BY DEF BrokenAnswer, At
<1>2. /\ c \in CallState /\ FitsWindow(r, c) /\ (c.slot => requests[r].slot)
      /\ (c.state = "current" => c.charge <= bucket.reported)
  BY <1>1, AfterFaultShape
<1>3. Published(r, Outdated(c)) \/ (Set(r, c) /\ (bucket' = bucket \/ bucket' = Refunded(r)))
  BY DEF BrokenAnswer, RefundedIfMessage
<1>. HIDE DEF c
<1>4. Backs(c) = (IF c.stage = "backoff" THEN 1 ELSE 0) /\ Backs(requests[r]) = 0
  BY <1>1 DEF Backs
<1>5. CountsOnce(r, c)
  BY <1>1, <1>4, CountersFit DEF CountsOnce
<1>6. CASE Published(r, Outdated(c))
  <2>. DEFINE o == Outdated(c)
  <2>1. o \in CallState /\ FitsWindow(r, o) /\ o.slot = c.slot /\ o.state # "current"
        /\ o.stage = c.stage
    BY <1>2, OutdatedKeeps
  <2>2. Published(r, o)
    BY <1>6
  <2>. HIDE DEF o
  <2>3. CountsOnce(r, o)
    BY <1>5, <2>1 DEF CountsOnce, Backs
  <2>4. TakesFree(r, o)
    BY <1>2, <2>1 DEF TakesFree
  <2>5. Promises(r, o) /\ Moves(r, o)
    BY <2>1, <2>2, PublishedFits DEF Promises
  <2>. QED  BY <2>1, <2>3, <2>4, <2>5, StepKeeps
<1>7. CASE Set(r, c) /\ (bucket' = bucket \/ bucket' = Refunded(r))
  <2>1. Promises(r, c)
    BY <1>2, <1>7, CountersFit, RefundFits DEF Promises
  <2>2. Moves(r, c) /\ TakesFree(r, c)
    BY <1>2, <1>7 DEF Moves, Set, TakesFree
  <2>. QED  BY <1>2, <1>5, <2>1, <2>2, StepKeeps
<1>. QED  BY <1>3, <1>6, <1>7

LEMMA LookupKeeps == ASSUME RequestIInv, NEW r \in Requests, RecoveryLookup(r) PROVE RequestIInv'
<1>1. requests[r].stage = "lookup" /\ Set(r, End) /\ bucket' = bucket
      /\ \/ failures' = 0 /\ faults' = faults
         \/ failures' = failures + 1 /\ faults' = faults + 1
         \/ failures' = failures /\ faults' = faults
  BY DEF RecoveryLookup, At
<1>2. Backs(End) = 0 /\ Backs(requests[r]) = 0
  BY <1>1, EndFits DEF Backs
<1>3. CountsOnce(r, End)
  BY <1>1, <1>2, CountersFit DEF CountsOnce
<1>4. Promises(r, End)
  BY <1>1, CountersFit, EndFits DEF Promises
<1>5. Moves(r, End) /\ TakesFree(r, End)
  BY <1>1, EndFits DEF Moves, Set, TakesFree
<1>. QED  BY <1>3, <1>4, <1>5, EndFits, StepKeeps

LEMMA WindowElapsesKeeps == ASSUME RequestIInv, WindowElapses PROVE RequestIInv'
<1>1. bucket' \in Bucket /\ bucket'.remaining = bucket.remaining
      /\ bucket'.reported = bucket.reported
      /\ requests' = requests /\ failures' = failures /\ faults' = faults
  BY CountersFit DEF WindowElapses, Bucket
<1>2. Holders' = Holders
  BY <1>1 DEF Holders
<1>. QED  BY <1>1, <1>2 DEF RequestIInv, RequestTypeOK, BreakerCountsFaults, ShadowHonest, At, FitsWindow, Holding

-----------------------------------------------------------------------------
(* The theorems.                                                           *)

LEMMA InitFits == RequestInit => RequestIInv
<1>. SUFFICES ASSUME RequestInit PROVE RequestIInv
  OBVIOUS
<1>1. 0 \in 0..MaxRetries - 1 /\ 0 \in 0..Limit /\ SlotCount \in Nat
  BY ApiAssumption DEF SlotCount
<1>2. NewRequest \in CallState /\ NewRequest.stage = "idle" /\ NewRequest.slot = FALSE
      /\ NewRequest.state = "none" /\ NewRequest.charge = 0
  BY <1>1 DEF NewRequest, CallState, Stage, BucketRef
<1>3. /\ requests \in [Requests -> CallState] /\ \A r \in Requests : requests[r] = NewRequest
      /\ failures = 0 /\ faults = 0
      /\ bucket \in Bucket /\ bucket.remaining = 0 /\ bucket.reported = 0
  BY <1>1, <1>2 DEF RequestInit, Bucket
<1>4. Holders = {} /\ Backing = {}
  BY <1>2, <1>3 DEF Holders, Backing, At
<1>5. Cardinality(Holders) <= SlotCount /\ Cardinality(Backing) = 0
  BY <1>1, <1>4, FS_EmptySet
<1>6. ASSUME NEW r \in Requests PROVE FitsWindow(r, requests[r])
  <2>1. Holding(r, "idle") = FALSE
    BY DEF Holding
  <2>. QED  BY <1>2, <1>3, <2>1 DEF FitsWindow
<1>7. RequestTypeOK
  BY <1>3 DEF RequestTypeOK
<1>8. BreakerCountsFaults /\ ShadowHonest
  BY <1>3, <1>5 DEF BreakerCountsFaults, ShadowHonest, Backing
<1>. QED  BY <1>2, <1>3, <1>5, <1>6, <1>7, <1>8 DEF RequestIInv

LEMMA StepsKeep == RequestIInv /\ [RequestNext]_requestVars => RequestIInv'
<1>. SUFFICES ASSUME RequestIInv, [RequestNext]_requestVars PROVE RequestIInv'
  OBVIOUS
<1>1. ASSUME NEW r \in Requests, Step(r) PROVE RequestIInv'
  BY <1>1, AcquireKeeps, EnterKeeps, PauseOverKeeps, AttemptKeeps, PacedKeeps, SuccessKeeps,
     RefusalKeeps, RateLimitedKeeps, SlowmodeKeeps, FaultKeeps, BrokenAnswerKeeps,
     LimitOverKeeps, CooledKeeps, BackoffOverKeeps, LookupKeeps DEF Step, Response
<1>2. ASSUME NEW r \in Requests, Issue(r) PROVE RequestIInv'
  BY <1>2, BeginKeeps
<1>3. ASSUME NEW r \in Requests, Cancel(r) PROVE RequestIInv'
  BY <1>3, EndKeeps DEF Cancel
<1>4. CASE WindowElapses
  BY <1>4, WindowElapsesKeeps
<1>5. CASE UNCHANGED requestVars
  <2>1. Holders' = Holders
    BY <1>5 DEF requestVars, Holders
  <2>. QED  BY <1>5, <2>1 DEF requestVars, RequestIInv, RequestTypeOK, BreakerCountsFaults, ShadowHonest, At, FitsWindow,
                               Holding
<1>. QED  BY <1>1, <1>2, <1>3, <1>4, <1>5 DEF RequestNext

\* The invariant holds of every reachable state, for any number of calls.
THEOREM RequestsInv == RequestSpec => []RequestIInv
<1>1. RequestInit => RequestIInv
  BY InitFits
<1>2. RequestIInv /\ [RequestNext]_requestVars => RequestIInv'
  BY StepsKeep
<1>. QED  BY <1>1, <1>2, PTL DEF RequestSpec

\* Calls and counters keep their shape, the shadow counter its range.
THEOREM RequestsTypeCorrect == RequestSpec => []RequestTypeOK
<1>1. RequestIInv => RequestTypeOK
  BY DEF RequestIInv
<1>. QED  BY <1>1, RequestsInv, PTL

\* The requests on the wire never outnumber the slots of the semaphore.
THEOREM RequestsBounded == RequestSpec => []InFlightBounded
<1>1. RequestIInv => InFlightBounded
  <2>. SUFFICES ASSUME RequestIInv PROVE InFlightBounded
    OBVIOUS
  <2>. DEFINE W == {r \in Requests : requests[r].stage \in {"http", "lookup"}}
  <2>1. W \subseteq Holders
    <3>. SUFFICES ASSUME NEW r \in Requests, requests[r].stage \in {"http", "lookup"}
                  PROVE  requests[r].slot
      BY DEF Holders
    <3>1. FitsWindow(r, requests[r])
      BY DEF RequestIInv
    <3>. QED  BY <3>1 DEF FitsWindow, Holding
  <2>2. IsFiniteSet(Holders) /\ Cardinality(Holders) \in Nat
    BY CallsFinite DEF Holders
  <2>3. Cardinality(W) <= Cardinality(Holders) /\ Cardinality(W) \in Nat
    BY <2>1, <2>2, FS_Subset, FS_CardinalityType
  <2>4. Cardinality(Holders) <= SlotCount /\ SlotCount \in Nat
    BY ApiAssumption DEF RequestIInv, SlotCount
  <2>5. Cardinality(W) <= SlotCount
    BY <2>2, <2>3, <2>4
  <2>. QED  BY <2>5 DEF InFlightBounded
<1>. QED  BY <1>1, RequestsInv, PTL

\* A call that waits for a slot holds none.
THEOREM NoCallHoldsAndWaits == RequestSpec => []NoHoldAndWait
<1>1. RequestIInv => NoHoldAndWait
  BY DEF RequestIInv, NoHoldAndWait, FitsWindow, Holding, At
<1>. QED  BY <1>1, RequestsInv, PTL

\* The breaker counts each fault of the service at most once.
THEOREM BreakerCounts == RequestSpec => []BreakerCountsFaults
<1>1. RequestIInv => BreakerCountsFaults
  BY DEF RequestIInv
<1>. QED  BY <1>1, RequestsInv, PTL

\* The shadow counter never promises more than the service reported.
THEOREM ShadowBounded == RequestSpec => []ShadowHonest
<1>1. RequestIInv => ShadowHonest
  BY DEF RequestIInv
<1>. QED  BY <1>1, RequestsInv, PTL

\* The slots and the counters that all calls of _api_request share stay sound.
THEOREM SharedStateSound == RequestSpec => []SharedSound
<1>1. InFlightBounded /\ NoHoldAndWait /\ BreakerCountsFaults /\ ShadowHonest => SharedSound
  BY DEF SharedSound
<1>. QED
  BY <1>1, RequestsBounded, NoCallHoldsAndWaits, BreakerCounts, ShadowBounded, PTL

-----------------------------------------------------------------------------
(* The way of a message send.                                              *)

\* A step of one call leaves the stages of the others alone.
LEMMA StagesStay ==
    ASSUME RequestIInv, NEW q \in Requests, NEW c, Moves(q, c), NEW r \in Requests
    PROVE  requests'[r].stage = IF r = q THEN c.stage ELSE requests[r].stage
<1>1. requests \in [Requests -> CallState]
  BY DEF RequestIInv, RequestTypeOK
<1>2. CASE requests' = [requests EXCEPT ![q] = c]
  BY <1>1, <1>2
<1>3. CASE requests' = [p \in Requests |-> IF p = q THEN c ELSE Outdated(requests[p])]
  BY <1>1, <1>3, OutdatedKeeps
<1>. QED  BY <1>2, <1>3 DEF Moves

\* Where an answer leads a message send.
LEMMA AnswerLeads ==
    ASSUME RequestIInv, NEW r \in Requests, IsMessage(r), Response(r)
    PROVE  \E c : Moves(r, c) /\ c.stage \in {"done", "recover", "limited", "cooldown"}
<1>1. requests[r] \in CallState /\ {"recover", "cooldown"} \subseteq Stage
  BY DEF RequestIInv, RequestTypeOK, Stage
<1>2. /\ End.stage = "done"
      /\ Leave(r, "recover").stage = "recover"
      /\ Leave(r, "cooldown").stage = "cooldown" /\ Leave(r, "cooldown") \in CallState
      /\ Outdated(End).stage = "done"
      /\ Outdated(Leave(r, "recover")).stage = "recover"
  <2>1. End.stage = "done" /\ End \in CallState
    BY EndFits
  <2>2. Leave(r, "recover").stage = "recover" /\ Leave(r, "recover") \in CallState
    BY <1>1, LeaveShape
  <2>3. Leave(r, "cooldown").stage = "cooldown" /\ Leave(r, "cooldown") \in CallState
    BY <1>1, LeaveShape
  <2>4. \A c \in CallState : Outdated(c).stage = c.stage
    BY OutdatedKeeps
  <2>. QED  BY <2>1, <2>2, <2>3, <2>4
<1>3. AfterFault(r) = Leave(r, "recover")
  BY DEF AfterFault
<1>4. ASSUME NEW c, Set(r, c) \/ Published(r, c) PROVE Moves(r, c)
  BY <1>4 DEF Set, Published, Moves
<1>5. CASE Success(r)
  BY <1>2, <1>4, <1>5 DEF Success, MayPublish
<1>6. CASE Refusal(r)
  BY <1>2, <1>4, <1>6 DEF Refusal
<1>7. CASE RateLimited(r)
  <2>. DEFINE b == [requests[r] EXCEPT !.stage = "limited", !.state = "none", !.charge = 0]
              c(x) == [b EXCEPT !.bypass = x]
  <2>1. ASSUME NEW x PROVE c(x).stage = "limited"
    BY <1>1 DEF CallState
  <2>2. \/ Set(r, End) \/ Published(r, c(TRUE)) \/ Set(r, c(requests[r].state = "current"))
    BY <1>7 DEF RateLimited
  <2>. HIDE DEF c
  <2>. QED  BY <1>2, <1>4, <2>1, <2>2
<1>8. CASE Slowmode(r)
  <2>. DEFINE c == [Leave(r, "cooldown") EXCEPT !.cooled = TRUE]
  <2>1. c.stage = "cooldown"
    BY <1>2 DEF CallState
  <2>2. Set(r, End) \/ Set(r, c)
    BY <1>8 DEF Slowmode
  <2>. HIDE DEF c
  <2>. QED  BY <1>2, <1>4, <2>1, <2>2
<1>9. CASE Fault(r)
  BY <1>2, <1>3, <1>4, <1>9 DEF Fault
<1>10. CASE BrokenAnswer(r)
  BY <1>2, <1>3, <1>4, <1>10 DEF BrokenAnswer
<1>. QED  BY <1>5, <1>6, <1>7, <1>8, <1>9, <1>10 DEF Response

\* A message send goes back to the wire only after a rate limit refused it.
THEOREM OnlyRefusedIsResent == RequestSpec => ResentOnlyWhenLimited
<1>. DEFINE A == \A r \in MessageSend :
                   /\ At(r, "http") /\ ~At(r, "http")' =>
                         requests'[r].stage \in {"done", "recover", "limited", "cooldown"}
                   /\ At(r, "recover") \/ At(r, "lookup") =>
                         requests'[r].stage \in {"recover", "lookup", "done"}
<1>1. RequestIInv /\ [RequestNext]_requestVars => [A]_requestVars
  <2>. SUFFICES ASSUME RequestIInv, RequestNext, NEW r \in MessageSend PROVE
                   /\ At(r, "http") /\ ~At(r, "http")' =>
                         requests'[r].stage \in {"done", "recover", "limited", "cooldown"}
                   /\ At(r, "recover") \/ At(r, "lookup") =>
                         requests'[r].stage \in {"recover", "lookup", "done"}
    OBVIOUS
  <2>1. r \in Requests /\ IsMessage(r)
    BY ApiAssumption DEF IsMessage
  <2>2. ASSUME NEW c, Moves(r, c) PROVE requests'[r].stage = c.stage
    BY <2>1, <2>2, StagesStay
  <2>3. CASE Response(r)
    <3>1. requests'[r].stage \in {"done", "recover", "limited", "cooldown"}
      BY <2>1, <2>2, <2>3, AnswerLeads
    <3>2. At(r, "http")
      BY <2>3 DEF Response, Success, Refusal, RateLimited, Slowmode, Fault, BrokenAnswer
    <3>. QED  BY <3>1, <3>2 DEF At
  <2>4. CASE Set(r, End)
    BY <2>2, <2>4, EndFits, <2>1 DEF Set, Moves
  <2>5. CASE At(r, "recover") /\ Acquire(r)
    <3>. DEFINE c == [requests[r] EXCEPT !.slot = TRUE, !.stage = "lookup"]
    <3>1. Set(r, c)
      BY <2>5 DEF Acquire, At
    <3>2. c.stage = "lookup"
      BY <2>1 DEF RequestIInv, RequestTypeOK, CallState
    <3>. HIDE DEF c
    <3>3. requests'[r].stage = "lookup"
      BY <2>2, <3>1, <3>2 DEF Set, Moves
    <3>. QED  BY <2>5, <3>3 DEF At
  <2>6. CASE ~(At(r, "http") \/ At(r, "recover") \/ At(r, "lookup"))
    BY <2>6
  <2>7. CASE requests'[r].stage = requests[r].stage
    BY <2>7 DEF At
  <2>8. ASSUME NEW q \in Requests \ {r}, Issue(q) \/ Step(q) \/ Cancel(q)
        PROVE  requests'[r].stage = requests[r].stage
    <3>1. \E c : Moves(q, c)
      BY <2>8 DEF Issue, Step, Cancel, Acquire, Enter, PauseOver, Attempt, Paced, Charge, Response,
                  Success, Refusal, RateLimited, Slowmode, Fault, BrokenAnswer, LimitOver, Cooled,
                  BackoffOver, RecoveryLookup, MayPublish, Published, Goto, Set, Moves
    <3>. QED  BY <2>1, <3>1, StagesStay
  <2>9. CASE WindowElapses
    BY <2>9, <2>7 DEF WindowElapses
  <2>10. CASE Issue(r) \/ Step(r) \/ Cancel(r)
    BY <2>3, <2>4, <2>5, <2>6, <2>10
    DEF Issue, Step, Cancel, Acquire, Enter, PauseOver, Attempt, Paced, LimitOver, Cooled,
        BackoffOver, RecoveryLookup, At
  <2>. QED  BY <2>7, <2>8, <2>9, <2>10, <2>1 DEF RequestNext
<1>2. RequestSpec => [][A]_requestVars
  BY <1>1, RequestsInv, PTL DEF RequestSpec
<1>. QED  BY <1>2 DEF ResentOnlyWhenLimited
=============================================================================
