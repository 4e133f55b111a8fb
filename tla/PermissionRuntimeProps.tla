----------------------- MODULE PermissionRuntimeProps -----------------------
(***************************************************************************)
(* What the permission runtime promises its operation.                     *)
(***************************************************************************)
EXTENDS PermissionRuntime

Waiting == {"idle", "creating", "writing", "applying", "server", "channel", "again", "ready", "sending"}

\* Type invariant.
TypeOK ==
    /\ off \subseteq Fact /\ wrong \in [Channel -> SUBSET (Cell \union {Foreign})]
    /\ bound \subseteq Role \union Channel
    /\ print \in Nat \ {0} /\ authority \in [Channel -> 0..print]
    /\ pending \in Nat /\ confirmed \in BOOLEAN /\ stopped \in BOOLEAN
    /\ effects \in {"none", "possible", "confirmed"}
    /\ mode \in {"jobs", "messages", "over"} /\ at \in [Thing -> Waiting]
    /\ why \in [Channel -> {"apply", "verify"}]
    /\ seen \in [Channel -> SUBSET (Fact \union Cell \union {Foreign})]
    /\ todo \in [Channel -> SUBSET Cell] /\ sends \in [Channel -> Nat]
    /\ changed \in BOOLEAN /\ lost \in Nat
    /\ since \in [Channel -> BOOLEAN] /\ restored \in [Channel -> BOOLEAN]
    /\ clean \in [Channel -> BOOLEAN]
    /\ faults \in Nat /\ intrusions \in Nat

\* A write is settled once or given up, so the count of unsettled ones is exact.
Counted == pending = lost + Cardinality(InFlight)

\* The effects that the report gives are never less than what was done: none
\* when no write of ours took effect, confirmed when every fate is known.
EffectsHonest ==
    /\ effects = "none" => ~changed
    /\ effects = "confirmed" => changed /\ lost = 0 /\ InFlight = {}

\* The channel was, at some time since its read began, as the source has it. Three requests
\* cannot see a layout that went wrong and was restored between them; nothing else is excepted.
WasRight(c) == since[c] \/ restored[c]

\* No message is dispatched into a channel that was not right since the worker's read began.
ContentUnderProof == \A c \in Channel : at[c] \in {"ready", "sending"} => WasRight(c)

\* A proof does not outlive a write of ours that touches what it was read from, ...
ProofNotOutlived == \A c \in Channel : authority[c] # 0 => clean[c]

\* ... and the outcome is verified only by proofs of every channel under the bindings
\* that hold then.
VerifiedIsCurrent == Verified => \A c \in Channel : Proved(c) /\ WasRight(c)

\* The accounts of the operation: the types, the writes that are not settled, and the
\* effects that the report gives.
RuntimeInv == TypeOK /\ Counted /\ EffectsHonest

\* A proof, and the outcome that rests on all of them, is of what holds now.
ProofsCurrent == ProofNotOutlived /\ VerifiedIsCurrent
=============================================================================
