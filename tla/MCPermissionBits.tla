--------------------------- MODULE MCPermissionBits ---------------------------
EXTENDS PermissionBitsProps

None == [everyone |-> FALSE, cell |-> Neutral, guilds |-> {}, allows |-> {}, denies |-> {}]
All == [None EXCEPT !.everyone = TRUE]

\* The facts of a bit in which only the roles of rs occur.  Server grants below
\* an overwrite of @everyone make no difference and are left out.
FactsOf(rs) ==
    {[everyone |-> e, cell |-> x, guilds |-> g, allows |-> a, denies |-> d] :
        e \in BOOLEAN, x \in Cells, g \in SUBSET rs, a \in SUBSET rs, d \in SUBSET rs}
MCFacts(rs) == {f \in FactsOf(rs) : f.allows \cap f.denies = {}
                                   /\ (f.cell # Neutral => f.guilds = {} /\ ~f.everyone)}

Simple(rs) == {f \in MCFacts(rs) : f.cell = Neutral /\ f.guilds = {}}
Table(v, s, a, t) == [view |-> v, send |-> s, attach |-> a, threadsend |-> t]
Basic == [bit |-> "view", managed |-> {}, admins |-> {}, members |-> FALSE, thread |-> FALSE,
          facts |-> Table(All, All, All, All), other |-> Table(All, All, All, All),
          grants |-> {}, denies |-> {}, native |-> Neutral]
Input(bit, facts, other, g) ==
    [Basic EXCEPT !.bit = bit, !.facts = facts, !.other = other, !.grants = g]

\* Every view table of three roles, with a managed one or an administrator.
ViewInputs ==
    {[Input("view", Table(v, All, All, All), Table(v, All, All, All), g \ m)
        EXCEPT !.managed = m, !.admins = x] :
        v \in MCFacts(Roles), g \in SUBSET {2, 3}, m \in {{}, {2}}, x \in {{}}}
    \cup {[Input("view", Table(v, All, All, All), Table(v, All, All, All), {})
        EXCEPT !.managed = {3}, !.admins = x] : v \in MCFacts({1, 3}), x \in {{1}, {3}, {0}}}

\* Two roles for the pairs of tables.
SendInputs ==
    {Input("send", Table(v, s, All, All), Table(v, s, All, All), g) :
        v \in MCFacts({1, 2}), s \in MCFacts({2}), g \in {{}, {2}}}
    \cup {Input("send", Table(v, s, All, All), Table(v, s, All, All), {2}) :
        v \in MCFacts({2}), s \in MCFacts({1, 2})}
AttachInputs ==
    {Input("attach", Table(v, s, a, All), Table(v, s, a, All), {1}) :
        v \in Simple({1, 2}), s \in Simple({1, 2}), a \in MCFacts({2})}
ThreadInputs ==
    {[Input(b, Table(v, s, s, t), Table(v, s, s, t), {}) EXCEPT !.thread = TRUE, !.managed = m] :
        b \in {"send", "attach"}, v \in Simple({1}), s \in Simple({1, 2}), t \in Simple({1, 2}),
        m \in {{}, {2}}}
CommonInputs ==
    {Input(b, Table(v, s, All, All), Table(w, t, All, All), {}) :
        b \in {"view", "send"}, v \in Simple({1, 2}), w \in Simple({1}),
        s \in Simple({2}), t \in Simple({2})}
OddInputs ==
    {[Basic EXCEPT !.members = x, !.denies = d, !.native = n] :
        x \in BOOLEAN, d \in SUBSET {1}, n \in Cells}

MCInputs == {ViewInputs, SendInputs, AttachInputs, ThreadInputs, CommonInputs, OddInputs}
=============================================================================
