---------------------------- MODULE PolicyUpdates ----------------------------
(***************************************************************************)
(* The endpoints that write the automation policy of a wallet              *)
(* (backend/app/api/v1/automation.py): GET and PUT policy, POST            *)
(* kill-switch.  Each loads the row into the ORM object of its session,    *)
(* creating it if there is none, assigns the columns it was asked to,      *)
(* commits, and answers with the row as it is then.                        *)
(*                                                                         *)
(* Requests overlap, and SQLAlchemy writes the columns that differ from    *)
(* what was loaded: a column that already had the value is not written,    *)
(* whatever another request has made of it since.  AutomationQueue, which  *)
(* only reads policies, lets SetPolicy store any; here is which.           *)
(*                                                                         *)
(* Wallets do not share rows, so the module is about the policy of one.    *)
(* GET is an update that asks for nothing.  So is a first enqueue, which   *)
(* creates the row, is refused by the default policy and rolled back.  The *)
(* audit event is committed with the row, and says what the object had.    *)
(***************************************************************************)
CONSTANTS
    Columns,     \* columns of automation_policies
    Values,      \* what a column may have
    DefaultRow,  \* the columns of get_or_create_policy
    Updates      \* requests; each is made once

ASSUME RowAssumption == DefaultRow \in [Columns -> Values]

VARIABLES
    exists,  \* the row is committed
    stored,  \* the committed row, the default as long as there is none
    update   \* update[q]: how far request q has come

policyVars == <<exists, stored, update>>

----------------------------------------------------------------------------
PolicyRows == [Columns -> Values]

\* What the body of a request may ask for: values of some columns.
Bodies == UNION {[asked -> Values] : asked \in SUBSET Columns}

\* copy is what q has loaded, wrote the columns of its UPDATE, locks tells
\* that q has written the row and not committed.  overtaken is a history
\* variable, see Acknowledged and StaysSet.
NoUpdate == [phase |-> "new", asked |-> <<>>, copy |-> DefaultRow, wrote |-> {},
             locks |-> FALSE, overtaken |-> {}]

PolicyInit ==
    /\ exists \in BOOLEAN
    /\ stored \in PolicyRows
    /\ ~exists => stored = DefaultRow
    /\ update = [q \in Updates |-> NoUpdate]

\* A write waits for whoever has written the row and not committed.
Free(q) == \A p \in Updates \ {q} : ~update[p].locks

\* session.get, which finds the row or has the default added.
LoadPolicy(q, body) ==
    /\ update[q].phase = "new"
    /\ update' = [update EXCEPT
                    ![q].phase = IF exists THEN "loaded" ELSE "creating",
                    ![q].asked = body,
                    ![q].copy = stored]
    /\ UNCHANGED <<exists, stored>>

\* The INSERT.  It fails if another request has committed one.
CreatePolicy(q) ==
    /\ update[q].phase = "creating"
    /\ Free(q)
    /\ update' = [update EXCEPT ![q].phase = IF exists THEN "failed" ELSE "loaded",
                                ![q].locks = ~exists]
    /\ UNCHANGED <<exists, stored>>

\* Mutated form of Assigned: the default is taken for nothing asked.
AssignedSet(q) ==
    [c \in Columns |-> IF /\ c \in DOMAIN update[q].asked
                          /\ update[q].asked[c] # DefaultRow[c]
                       THEN update[q].asked[c] ELSE update[q].copy[c]]

\* The object of q once it is assigned what was asked for.
Assigned(q) ==
    [c \in Columns |-> IF c \in DOMAIN update[q].asked
                       THEN update[q].asked[c] ELSE update[q].copy[c]]

\* Mutated form of Changed: the whole row is written.
ChangedAll(q) == Columns

Changed(q) == {c \in Columns : Assigned(q)[c] # update[q].copy[c]}

\* The flush with the audit event: an UPDATE, if a column has changed.
WriteColumns(q) ==
    /\ update[q].phase = "loaded"
    /\ Changed(q) # {} => Free(q)
    /\ update' = [update EXCEPT ![q].phase = "written", ![q].wrote = Changed(q),
                                ![q].locks = @ \/ Changed(q) # {}]
    /\ UNCHANGED <<exists, stored>>

\* The columns that p was asked for and that another request may change: those
\* that had the value when p loaded them, and all of them once p has committed.
Exposed(p) ==
    IF update[p].phase \in {"committed", "answered"} THEN DOMAIN update[p].asked
    ELSE DOMAIN update[p].asked \ Changed(p)

\* What q commits instead of what p was asked for.
Overtakes(q, p) ==
    {c \in Exposed(p) \cap update[q].wrote \cap DOMAIN update[q].asked :
        update[q].asked[c] # update[p].asked[c]}

CommitPolicy(q) ==
    /\ update[q].phase = "written"
    /\ exists' = TRUE
    /\ stored' = [c \in Columns |-> IF c \in update[q].wrote
                                    THEN Assigned(q)[c] ELSE stored[c]]
    /\ update' = [p \in Updates |->
                    IF p = q
                    THEN [update[q] EXCEPT !.phase = "committed", !.locks = FALSE]
                    ELSE [update[p] EXCEPT !.overtaken = @ \cup Overtakes(q, p)]]

\* session.refresh, and the answer.
RefreshPolicy(q) ==
    /\ update[q].phase = "committed"
    /\ update' = [update EXCEPT ![q].phase = "answered", ![q].copy = stored]
    /\ UNCHANGED <<exists, stored>>

\* The request fails or its process dies.
FailUpdate(q) ==
    /\ update[q].phase \in {"creating", "loaded", "written", "committed"}
    /\ update' = [update EXCEPT ![q].phase = "failed", ![q].locks = FALSE]
    /\ UNCHANGED <<exists, stored>>

PolicyNext ==
    \E q \in Updates :
        \/ \E body \in Bodies : LoadPolicy(q, body)
        \/ CreatePolicy(q)
        \/ WriteColumns(q)
        \/ CommitPolicy(q)
        \/ RefreshPolicy(q)
        \/ FailUpdate(q)

PolicySpec == PolicyInit /\ [][PolicyNext]_policyVars

----------------------------------------------------------------------------
(***************************************************************************)
(* Properties.                                                             *)
(***************************************************************************)
\* However requests overlap, the row changes only as the request that commits
\* was asked to: setting a limit or opting in with an old copy of the row does
\* not release a kill switch that was set meanwhile.
OnlyAsked ==
    [][\A c \in Columns :
          stored'[c] # stored[c] =>
              \E q \in Updates :
                  /\ update[q].phase = "written" /\ update'[q].phase = "committed"
                  /\ c \in DOMAIN update[q].asked
                  /\ update[q].asked[c] = stored'[c]]_policyVars

\* A request that is answered has got what it asked for, unless another one
\* committed a different value after it had, or after it had found the value
\* in place and so did not write it.
Acknowledged ==
    \A q \in Updates :
        update[q].phase = "answered" =>
            \A c \in DOMAIN update[q].asked :
                \/ update[q].copy[c] = update[q].asked[c]
                \/ c \in update[q].overtaken

\* What a request has committed stays stored, also after it was answered, until
\* another request commits a different value that it was asked for itself: a
\* kill switch stays set whatever other requests do to other columns, with
\* copies of the row from before it was set, and also if it was found set.
StaysSet ==
    \A q \in Updates :
        update[q].phase \in {"committed", "answered"} =>
            \A c \in DOMAIN update[q].asked :
                \/ stored[c] = update[q].asked[c]
                \/ c \in update[q].overtaken
=============================================================================
