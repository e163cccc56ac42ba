---------------------------- MODULE StakingModal ----------------------------
(***************************************************************************)
(* The dashboard's StakingActionModal in front of the transaction service: *)
(* one user who opens it, asks for a preview, signs, goes back, retries,   *)
(* closes it or leaves the page, while requests and answers are under way. *)
(*                                                                         *)
(* The service is StakingTransactions with unrestricted clients            *)
(* (ModalClient = FALSE).  That the modal is the restricted client that    *)
(* ModalAllows describes is a result here, not a mode: see RestrictedSpec. *)
(*                                                                         *)
(* Two panels show the modal.  StakingPanel mounts it for each action and  *)
(* closes it by unmounting it; ValidatorExplorer keeps it mounted, so that *)
(* what was asked for before it was closed may be answered after.  Leave   *)
(* is the former and Close the latter: the model has both.                 *)
(***************************************************************************)
EXTENDS StakingTransactions, Naturals

CONSTANT
    Payload     \* Payload[t]: createDemoTxHash of the payload of t

ASSUME UnrestrictedAssumption == ModalClient = FALSE
ASSUME PayloadAssumption == Payload \in [TxIds -> Hashes]

VARIABLES
    modal,       \* the state of the component
    building,    \* buildMutation: the preview that was asked for
    submission,  \* submitMutation: the submission that was sent
    stray        \* submissions on their way whose modal is gone

client == <<modal, building, submission, stray>>

modalVars == <<vars, client>>

----------------------------------------------------------------------------
Step == {"form", "preview", "confirm", "track"}

\* The component as it is mounted, and as its effect resets it.  asked tells
\* when its transaction was asked for: since the modal was opened ("now") or
\* before ("earlier"), and if before, whether the modal was closed and stayed
\* mounted while the request was under way ("kept").
Closed == [open |-> FALSE, step |-> "form", tx |-> None, key |-> None,
           shown |-> "none", asked |-> "none"]

NoBuild == [phase |-> "none", tx |-> None, asked |-> "none"]

NoSubmission == [phase |-> "none", tx |-> None, key |-> None, req |-> None]

ModalInit ==
    /\ Init
    /\ modal = Closed
    /\ building = NoBuild
    /\ submission = NoSubmission
    /\ stray = {}

At(step) == modal.open /\ modal.step = step

Go(step) ==
    /\ modal' = [modal EXCEPT !.step = step]
    /\ UNCHANGED <<vars, building, submission, stray>>

Before(asked) == IF asked = "now" THEN "earlier" ELSE asked

\* The user asks for an action.  A modal that stayed mounted opens as it is.
Open ==
    /\ ~modal.open
    /\ modal' = [modal EXCEPT !.open = TRUE, !.asked = Before(@)]
    /\ building' = [building EXCEPT !.asked = Before(@)]
    /\ UNCHANGED <<vars, submission, stray>>

----------------------------------------------------------------------------
(***************************************************************************)
(* The preview.                                                            *)
(***************************************************************************)
\* "Preview transaction", disabled while a build is pending.
AskPreview ==
    /\ At("form")
    /\ building.phase = "none"
    /\ building' = [NoBuild EXCEPT !.phase = "sent", !.asked = "now"]
    /\ UNCHANGED <<vars, modal, submission, stray>>

\* Which id the transaction gets does not matter.
FreshIds == {t \in TxIds : row[t].status = "none"}

NextId == CHOOSE t \in FreshIds : TRUE

BuildServed ==
    /\ building.phase = "sent"
    /\ FreshIds # {}
    /\ Build(NextId)
    /\ building' = [building EXCEPT !.phase = "served", !.tx = NextId]
    /\ UNCHANGED <<modal, submission, stray>>

\* onSuccess, whatever the modal shows by now and even if it is closed.
BuildAnswered ==
    /\ building.phase = "served"
    /\ modal' = [modal EXCEPT !.tx = building.tx, !.step = "preview",
                              !.shown = "built", !.asked = building.asked]
    /\ building' = NoBuild
    /\ UNCHANGED <<vars, submission, stray>>

\* The request is lost or refused, or its answer is lost.
BuildFails ==
    /\ building.phase # "none"
    /\ building' = NoBuild
    /\ UNCHANGED <<vars, modal, submission, stray>>

Advance == At("preview") /\ Go("confirm")

Back ==
    \/ At("preview") /\ Go("form")
    \/ At("confirm") /\ Go("preview")

----------------------------------------------------------------------------
(***************************************************************************)
(* The submission.                                                         *)
(***************************************************************************)
\* What randomUUID may still return.
FreshKeys ==
    Keys \ ({arg[r].key : r \in Requests} \cup {m.key : m \in stray}
            \cup {submission.key})

RandomKey == CHOOSE k \in FreshKeys : TRUE

\* Mutated forms of KeyOf: every submission has a key of its own; the key is
\* read before the state that was set has taken effect.
KeyOfEach == RandomKey
KeyOfRender == modal.key

\* The key of the modal, once it has one.
KeyOf == IF modal.key # None THEN modal.key ELSE RandomKey

\* "Sign and submit", disabled while a submission is pending.
Sign ==
    /\ At("confirm")
    /\ submission.phase = "none"
    /\ modal.key = None => FreshKeys # {}
    /\ modal' = [modal EXCEPT !.key = KeyOf]
    /\ submission' = [NoSubmission EXCEPT !.phase = "sent", !.tx = modal.tx,
                                          !.key = KeyOf]
    /\ UNCHANGED <<vars, building, stray>>

\* Which request serves a message does not matter.
Idle == {r \in Requests : pc[r] = "idle"}

NextRequest == CHOOSE r \in Idle : TRUE

SubmitServed ==
    /\ submission.phase = "sent"
    /\ Idle # {}
    /\ SubmitLoad(NextRequest, submission.tx, submission.key,
                  Payload[submission.tx])
    /\ submission' = [submission EXCEPT !.phase = "served", !.req = NextRequest]
    /\ UNCHANGED <<modal, building, stray>>

StrayServed(m) ==
    /\ Idle # {}
    /\ SubmitLoad(NextRequest, m.tx, m.key, Payload[m.tx])
    /\ stray' = stray \ {m}
    /\ UNCHANGED <<modal, building, submission>>

\* onSuccess: the answer, which need not be the transaction that was named,
\* is shown and tracked.
SubmitAnswered ==
    LET r == submission.req
    IN  /\ submission.phase = "served"
        /\ pc[r] = "done"
        /\ answer[r] # None
        /\ modal' = [modal EXCEPT !.tx = answer[r], !.step = "track",
                                  !.shown = row[answer[r]].status]
        /\ submission' = NoSubmission
        /\ UNCHANGED <<vars, building, stray>>

\* The request is lost, refused, or dies, or its answer is lost.  That its
\* handler has ended by then is assumed: a connection that breaks under a
\* running handler makes the modal an unrestricted client.
SubmitFails ==
    /\ \/ submission.phase = "sent"
       \/ submission.phase = "served" /\ pc[submission.req] \in Over
    /\ submission' = NoSubmission
    /\ UNCHANGED <<vars, modal, building, stray>>

\* The status is fetched again as long as it is "submitted".
Poll ==
    /\ At("track")
    /\ modal.shown = "submitted"
    /\ modal' = [modal EXCEPT !.shown = row[modal.tx].status]
    /\ UNCHANGED <<vars, building, submission, stray>>

----------------------------------------------------------------------------
(***************************************************************************)
(* Closing.                                                                *)
(***************************************************************************)
\* Mutated form of Leave: the page remembers the transaction it showed.
LeaveRemembering ==
    /\ modal' = [modal EXCEPT !.open = FALSE, !.key = None]
    /\ building' = NoBuild
    /\ submission' = NoSubmission
    /\ UNCHANGED <<vars, stray>>

\* The component is unmounted, because its panel closes it or because the
\* page is reloaded or left.  Its mutations are gone with it; a request that
\* is on its way is not.
Leave ==
    /\ modal' = Closed
    /\ building' = NoBuild
    /\ submission' = NoSubmission
    /\ stray' = IF submission.phase = "sent"
                THEN stray \cup {[tx |-> submission.tx, key |-> submission.key]}
                ELSE stray
    /\ UNCHANGED vars

\* The effect of a modal that stays mounted resets its state when it is
\* closed ("Cancel" in the form, "Close" when tracking) and when another
\* validator is selected while it is closed; its mutations go on.
Reset ==
    /\ modal' = Closed
    /\ building' = IF building.phase = "none" THEN building
                   ELSE [building EXCEPT !.asked = "kept"]
    /\ UNCHANGED <<vars, submission, stray>>

Close == (At("form") \/ At("track")) /\ Reset

Select == ~modal.open /\ Reset

----------------------------------------------------------------------------
Server(r) == Continue(r) /\ UNCHANGED client

Others ==
    /\ \/ \E t \in TxIds : Expire(t)
       \/ \E t \in TxIds : Idle # {} /\ SimulateLoad(NextRequest, t)
       \/ \E r \in Requests : Crash(r)
    /\ UNCHANGED client

Network ==
    \/ BuildServed
    \/ BuildAnswered
    \/ BuildFails
    \/ SubmitServed
    \/ \E m \in stray : StrayServed(m)
    \/ SubmitAnswered
    \/ SubmitFails

User ==
    \/ Open
    \/ AskPreview
    \/ Advance
    \/ Back
    \/ Sign
    \/ Poll
    \/ Close
    \/ Select
    \/ Leave

ModalNext ==
    \/ User
    \/ Network
    \/ Others
    \/ \E r \in Requests : Server(r)

ModalSpec == ModalInit /\ [][ModalNext]_modalVars

\* As in the service: a handler that has begun is run to its end.
FairModalSpec ==
    ModalSpec /\ \A r \in Requests : WF_modalVars(Server(r))

----------------------------------------------------------------------------
(***************************************************************************)
(* Properties.                                                             *)
(***************************************************************************)
Asked == {"none", "now", "earlier", "kept"}

Nullable(S) == S \cup {None}

\* Every variable has its type, and what is sent names a transaction and a
\* key.
ModalTypeOK ==
    /\ modal \in [open : BOOLEAN, step : Step, tx : Nullable(TxIds),
                  key : Nullable(Keys),
                  shown : {"none", "built", "submitted"} \cup Terminal,
                  asked : Asked]
    /\ modal.open /\ modal.step # "form" => modal.tx # None
    /\ building \in [phase : {"none", "sent", "served"}, tx : Nullable(TxIds),
                     asked : Asked]
    /\ submission \in [phase : {"none", "sent", "served"}, tx : Nullable(TxIds),
                       key : Nullable(Keys), req : Nullable(Requests)]
    /\ submission.phase # "none" => submission.tx # None /\ submission.key # None
    /\ stray \subseteq [tx : TxIds, key : Keys]

\* However the user goes back, retries, closes and reopens, and whatever is
\* lost or answered late, the service sees the restricted client: submissions
\* of a transaction carry one key and one hash and come one at a time.
Restricted == INSTANCE StakingTransactions WITH ModalClient <- TRUE

RestrictedSpec == Restricted!Spec

\* What the modal tracks has been submitted, and the status it shows is that
\* of the row: since nobody but the submitting request settles it, polling
\* never finds anything new.
TracksSubmission ==
    At("track") =>
        /\ modal.shown \in {"submitted"} \cup Terminal
        /\ modal.shown = row[modal.tx].status

\* The user signs what was asked for since the modal was opened, unless the
\* modal stayed mounted when it was closed with the request under way.
SignsWhatWasAsked ==
    At("preview") \/ At("confirm") => modal.asked \in {"now", "kept"}

----------------------------------------------------------------------------
(***************************************************************************)
(* What makes them inductive: for each transaction, whoever may still send *)
(* a submission of it knows those that were sent.                          *)
(***************************************************************************)
\* The modal shows t as what it is about to submit, the preview of t is on
\* its way to the modal, a submission of t is under way, or one is stray.
Offered(t) == modal.step \in {"preview", "confirm"} /\ modal.tx = t
Coming(t) == building.phase = "served" /\ building.tx = t
Sending(t) == submission.phase # "none" /\ submission.tx = t
Stray(t) == \E m \in stray : m.tx = t

\* The submissions of t that the service has got are over, and had key k.
Ended(t, k) == \A q \in Submissions(t) : pc[q] \in Over /\ arg[q].key = k

\* What is served is typed, and a modal past its form has a transaction.
ClientTyped ==
    /\ ModalTypeOK
    /\ modal.step # "form" => modal.tx # None
    /\ building.phase = "served" => building.tx # None
    /\ submission.phase = "served" => submission.req \in Requests

\* Only transactions that were built are shown, sent and submitted, and the
\* hash of a submission is that of its payload.
Known ==
    /\ \A t \in TxIds :
          Offered(t) \/ Coming(t) \/ Sending(t) \/ Stray(t) \/ Submissions(t) # {} =>
              row[t].status # "none"
    /\ \A q \in Requests :
          arg[q].op = "submit" =>
              /\ arg[q].tx \in TxIds
              /\ arg[q].key # None
              /\ arg[q].tx_hash = Payload[arg[q].tx]

\* A preview that has not arrived is of a transaction nobody has submitted.
ComingIsNew ==
    \A t \in TxIds :
        Coming(t) => ~Offered(t) /\ ~Sending(t) /\ ~Stray(t) /\ Submissions(t) = {}

\* The transaction the modal offers was submitted by this modal, with its key
\* and to the end, but for the submission it waits for.
OfferIsOwn ==
    \A t \in TxIds :
        Offered(t) =>
            /\ ~Stray(t)
            /\ Sending(t) => submission.key = modal.key
            /\ \A q \in Submissions(t) :
                  /\ arg[q].key = modal.key
                  /\ pc[q] \in Over \/ (Sending(t) /\ submission.req = q)

\* A submission that is on its way is the only one, and repeats what ended.
SentAlone ==
    \A t \in TxIds :
        /\ submission.phase = "sent" /\ submission.tx = t =>
               ~Stray(t) /\ Ended(t, submission.key)
        /\ \A m \in stray :
               m.tx = t => /\ Ended(t, m.key)
                           /\ \A n \in stray : n.tx = t => n = m

\* Nothing is older than the modal that is open.
AskedNow ==
    /\ modal.asked # "earlier" /\ building.asked # "earlier"
    /\ ~modal.open => modal.asked # "now" /\ building.asked # "now"
    /\ modal.step \in {"preview", "confirm"} => modal.asked # "none"
    /\ building.phase = "none" <=> building.asked = "none"

ClientInv ==
    /\ OverlapInv
    /\ ClientTyped
    /\ Known
    /\ ComingIsNew
    /\ OfferIsOwn
    /\ SentAlone
    /\ AskedNow
=============================================================================
