------------------------ MODULE StakingClientProofs ------------------------
(***************************************************************************)
(* The modal is the restricted client: whatever its user does and whatever *)
(* is lost, its submissions are those that ModalAllows allows.  So what    *)
(* StakingModalProofs proves of the service behind a restricted client     *)
(* holds of the service behind the modal.                                  *)
(*                                                                         *)
(* The inductive invariant, ClientInv, says for each transaction who may   *)
(* still send a submission of it (the modal that offers it, a preview that *)
(* is coming, a message on its way) and that whoever may knows what the    *)
(* service has got.  OneSender says the same of each key, and Tracking     *)
(* that what the modal tracks stays as it is.                              *)
(***************************************************************************)
EXTENDS StakingModal, StakingModalProofs

\* What is chosen is one of those to choose from.
LEMMA Chosen ==
    /\ Idle # {} => NextRequest \in Requests /\ pc[NextRequest] = "idle"
    /\ FreshIds # {} => NextId \in TxIds /\ row[NextId].status = "none"
    /\ FreshKeys # {} => RandomKey \in Keys
<1>1. \A S : S # {} => (CHOOSE x \in S : TRUE) \in S
  OBVIOUS
<1>2. Idle # {} => NextRequest \in Idle
  BY <1>1 DEF NextRequest
<1>3. FreshIds # {} => NextId \in FreshIds
  BY <1>1 DEF NextId
<1>4. FreshKeys # {} => RandomKey \in FreshKeys
  BY <1>1 DEF RandomKey
<1> QED BY <1>2, <1>3, <1>4 DEF Idle, FreshIds, FreshKeys


\* What is sent is a submission of a transaction, with a key and its hash.
LEMMA Sent ==
    ASSUME ClientTyped
    PROVE  /\ submission.phase # "none" =>
                  /\ submission.tx \in TxIds /\ submission.key \in Keys
                  /\ Payload[submission.tx] \in Hashes
           /\ \A m \in stray : m.tx \in TxIds /\ m.key \in Keys
                               /\ Payload[m.tx] \in Hashes
           /\ modal.step # "form" => modal.tx \in TxIds
           /\ building.phase = "served" => building.tx \in TxIds
           /\ submission.phase = "served" => submission.req \in Requests
           /\ modal.key \in Keys \cup {None}
BY PayloadAssumption DEF ClientTyped, ModalTypeOK, Nullable

\* A step of the modal is a step of the service, or none of it.
LEMMA ServiceStep ==
    ASSUME ClientTyped, [ModalNext]_modalVars
    PROVE  [Next]_vars
<1>1. CASE UNCHANGED modalVars
  BY <1>1 DEF modalVars
<1>2. CASE User
  BY <1>2 DEF User, Open, AskPreview, Advance, Back, Go, Sign, Poll, Close,
              Select, Reset, Leave
<1>3. CASE BuildServed
  BY <1>3, Chosen DEF BuildServed, Next
<1>4. CASE BuildAnswered \/ BuildFails \/ SubmitAnswered \/ SubmitFails
  BY <1>4 DEF BuildAnswered, BuildFails, SubmitAnswered, SubmitFails
<1>5. CASE SubmitServed
  BY <1>5, Chosen, Sent DEF SubmitServed, Next
<1>6. ASSUME NEW m \in stray, StrayServed(m) PROVE Next
  BY <1>6, Chosen, Sent DEF StrayServed, Next
<1>7. CASE Others
  BY <1>7, Chosen DEF Others, Next
<1>8. ASSUME NEW r \in Requests, Server(r) PROVE Next
  BY <1>8 DEF Server, Next
<1> QED
  BY <1>1, <1>2, <1>3, <1>4, <1>5, <1>6, <1>7, <1>8 DEF ModalNext, Network

----------------------------------------------------------------------------
(***************************************************************************)
(* What the service does to the submissions it has got.                    *)
(***************************************************************************)
\* A submission is loaded by request r.
SubmitLoads(r) == \E t \in TxIds, k \in Keys, h \in Hashes : SubmitLoad(r, t, k, h)

\* A step that loads no submission adds none, keeps the arguments of those
\* there are, and leaves what is over over and what is built built.
LEMMA Quiet ==
    ASSUME OverlapInv, [Next]_vars, ~ \E r \in Requests : SubmitLoads(r)
    PROVE  /\ \A q \in Requests : arg'[q].op = "submit" =>
                  /\ arg'[q] = arg[q]
                  /\ pc[q] \in Over => pc'[q] \in Over
           /\ \A t \in TxIds : row[t].status # "none" => row'[t].status # "none"
<1>1. TypeOK /\ Copies /\ Unbuilt
  BY DEF OverlapInv
<1>2. \A t \in TxIds : row[t].status # "none" => row'[t].status # "none"
  BY <1>1, Grows
<1>3. ASSUME NEW q \in Requests, pc[q] # "idle"
      PROVE  arg'[q] = arg[q] /\ (pc[q] \in Over => pc'[q] \in Over)
  BY <1>1, <1>3, OverStays
<1>4. ASSUME NEW q \in Requests, pc[q] = "idle", arg'[q].op = "submit"
      PROVE  arg'[q] = arg[q] /\ pc[q] \notin Over
  <2>1. pc[q] \notin Over
    BY <1>4 DEF Over
  <2>2. ASSUME NEW r \in Requests, NEW t \in TxIds, SimulateLoad(r, t)
        PROVE  arg'[q] = arg[q]
    <3>1. arg' = [arg EXCEPT ![r] = [NoArg EXCEPT !.op = "simulate", !.tx = t]]
      BY <2>2 DEF SimulateLoad
    <3>2. CASE q = r
      <4>1. arg'[q] = [NoArg EXCEPT !.op = "simulate", !.tx = t]
        BY <1>1, <3>1, <3>2 DEF TypeOK
      <4> QED BY <1>4, <4>1 DEF NoArg
    <3>3. CASE q # r
      BY <1>1, <3>1, <3>3 DEF TypeOK
    <3> QED BY <3>2, <3>3
  <2> QED BY <2>1, <2>2, ArgsKept DEF SubmitLoads
<1> QED BY <1>2, <1>3, <1>4

\* A step that loads a submission adds that one.
LEMMA Loaded ==
    ASSUME OverlapInv, NEW r \in Requests, NEW t \in TxIds, NEW k \in Keys,
           NEW h \in Hashes, SubmitLoad(r, t, k, h)
    PROVE  /\ row' = row
           /\ row[t].status # "none"
           /\ pc[r] = "idle"
           /\ arg'[r].op = "submit" /\ arg'[r].tx = t
           /\ arg'[r].key = k /\ arg'[r].tx_hash = h
           /\ \A q \in Requests \ {r} : arg'[q] = arg[q] /\ pc'[q] = pc[q]
<1>1. TypeOK
  BY DEF OverlapInv
<1>2. /\ row' = row
      /\ row[t].status # "none"
      /\ pc[r] = "idle"
      /\ arg' = [arg EXCEPT ![r] = [op |-> "submit", tx |-> t,
                                    key |-> k, tx_hash |-> h]]
  BY DEF SubmitLoad
<1>3. arg'[r] = [op |-> "submit", tx |-> t, key |-> k, tx_hash |-> h]
  BY <1>1, <1>2 DEF TypeOK
<1>4. \A q \in Requests \ {r} : arg'[q] = arg[q]
  BY <1>1, <1>2 DEF TypeOK
<1>5. \A q \in Requests \ {r} : pc'[q] = pc[q]
  BY <1>1 DEF SubmitLoad, Finish, TypeOK
<1> QED BY <1>2, <1>3, <1>4, <1>5

----------------------------------------------------------------------------
(***************************************************************************)
(* Types, and when the transaction that is shown was asked for.            *)
(***************************************************************************)
\* What ClientTyped and AskedNow say of the modal, of a preview, and of
\* submissions.
ModalTyped ==
    /\ modal \in [open : BOOLEAN, step : Step, tx : Nullable(TxIds),
                  key : Nullable(Keys),
                  shown : {"none", "built", "submitted"} \cup Terminal,
                  asked : Asked \ {"earlier"}]
    /\ modal.step # "form" => modal.tx # None
    /\ ~modal.open => modal.asked # "now"
    /\ modal.step \in {"preview", "confirm"} => modal.asked # "none"

BuildTyped ==
    /\ building \in [phase : {"none", "sent", "served"}, tx : Nullable(TxIds),
                     asked : Asked \ {"earlier"}]
    /\ building.phase = "served" => building.tx # None
    /\ ~modal.open => building.asked # "now"
    /\ building.phase = "none" <=> building.asked = "none"

SubmissionTyped ==
    /\ submission \in [phase : {"none", "sent", "served"}, tx : Nullable(TxIds),
                       key : Nullable(Keys), req : Nullable(Requests)]
    /\ submission.phase # "none" => submission.tx # None /\ submission.key # None
    /\ submission.phase = "served" => submission.req \in Requests
    /\ stray \subseteq [tx : TxIds, key : Keys]

LEMMA TypedParts ==
    ClientTyped /\ AskedNow <=> ModalTyped /\ BuildTyped /\ SubmissionTyped
<1>1. ASSUME ClientTyped, AskedNow
      PROVE  ModalTyped /\ BuildTyped /\ SubmissionTyped
  BY <1>1 DEF ClientTyped, AskedNow, ModalTypeOK, ModalTyped, BuildTyped,
              SubmissionTyped
<1>2. ASSUME ModalTyped, BuildTyped, SubmissionTyped
      PROVE  ClientTyped /\ AskedNow
  BY <1>2 DEF ClientTyped, AskedNow, ModalTypeOK, ModalTyped, BuildTyped,
              SubmissionTyped
<1> QED BY <1>1, <1>2

\* The initial states of the parts of the client.
LEMMA Resting ==
    /\ modal' = Closed => ModalTyped'
    /\ building' = NoBuild => BuildTyped'
    /\ submission' = NoSubmission /\ stray' = stray /\ SubmissionTyped
           => SubmissionTyped'
<1>1. ASSUME modal' = Closed PROVE ModalTyped'
  BY <1>1 DEF Closed, ModalTyped, Nullable, Step, Asked
<1>2. ASSUME building' = NoBuild PROVE BuildTyped'
  BY <1>2 DEF NoBuild, BuildTyped, Nullable, Asked
<1>3. ASSUME submission' = NoSubmission, stray' = stray, SubmissionTyped
      PROVE  SubmissionTyped'
  <2>1. submission' \in [phase : {"none", "sent", "served"},
                         tx : Nullable(TxIds), key : Nullable(Keys),
                         req : Nullable(Requests)]
    BY <1>3 DEF NoSubmission, Nullable
  <2>2. submission'.phase = "none"
    BY <1>3 DEF NoSubmission
  <2> QED BY <1>3, <2>1, <2>2 DEF SubmissionTyped
<1> QED BY <1>1, <1>2, <1>3

\* What the user does keeps the types.
LEMMA UserTyped ==
    ASSUME TypeOK, ModalTyped, BuildTyped, SubmissionTyped, User
    PROVE  ModalTyped' /\ BuildTyped' /\ SubmissionTyped'
<1> USE DEF Nullable, Step, Asked, Terminal
<1>1. CASE Open
  <2>1. Before(modal.asked) = modal.asked /\ Before(building.asked) = building.asked
    BY <1>1 DEF Open, Before, ModalTyped, BuildTyped
  <2> QED BY <1>1, <2>1, ZenonT(60) DEF Open, ModalTyped, BuildTyped, SubmissionTyped
<1>2. CASE AskPreview
  <2>1. building' = [phase |-> "sent", tx |-> None, asked |-> "now"]
    BY <1>2 DEF AskPreview, NoBuild
  <2> QED BY <1>2, <2>1
          DEF AskPreview, At, ModalTyped, BuildTyped, SubmissionTyped
<1>3. CASE Advance \/ Back
  BY <1>3 DEF Advance, Back, At, Go, ModalTyped, BuildTyped, SubmissionTyped
<1>4. CASE Sign
  <2>1. KeyOf \in Keys
    BY <1>4, Chosen DEF Sign, KeyOf, ModalTyped
  <2>2. modal.tx \in TxIds
    BY <1>4 DEF Sign, At, ModalTyped
  <2>3. submission' = [phase |-> "sent", tx |-> modal.tx, key |-> KeyOf,
                       req |-> None]
    BY <1>4 DEF Sign, NoSubmission
  <2>4. ModalTyped'
    BY <1>4, <2>1 DEF Sign, ModalTyped
  <2> HIDE DEF Nullable
  <2>5. KeyOf # None /\ modal.tx # None
    BY <2>1, <2>2, NoneAssumption
  <2>6. submission' \in [phase : {"none", "sent", "served"},
                         tx : Nullable(TxIds), key : Nullable(Keys),
                         req : Nullable(Requests)]
    BY <2>1, <2>2, <2>3 DEF Nullable
  <2>7. submission'.phase = "sent" /\ submission'.tx # None /\ submission'.key # None
    BY <2>3, <2>5
  <2>8. SubmissionTyped'
    BY <1>4, <2>6, <2>7 DEF Sign, SubmissionTyped
  <2> QED BY <1>4, <2>4, <2>8 DEF Sign, BuildTyped
<1>5. CASE Poll
  <2>1. row[modal.tx].status \in {"none", "built", "submitted"} \cup Terminal
    BY <1>5 DEF Poll, At, ModalTyped, TypeOK, Columns
  <2> QED BY <1>5, <2>1 DEF Poll, ModalTyped, BuildTyped, SubmissionTyped
<1>6. CASE Reset
  <2>1. ModalTyped' /\ ~modal'.open
    BY <1>6, Resting DEF Reset, Closed
  <2>2. ASSUME building.phase = "none" PROVE BuildTyped'
    <3>1. building' = building /\ building.asked # "now"
      BY <1>6, <2>2 DEF Reset, BuildTyped
    <3> QED BY <2>2, <3>1 DEF BuildTyped
  <2>3. ASSUME building.phase # "none" PROVE BuildTyped'
    <3>1. building' = [phase |-> building.phase, tx |-> building.tx,
                       asked |-> "kept"]
      BY <1>6, <2>3 DEF Reset, BuildTyped
    <3> QED BY <2>3, <3>1 DEF BuildTyped
  <2>4. BuildTyped'
    BY <2>2, <2>3
  <2> QED BY <1>6, <2>1, <2>4 DEF Reset, SubmissionTyped
<1>7. CASE Leave
  <2>1. ModalTyped' /\ BuildTyped'
    BY <1>7, Resting DEF Leave
  <2>2. stray' \subseteq [tx : TxIds, key : Keys]
    BY <1>7 DEF Leave, SubmissionTyped
  <2> QED BY <1>7, <2>1, <2>2 DEF Leave, NoSubmission, SubmissionTyped
<1> QED
  BY <1>1, <1>2, <1>3, <1>4, <1>5, <1>6, <1>7 DEF User, Close, Select

\* So does what the network does.
LEMMA NetworkTyped ==
    ASSUME TypeOK, ModalTyped, BuildTyped, SubmissionTyped, Network
    PROVE  ModalTyped' /\ BuildTyped' /\ SubmissionTyped'
<1> USE DEF Nullable, Step, Asked, Terminal
<1>1. CASE BuildServed
  <2>1. NextId \in TxIds /\ NextId # None
    BY <1>1, Chosen, NoneAssumption DEF BuildServed
  <2>2. building' = [phase |-> "served", tx |-> NextId, asked |-> building.asked]
        /\ building.phase = "sent"
    BY <1>1 DEF BuildServed, BuildTyped
  <2>3. BuildTyped' /\ ModalTyped'
    BY <1>1, <2>1, <2>2 DEF BuildServed, BuildTyped, ModalTyped
  <2> QED BY <1>1, <2>3 DEF BuildServed, SubmissionTyped
<1>2. CASE BuildAnswered
  <2>1. modal' = [open |-> modal.open, step |-> "preview", tx |-> building.tx,
                  key |-> modal.key, shown |-> "built", asked |-> building.asked]
    BY <1>2 DEF BuildAnswered, ModalTyped
  <2>2. ModalTyped'
    BY <1>2, <2>1 DEF BuildAnswered, ModalTyped, BuildTyped
  <2> QED BY <1>2, <2>2, Resting DEF BuildAnswered, SubmissionTyped
<1>3. CASE BuildFails
  BY <1>3, Resting DEF BuildFails, ModalTyped, SubmissionTyped
<1>4. CASE SubmitServed
  <2>1. NextRequest \in Requests
    BY <1>4, Chosen DEF SubmitServed
  <2>2. submission' = [phase |-> "served", tx |-> submission.tx,
                       key |-> submission.key, req |-> NextRequest]
        /\ submission.phase = "sent"
    BY <1>4 DEF SubmitServed, SubmissionTyped
  <2>3. SubmissionTyped'
    BY <1>4, <2>1, <2>2 DEF SubmitServed, SubmissionTyped
  <2> QED BY <1>4, <2>3 DEF SubmitServed, ModalTyped, BuildTyped
<1>5. ASSUME NEW m \in stray, StrayServed(m)
      PROVE  ModalTyped' /\ BuildTyped' /\ SubmissionTyped'
  BY <1>5 DEF StrayServed, ModalTyped, BuildTyped, SubmissionTyped
<1>6. CASE SubmitAnswered
  <2>1. PICK t \in TxIds : t = answer[submission.req]
    BY <1>6 DEF SubmitAnswered, SubmissionTyped, TypeOK
  <2>2. row[t].status \in {"none", "built", "submitted"} \cup Terminal /\ t # None
    BY NoneAssumption DEF TypeOK, Columns
  <2>3. modal' = [open |-> modal.open, step |-> "track", tx |-> t,
                  key |-> modal.key, shown |-> row[t].status,
                  asked |-> modal.asked]
    BY <1>6, <2>1 DEF SubmitAnswered, ModalTyped
  <2>4. ModalTyped'
    BY <2>2, <2>3 DEF ModalTyped
  <2> QED BY <1>6, <2>3, <2>4, Resting DEF SubmitAnswered, BuildTyped
<1>7. CASE SubmitFails
  BY <1>7, Resting DEF SubmitFails, ModalTyped, BuildTyped
<1> QED BY <1>1, <1>2, <1>3, <1>4, <1>5, <1>6, <1>7 DEF Network

\* Every step keeps the types and the times.
LEMMA TypedStep ==
    ASSUME TypeOK, ClientTyped, AskedNow, [ModalNext]_modalVars
    PROVE  ClientTyped' /\ AskedNow'
<1>1. ModalTyped /\ BuildTyped /\ SubmissionTyped
  BY TypedParts
<1>2. ASSUME UNCHANGED client PROVE ModalTyped' /\ BuildTyped' /\ SubmissionTyped'
  BY <1>1, <1>2 DEF client, ModalTyped, BuildTyped, SubmissionTyped
<1>3. SUFFICES ModalTyped' /\ BuildTyped' /\ SubmissionTyped'
  BY TypedParts, PTL
<1>4. CASE UNCHANGED modalVars \/ Others \/ \E r \in Requests : Server(r)
  BY <1>2, <1>4 DEF modalVars, Others, Server
<1>5. CASE User
  BY <1>1, <1>5, UserTyped
<1>6. CASE Network
  BY <1>1, <1>6, NetworkTyped
<1> QED BY <1>4, <1>5, <1>6 DEF ModalNext

----------------------------------------------------------------------------
(***************************************************************************)
(* Who may still send a submission, and what it knows.                     *)
(***************************************************************************)
OffersKnow == Known /\ ComingIsNew /\ OfferIsOwn /\ SentAlone

\* The service rests and the client offers nothing that it did not.
LEMMA Fewer ==
    ASSUME ClientInv, UNCHANGED vars, stray' = stray,
           modal'.step \in {"preview", "confirm"} =>
               /\ modal.step \in {"preview", "confirm"}
               /\ modal'.tx = modal.tx /\ modal'.key = modal.key,
           building'.phase = "served" =>
               building.phase = "served" /\ building'.tx = building.tx,
           \/ submission' = submission
           \/ /\ submission'.phase = "none"
              /\ submission.phase = "served" => pc[submission.req] \in Over
    PROVE  OffersKnow'
<1>1. /\ row' = row /\ pc' = pc /\ arg' = arg
      /\ \A t \in TxIds :
           /\ Submissions(t)' = Submissions(t)
           /\ Stray(t)' = Stray(t)
           /\ Offered(t)' => Offered(t) /\ modal'.key = modal.key
           /\ Coming(t)' => Coming(t)
           /\ Sending(t)' => Sending(t) /\ submission' = submission
  BY DEF vars, Submissions, Stray, Offered, Coming, Sending
<1>2. Known' /\ ComingIsNew'
  BY <1>1 DEF ClientInv, Known, ComingIsNew
<1>3. OfferIsOwn'
  <2> SUFFICES ASSUME NEW t \in TxIds, Offered(t)'
               PROVE  /\ ~Stray(t)'
                      /\ Sending(t)' => submission'.key = modal'.key
                      /\ \A q \in Submissions(t)' :
                            /\ arg'[q].key = modal'.key
                            /\ pc'[q] \in Over \/ (Sending(t)' /\ submission'.req = q)
    BY DEF OfferIsOwn
  <2>1. /\ ~Stray(t)
        /\ Sending(t) => submission.key = modal.key
        /\ \A q \in Submissions(t) :
              /\ arg[q].key = modal.key
              /\ pc[q] \in Over \/ (Sending(t) /\ submission.req = q)
    BY <1>1 DEF ClientInv, OfferIsOwn
  <2>2. ASSUME submission' # submission, NEW q \in Submissions(t)
        PROVE  pc[q] \in Over
    <3>1. CASE submission.phase = "sent" /\ submission.tx = t
      BY <3>1 DEF ClientInv, SentAlone, Ended
    <3>2. CASE ~(submission.phase = "sent" /\ submission.tx = t)
      BY <2>1, <2>2, <3>2 DEF ClientInv, ClientTyped, ModalTypeOK, Sending
    <3> QED BY <3>1, <3>2
  <2>3. submission' = submission => Sending(t)' = Sending(t)
    BY DEF Sending
  <2> QED BY <1>1, <2>1, <2>2, <2>3
<1>4. SentAlone'
  <2>1. \A t \in TxIds : \A k : Ended(t, k) => Ended(t, k)'
    BY <1>1 DEF Ended
  <2> QED BY <1>1, <2>1 DEF ClientInv, SentAlone
<1> QED BY <1>2, <1>3, <1>4 DEF OffersKnow

\* What the user does, but for signing and leaving, offers nothing new; nor
\* does what fails, nor the answer of a submission.
LEMMA Harmless ==
    ASSUME ClientInv,
           \/ Open \/ AskPreview \/ Advance \/ Back \/ Poll \/ Reset
           \/ BuildFails \/ SubmitFails \/ SubmitAnswered
    PROVE  OffersKnow'
<1>1. ModalTyped /\ BuildTyped /\ SubmissionTyped
  BY TypedParts DEF ClientInv
<1>2. CASE Open
  BY <1>1, <1>2, Fewer DEF Open, ModalTyped, BuildTyped
<1>3. CASE AskPreview
  BY <1>3, Fewer DEF AskPreview, NoBuild
<1>4. CASE Advance \/ Back
  BY <1>1, <1>4, Fewer DEF Advance, Back, At, Go, ModalTyped
<1>5. CASE Poll
  BY <1>1, <1>5, Fewer DEF Poll, At, ModalTyped
<1>6. CASE Reset
  BY <1>1, <1>6, Fewer DEF Reset, Closed, BuildTyped
<1>7. CASE BuildFails
  BY <1>7, Fewer DEF BuildFails, NoBuild
<1>8. CASE SubmitFails
  BY <1>8, Fewer DEF SubmitFails, NoSubmission
<1>9. CASE SubmitAnswered
  <2>1. modal'.step = "track"
    BY <1>1, <1>9 DEF SubmitAnswered, ModalTyped
  <2>2. submission'.phase = "none" /\ pc[submission.req] \in Over
    BY <1>9 DEF SubmitAnswered, NoSubmission, Over
  <2> QED BY <1>9, <2>1, <2>2, Fewer DEF SubmitAnswered
<1> QED BY <1>2, <1>3, <1>4, <1>5, <1>6, <1>7, <1>8, <1>9

\* Nor does the service when it goes on with what it has got.
LEMMA Unasked ==
    ASSUME ClientInv, [Next]_vars, UNCHANGED client,
           ~ \E r \in Requests : SubmitLoads(r)
    PROVE  OffersKnow'
<1>1. /\ \A q \in Requests : arg'[q].op = "submit" =>
             arg'[q] = arg[q] /\ (pc[q] \in Over => pc'[q] \in Over)
      /\ \A t \in TxIds : row[t].status # "none" => row'[t].status # "none"
  BY Quiet DEF ClientInv
<1>2. /\ modal' = modal /\ submission' = submission /\ stray' = stray
      /\ \A t \in TxIds :
           /\ Stray(t)' = Stray(t)
           /\ Offered(t)' = Offered(t)
           /\ Coming(t)' = Coming(t)
           /\ Sending(t)' = Sending(t)
           /\ \A q \in Submissions(t)' :
                 /\ q \in Submissions(t) /\ arg'[q] = arg[q]
                 /\ pc[q] \in Over => pc'[q] \in Over
  BY <1>1 DEF client, Submissions, Stray, Offered, Coming, Sending
<1>3. Known'
  <2>1. \A t \in TxIds : Submissions(t)' # {} => Submissions(t) # {}
    BY <1>2
  <2> QED BY <1>1, <1>2, <2>1 DEF ClientInv, Known
<1>4. ComingIsNew'
  BY <1>2 DEF ClientInv, ComingIsNew
<1>5. OfferIsOwn'
  BY <1>2 DEF ClientInv, OfferIsOwn
<1>6. SentAlone'
  <2>1. \A t \in TxIds : \A k : Ended(t, k) => Ended(t, k)'
    BY <1>2 DEF Ended
  <2> QED BY <1>2, <2>1 DEF ClientInv, SentAlone
<1> QED BY <1>3, <1>4, <1>5, <1>6 DEF OffersKnow

\* A preview is of a transaction that nobody knows.
LEMMA PreviewBuilt ==
    ASSUME ClientInv, BuildServed
    PROVE  OffersKnow'
<1>1. PICK new \in TxIds : new = NextId /\ row[new].status = "none" /\ Build(new)
  BY Chosen DEF BuildServed
<1>2. /\ ~Offered(new) /\ ~Coming(new) /\ ~Sending(new) /\ ~Stray(new)
      /\ Submissions(new) = {}
  BY <1>1 DEF ClientInv, Known
<1>3. /\ pc' = pc /\ arg' = arg
      /\ \A t \in TxIds : row[t].status # "none" => row'[t].status # "none"
      /\ row'[new].status # "none"
  BY <1>1, BuildRow DEF Build, ClientInv, OverlapInv
<1>4. /\ building.phase = "sent" /\ building'.tx = new
      /\ UNCHANGED <<modal, submission, stray>>
  BY <1>1, TypedParts DEF BuildServed, ClientInv, BuildTyped
<1>5. \A t \in TxIds :
        /\ Submissions(t)' = Submissions(t)
        /\ Stray(t)' = Stray(t)
        /\ Offered(t)' = Offered(t)
        /\ Coming(t)' => t = new
        /\ Sending(t)' = Sending(t)
  BY <1>3, <1>4 DEF Submissions, Stray, Offered, Coming, Sending
<1>6. Known'
  BY <1>2, <1>3, <1>5 DEF ClientInv, Known
<1>7. ComingIsNew'
  BY <1>2, <1>5 DEF ComingIsNew
<1>8. OfferIsOwn'
  BY <1>3, <1>4, <1>5 DEF ClientInv, OfferIsOwn
<1>9. SentAlone'
  <2>1. \A t \in TxIds : \A k : Ended(t, k)' = Ended(t, k)
    BY <1>3, <1>5 DEF Ended
  <2> QED BY <1>4, <1>5, <2>1 DEF ClientInv, SentAlone
<1> QED BY <1>6, <1>7, <1>8, <1>9 DEF OffersKnow

\* When it arrives, the modal offers what nobody has submitted.
LEMMA PreviewShown ==
    ASSUME ClientInv, BuildAnswered
    PROVE  OffersKnow'
<1>1. ModalTyped
  BY TypedParts DEF ClientInv
<1>2. PICK new \in TxIds : new = building.tx
  BY Sent DEF ClientInv, BuildAnswered
<1>3. /\ Coming(new) /\ ~Offered(new) /\ ~Sending(new) /\ ~Stray(new)
      /\ Submissions(new) = {} /\ row[new].status # "none"
  BY <1>2 DEF BuildAnswered, Coming, ClientInv, ComingIsNew, Known
<1>4. /\ modal'.tx = new /\ building'.phase = "none"
      /\ UNCHANGED <<row, pc, arg, submission, stray>>
  BY <1>1, <1>2 DEF BuildAnswered, ModalTyped, NoBuild, vars
<1>5. \A t \in TxIds :
        /\ Submissions(t)' = Submissions(t)
        /\ Stray(t)' = Stray(t)
        /\ Offered(t)' => t = new
        /\ ~Coming(t)'
        /\ Sending(t)' = Sending(t)
  BY <1>4 DEF Submissions, Stray, Offered, Coming, Sending
<1>6. Known'
  BY <1>3, <1>4, <1>5 DEF ClientInv, Known
<1>7. ComingIsNew' /\ OfferIsOwn'
  BY <1>3, <1>5 DEF ComingIsNew, OfferIsOwn
<1>8. SentAlone'
  <2>1. \A t \in TxIds : \A k : Ended(t, k)' = Ended(t, k)
    BY <1>4, <1>5 DEF Ended
  <2> QED BY <1>4, <1>5, <2>1 DEF ClientInv, SentAlone
<1> QED BY <1>6, <1>7, <1>8 DEF OffersKnow

\* What is signed has been submitted to the end, with the key of the modal,
\* or not at all.
LEMMA Signed ==
    ASSUME ClientInv, Sign
    PROVE  OffersKnow'
<1>1. ModalTyped
  BY TypedParts DEF ClientInv
<1>2. PICK new \in TxIds : new = modal.tx /\ Offered(new)
  BY <1>1, Sent DEF ClientInv, Sign, At, Offered, ModalTyped
<1>3. /\ ~Stray(new) /\ row[new].status # "none" /\ ~Coming(new)
      /\ \A t \in TxIds : ~Sending(t)
  BY <1>2 DEF Sign, Sending, ClientInv, OfferIsOwn, Known, ComingIsNew
<1>4. \A q \in Submissions(new) : arg[q].key = KeyOf /\ pc[q] \in Over
  BY <1>2, <1>3 DEF ClientInv, OfferIsOwn, Known, KeyOf, Submissions
<1>5. /\ modal'.step = modal.step /\ modal'.tx = new /\ modal'.key = KeyOf
      /\ submission'.phase = "sent"
      /\ submission'.tx = new /\ submission'.key = KeyOf
      /\ UNCHANGED <<row, pc, arg, building, stray>>
  BY <1>1, <1>2 DEF Sign, ModalTyped, NoSubmission, vars
<1>6. \A t \in TxIds :
        /\ Submissions(t)' = Submissions(t)
        /\ Stray(t)' = Stray(t)
        /\ Offered(t)' => t = new
        /\ Coming(t)' = Coming(t)
        /\ Sending(t)' => t = new
  BY <1>5 DEF Submissions, Stray, Offered, Coming, Sending
<1>7. Known'
  BY <1>3, <1>5, <1>6 DEF ClientInv, Known
<1>8. ComingIsNew'
  BY <1>3, <1>6 DEF ClientInv, ComingIsNew
<1>9. OfferIsOwn'
  BY <1>3, <1>4, <1>5, <1>6 DEF OfferIsOwn
<1>10. SentAlone'
  <2>1. \A t \in TxIds : \A k : Ended(t, k)' = Ended(t, k)
    BY <1>5, <1>6 DEF Ended
  <2>2. Ended(new, KeyOf)
    BY <1>4 DEF Ended
  <2> QED BY <1>3, <1>5, <1>6, <2>1, <2>2 DEF ClientInv, SentAlone
<1> QED BY <1>7, <1>8, <1>9, <1>10 DEF OffersKnow

\* A message on its way outlives its modal.
LEMMA Left ==
    ASSUME ClientInv, Leave
    PROVE  OffersKnow'
<1>1. /\ modal'.step = "form"
      /\ building'.phase = "none" /\ submission'.phase = "none"
      /\ UNCHANGED <<row, pc, arg>>
  BY DEF Leave, Closed, NoBuild, NoSubmission, vars
<1>2. CASE submission.phase # "sent"
  <2>1. stray' = stray /\ UNCHANGED vars
    BY <1>2 DEF Leave
  <2>2. ASSUME submission.phase = "served" PROVE OffersKnow'
    <3>1. \A t \in TxIds :
            /\ Submissions(t)' = Submissions(t)
            /\ Stray(t)' = Stray(t)
            /\ ~Offered(t)' /\ ~Coming(t)' /\ ~Sending(t)'
            /\ \A k : Ended(t, k)' = Ended(t, k)
      BY <1>1, <2>1 DEF Submissions, Stray, Offered, Coming, Sending, Ended
    <3> QED
      BY <1>1, <2>1, <3>1 DEF ClientInv, OffersKnow, Known, ComingIsNew,
                              OfferIsOwn, SentAlone
  <2>3. submission.phase \in {"none", "served"}
    BY <1>2 DEF ClientInv, ClientTyped, ModalTypeOK
  <2> QED BY <1>1, <2>1, <2>2, <2>3, Fewer
<1>3. CASE submission.phase = "sent"
  <2>1. PICK sent \in TxIds : sent = submission.tx
    BY <1>3, Sent DEF ClientInv
  <2> DEFINE m == [tx |-> sent, key |-> submission.key]
  <2>2. stray' = stray \cup {m} /\ m.tx = sent /\ m.key = submission.key
    BY <1>3, <2>1 DEF Leave
  <2>3. Sending(sent) /\ ~Stray(sent) /\ Ended(sent, submission.key)
    BY <1>3, <2>1 DEF Sending, ClientInv, SentAlone
  <2> HIDE DEF m
  <2>4. \A t \in TxIds :
          /\ Submissions(t)' = Submissions(t)
          /\ Stray(t)' => Stray(t) \/ t = sent
          /\ ~Offered(t)' /\ ~Coming(t)' /\ ~Sending(t)'
          /\ \A k : Ended(t, k)' = Ended(t, k)
    BY <1>1, <2>2 DEF Submissions, Stray, Offered, Coming, Sending, Ended
  <2>5. Known' /\ ComingIsNew' /\ OfferIsOwn'
    BY <1>1, <2>3, <2>4 DEF ClientInv, Known, ComingIsNew, OfferIsOwn
  <2>6. SentAlone'
    <3> SUFFICES ASSUME NEW t \in TxIds, NEW a \in stray', a.tx = t
                 PROVE  /\ Ended(t, a.key)'
                        /\ \A b \in stray' : b.tx = t => b = a
      BY <1>1 DEF SentAlone
    <3>1. CASE a = m
      BY <2>2, <2>3, <2>4, <3>1 DEF Stray
    <3>2. CASE a # m
      BY <2>2, <2>3, <2>4, <3>2 DEF Stray, ClientInv, SentAlone
    <3> QED BY <3>1, <3>2
  <2> QED BY <2>5, <2>6 DEF OffersKnow
<1> QED BY <1>2, <1>3

\* What loading a submission of t as request r makes of the submissions.
LEMMA OneMore ==
    ASSUME ClientInv, NEW r \in Requests, NEW t \in TxIds, NEW k \in Keys,
           SubmitLoad(r, t, k, Payload[t])
    PROVE  /\ row' = row /\ row[t].status # "none"
           /\ arg'[r].key = k
           /\ Submissions(t)' \subseteq Submissions(t) \cup {r}
           /\ \A u \in TxIds \ {t} :
                 /\ Submissions(u)' \subseteq Submissions(u)
                 /\ \A key : Ended(u, key) => Ended(u, key)'
           /\ \A u \in TxIds : \A q \in Submissions(u)' \ {r} :
                 q \in Submissions(u) /\ arg'[q] = arg[q] /\ pc'[q] = pc[q]
           /\ \A q \in Requests :
                 arg'[q].op = "submit" =>
                     /\ arg'[q].tx \in TxIds
                     /\ arg'[q].key # None
                     /\ arg'[q].tx_hash = Payload[arg'[q].tx]
<1>1. Payload[t] \in Hashes
  BY PayloadAssumption
<1>2. /\ row' = row /\ row[t].status # "none"
      /\ arg'[r].op = "submit" /\ arg'[r].tx = t
      /\ arg'[r].key = k /\ arg'[r].tx_hash = Payload[t]
      /\ \A q \in Requests \ {r} : arg'[q] = arg[q] /\ pc'[q] = pc[q]
  BY <1>1, Loaded DEF ClientInv
<1>3. /\ \A u \in TxIds \ {t} : Submissions(u)' \subseteq Submissions(u) \ {r}
      /\ \A u \in TxIds : \A q \in Submissions(u)' \ {r} : q \in Submissions(u)
      /\ Submissions(t)' \subseteq Submissions(t) \cup {r}
  BY <1>2 DEF Submissions
<1>4. \A u \in TxIds \ {t} : \A key : Ended(u, key) => Ended(u, key)'
  BY <1>2, <1>3 DEF Ended, Submissions
<1>5. ASSUME NEW q \in Requests, arg'[q].op = "submit"
      PROVE  /\ arg'[q].tx \in TxIds
             /\ arg'[q].key # None
             /\ arg'[q].tx_hash = Payload[arg'[q].tx]
  <2>1. CASE q = r
    BY <1>2, <2>1, NoneAssumption
  <2>2. CASE q # r
    BY <1>2, <1>5, <2>2 DEF ClientInv, Known
  <2> QED BY <2>1, <2>2
<1>6. \A u \in TxIds : \A q \in Submissions(u)' \ {r} : q \in Requests
  BY DEF Submissions
<1> QED BY <1>2, <1>3, <1>4, <1>5, <1>6

\* The submission the modal waits for is served.
LEMMA OwnServed ==
    ASSUME ClientInv, SubmitServed
    PROVE  OffersKnow'
<1>1. /\ ClientTyped /\ SubmissionTyped
      /\ Known /\ ComingIsNew /\ OfferIsOwn /\ SentAlone
  BY TypedParts DEF ClientInv
<1>2. PICK t \in TxIds, r \in Requests : t = submission.tx /\ r = NextRequest
  BY <1>1, Chosen, Sent DEF SubmitServed
<1>3. submission.key \in Keys /\ submission.phase = "sent"
  BY <1>1, Sent DEF SubmitServed
<1>4. SubmitLoad(r, t, submission.key, Payload[t])
  BY <1>2 DEF SubmitServed
<1>5. /\ submission'.phase = "served" /\ submission'.tx = t
      /\ submission'.key = submission.key /\ submission'.req = r
      /\ UNCHANGED <<modal, building, stray>>
  BY <1>1, <1>2 DEF SubmitServed, SubmissionTyped
<1>6. Sending(t) /\ ~Stray(t) /\ Ended(t, submission.key) /\ ~Coming(t)
  BY <1>1, <1>2, <1>3 DEF Sending, SentAlone, ComingIsNew
<1>7. \A u \in TxIds :
        /\ Stray(u)' = Stray(u)
        /\ Offered(u)' = Offered(u)
        /\ Coming(u)' = Coming(u)
        /\ Sending(u)' <=> u = t
        /\ Sending(u) <=> u = t
  BY <1>2, <1>3, <1>5 DEF Stray, Offered, Coming, Sending
<1>8. Known'
  <2>1. \A u \in TxIds : Submissions(u)' # {} => Submissions(u) # {} \/ u = t
    BY <1>3, <1>4, OneMore
  <2>2. row' = row /\ row[t].status # "none"
    BY <1>3, <1>4, OneMore
  <2>3. \A q \in Requests :
          arg'[q].op = "submit" =>
              /\ arg'[q].tx \in TxIds
              /\ arg'[q].key # None
              /\ arg'[q].tx_hash = Payload[arg'[q].tx]
    BY <1>3, <1>4, OneMore
  <2> QED BY <1>1, <1>7, <2>1, <2>2, <2>3 DEF Known
<1>9. ComingIsNew'
  BY <1>1, <1>3, <1>4, <1>6, <1>7, OneMore DEF ComingIsNew
<1>10. OfferIsOwn'
  <2> SUFFICES ASSUME NEW u \in TxIds, Offered(u)'
               PROVE  /\ ~Stray(u)'
                      /\ Sending(u)' => submission'.key = modal'.key
                      /\ \A q \in Submissions(u)' :
                            /\ arg'[q].key = modal'.key
                            /\ \/ pc'[q] \in Over
                               \/ Sending(u)' /\ submission'.req = q
    BY DEF OfferIsOwn
  <2>1. /\ ~Stray(u)
        /\ Sending(u) => submission.key = modal.key
        /\ \A q \in Submissions(u) :
              /\ arg[q].key = modal.key
              /\ pc[q] \in Over \/ (Sending(u) /\ submission.req = q)
    BY <1>1, <1>7 DEF OfferIsOwn
  <2>2. CASE u = t
    <3>1. \A q \in Submissions(t)' \ {r} :
            q \in Submissions(t) /\ arg'[q] = arg[q] /\ pc'[q] = pc[q]
      BY <1>3, <1>4, OneMore
    <3>2. arg'[r].key = submission.key
      BY <1>3, <1>4, OneMore
    <3> QED BY <1>5, <1>6, <1>7, <2>1, <2>2, <3>1, <3>2 DEF Ended
  <2>3. CASE u # t
    <3>1. \A q \in Submissions(u)' : q \in Submissions(u)
      BY <1>3, <1>4, <2>3, OneMore
    <3>2. r \notin Submissions(u)'
      BY <1>1, <1>3, <1>4, <2>3, Loaded, PayloadAssumption
         DEF Submissions, ClientInv
    <3>3. \A q \in Submissions(u)' : arg'[q] = arg[q] /\ pc'[q] = pc[q]
      BY <1>3, <1>4, <3>2, OneMore
    <3> QED BY <1>5, <1>7, <2>1, <2>3, <3>1, <3>3
  <2> QED BY <2>2, <2>3
<1>11. SentAlone'
  BY <1>1, <1>3, <1>4, <1>5, <1>6, OneMore DEF SentAlone, Stray
<1> QED BY <1>8, <1>9, <1>10, <1>11 DEF OffersKnow

\* A submission whose modal is gone is served.
LEMMA StrayIsServed ==
    ASSUME ClientInv, NEW m \in stray, StrayServed(m)
    PROVE  OffersKnow'
<1>1. ClientTyped /\ Known /\ ComingIsNew /\ OfferIsOwn /\ SentAlone
  BY DEF ClientInv
<1>2. PICK t \in TxIds, r \in Requests : t = m.tx /\ r = NextRequest
  BY <1>1, Chosen, Sent DEF StrayServed
<1>3. m.key \in Keys
  BY <1>1, Sent
<1>4. SubmitLoad(r, t, m.key, Payload[t])
  BY <1>2 DEF StrayServed
<1>5. stray' = stray \ {m} /\ UNCHANGED <<modal, building, submission>>
  BY DEF StrayServed
<1>6. /\ ~Offered(t) /\ ~Coming(t)
      /\ ~(submission.phase = "sent" /\ submission.tx = t)
      /\ \A n \in stray' : n.tx # t
  BY <1>1, <1>2, <1>5 DEF Stray, OfferIsOwn, ComingIsNew, SentAlone
<1>7. \A u \in TxIds :
        /\ Stray(u)' => Stray(u)
        /\ Offered(u)' = Offered(u)
        /\ Coming(u)' = Coming(u)
        /\ Sending(u)' = Sending(u)
  BY <1>5 DEF Stray, Offered, Coming, Sending
<1>8. Known'
  <2>1. \A u \in TxIds : Submissions(u)' # {} => Submissions(u) # {} \/ u = t
    BY <1>3, <1>4, OneMore
  <2>2. row' = row /\ row[t].status # "none"
    BY <1>3, <1>4, OneMore
  <2>3. \A q \in Requests :
          arg'[q].op = "submit" =>
              /\ arg'[q].tx \in TxIds
              /\ arg'[q].key # None
              /\ arg'[q].tx_hash = Payload[arg'[q].tx]
    BY <1>3, <1>4, OneMore
  <2> QED BY <1>1, <1>7, <2>1, <2>2, <2>3 DEF Known
<1>9. ComingIsNew'
  BY <1>1, <1>3, <1>4, <1>6, <1>7, OneMore DEF ComingIsNew
<1>10. OfferIsOwn'
  <2> SUFFICES ASSUME NEW u \in TxIds, Offered(u)'
               PROVE  /\ ~Stray(u)'
                      /\ Sending(u)' => submission'.key = modal'.key
                      /\ \A q \in Submissions(u)' :
                            /\ arg'[q].key = modal'.key
                            /\ \/ pc'[q] \in Over
                               \/ Sending(u)' /\ submission'.req = q
    BY DEF OfferIsOwn
  <2>1. /\ ~Stray(u)
        /\ Sending(u) => submission.key = modal.key
        /\ \A q \in Submissions(u) :
              /\ arg[q].key = modal.key
              /\ pc[q] \in Over \/ (Sending(u) /\ submission.req = q)
    BY <1>1, <1>7 DEF OfferIsOwn
  <2>2. u # t
    BY <1>6, <1>7
  <2>3. \A q \in Submissions(u)' : q \in Submissions(u)
    BY <1>3, <1>4, <2>2, OneMore
  <2>4. r \notin Submissions(u)'
    BY <1>3, <1>4, <2>2, Loaded, PayloadAssumption DEF Submissions, ClientInv
  <2>5. \A q \in Submissions(u)' : arg'[q] = arg[q] /\ pc'[q] = pc[q]
    BY <1>3, <1>4, <2>4, OneMore
  <2> QED BY <1>5, <1>7, <2>1, <2>3, <2>5
<1>11. SentAlone'
  BY <1>1, <1>3, <1>4, <1>5, <1>6, <1>7, OneMore DEF SentAlone
<1> QED BY <1>8, <1>9, <1>10, <1>11 DEF OffersKnow

----------------------------------------------------------------------------
\* A step in which the client rests submits nothing new.
LEMMA RestSubmitsNone ==
    ASSUME TypeOK, Others \/ \E r \in Requests : Server(r)
    PROVE  ~ \E r \in Requests : SubmitLoads(r)
<1> SUFFICES ASSUME NEW r \in Requests, NEW t \in TxIds, NEW k \in Keys,
                    NEW h \in Hashes, SubmitLoad(r, t, k, h)
             PROVE  FALSE
  BY DEF SubmitLoads
<1>1. pc[r] = "idle" /\ pc'[r] # "idle"
  BY DEF SubmitLoad, Finish, TypeOK
<1>2. ASSUME NEW u \in TxIds, Expire(u) PROVE FALSE
  BY <1>1, <1>2 DEF Expire
<1>3. ASSUME NEW q \in Requests, Crash(q) \/ Continue(q) PROVE FALSE
  <2>1. pc[q] # "idle" /\ \A p \in Requests \ {q} : pc'[p] = pc[p]
    BY <1>3 DEF Crash, Continue, CheckKey, SaveSubmit, Refresh, Finalize,
                SimulateSave, Finish, TypeOK, Working
  <2> QED BY <1>1, <2>1
<1>4. ASSUME NEW q \in Requests, NEW u \in TxIds, SimulateLoad(q, u) PROVE FALSE
  <2>1. CASE q # r
    BY <1>1, <1>4, <2>1 DEF SimulateLoad, Finish, TypeOK
  <2>2. CASE q = r
    <3>1. arg'[r] = [op |-> "submit", tx |-> t, key |-> k, tx_hash |-> h]
      BY DEF SubmitLoad, TypeOK
    <3>2. arg'[r] = [NoArg EXCEPT !.op = "simulate", !.tx = u]
      BY <1>4, <2>2 DEF SimulateLoad, TypeOK
    <3>3. arg'[r].op = "simulate"
      BY <3>2 DEF NoArg
    <3> QED BY <3>1, <3>3
  <2> QED BY <2>1, <2>2
<1> QED BY <1>2, <1>3, <1>4, Chosen DEF Others, Server

LEMMA ClientInit == ModalInit => ClientInv
<1> SUFFICES ASSUME ModalInit PROVE ClientInv
  OBVIOUS
<1>1. OverlapInv
  BY OverlapInit DEF ModalInit
<1>2. /\ row = [t \in TxIds |-> NoRow] /\ arg = [r \in Requests |-> NoArg]
      /\ modal = Closed /\ building = NoBuild
      /\ submission = NoSubmission /\ stray = {}
  BY DEF ModalInit, Init
<1>3. ModalTyped
  BY <1>2 DEF Closed, ModalTyped, Nullable, Step, Asked
<1>4. BuildTyped
  BY <1>2 DEF NoBuild, BuildTyped, Nullable, Asked
<1>5. SubmissionTyped
  <2>1. submission \in [phase : {"none", "sent", "served"},
                        tx : Nullable(TxIds), key : Nullable(Keys),
                        req : Nullable(Requests)]
    BY <1>2 DEF NoSubmission, Nullable
  <2> QED BY <1>2, <2>1 DEF NoSubmission, SubmissionTyped
<1>6. ClientTyped /\ AskedNow
  BY <1>3, <1>4, <1>5, TypedParts
<1>7. \A r \in Requests : arg[r].op # "submit"
  BY <1>2 DEF NoArg
<1>8. \A t \in TxIds :
        ~Offered(t) /\ ~Coming(t) /\ ~Sending(t) /\ ~Stray(t)
        /\ Submissions(t) = {}
  BY <1>2, <1>7 DEF Offered, Coming, Sending, Stray, Submissions, Closed,
                    NoBuild, NoSubmission
<1>9. Known /\ ComingIsNew /\ OfferIsOwn
  BY <1>7, <1>8 DEF Known, ComingIsNew, OfferIsOwn
<1>10. SentAlone
  BY <1>2 DEF SentAlone, NoSubmission
<1> QED BY <1>1, <1>6, <1>9, <1>10 DEF ClientInv

LEMMA ClientStep ==
    ASSUME ClientInv, [ModalNext]_modalVars
    PROVE  ClientInv'
<1>1. [Next]_vars
  BY ServiceStep DEF ClientInv
<1>2. OverlapInv'
  BY <1>1, OverlapStep DEF ClientInv
<1>3. ClientTyped' /\ AskedNow'
  BY TypedStep DEF ClientInv, OverlapInv
<1>4. OffersKnow'
  <2>1. CASE UNCHANGED modalVars
    <3>1. UNCHANGED <<vars, modal, building, submission, stray>>
      BY <2>1 DEF modalVars, client
    <3> QED BY <3>1, Fewer
  <2>2. CASE User
    BY <2>2, Harmless, Signed, Left DEF User, Close, Select
  <2>3. CASE Network
    BY <2>3, PreviewBuilt, PreviewShown, OwnServed, StrayIsServed, Harmless
       DEF Network
  <2>4. CASE Others \/ \E r \in Requests : Server(r)
    <3>1. UNCHANGED client
      BY <2>4 DEF Others, Server
    <3>2. ~ \E r \in Requests : SubmitLoads(r)
      BY <2>4, RestSubmitsNone DEF ClientInv, OverlapInv
    <3> QED BY <1>1, <3>1, <3>2, Unasked
  <2> QED BY <2>1, <2>2, <2>3, <2>4 DEF ModalNext
<1> QED BY <1>2, <1>3, <1>4 DEF ClientInv, OffersKnow

\* ClientInv is an invariant of the modal in front of the service.
THEOREM ClientInvariant == ModalSpec => []ClientInv
BY ClientInit, ClientStep, PTL DEF ModalSpec

\* The type invariant of the modal: what is sent names a transaction and a
\* key, and a modal past its form shows a transaction.
THEOREM ModalTypes == ModalSpec => []ModalTypeOK
<1>1. ClientInv => ModalTypeOK
  BY DEF ClientInv, ClientTyped
<1> QED BY <1>1, ClientInvariant, PTL

\* What the user previews and signs was asked for since the modal was opened,
\* or was under way when a modal that stayed mounted was closed.
THEOREM SignsAsked == ModalSpec => []SignsWhatWasAsked
<1>1. ClientInv => SignsWhatWasAsked
  BY DEF ClientInv, ClientTyped, ModalTypeOK, AskedNow, Asked,
         SignsWhatWasAsked, At
<1> QED BY <1>1, ClientInvariant, PTL

----------------------------------------------------------------------------
(***************************************************************************)
(* The modal is the restricted client.                                     *)
(***************************************************************************)
\* What the modal submits, ModalAllows allows.
LEMMA Allowed ==
    ASSUME ClientInv
    PROVE  /\ submission.phase = "sent" =>
                  ModalAllows(submission.tx, submission.key, Payload[submission.tx])
           /\ \A m \in stray : ModalAllows(m.tx, m.key, Payload[m.tx])
<1>1. ASSUME NEW t \in TxIds, NEW k, Ended(t, k)
      PROVE  ModalAllows(t, k, Payload[t])
  BY <1>1 DEF ModalAllows, Ended, Submissions, ClientInv, Known
<1>2. submission.phase = "sent" =>
          submission.tx \in TxIds /\ Ended(submission.tx, submission.key)
  BY Sent DEF ClientInv, SentAlone
<1>3. \A m \in stray : m.tx \in TxIds /\ Ended(m.tx, m.key)
  BY Sent DEF ClientInv, SentAlone
<1> QED BY <1>1, <1>2, <1>3

\* The two clients differ in what they may submit, and in nothing else.
LEMMA SameButAllowed ==
    /\ Init => Restricted!Init
    /\ UNCHANGED vars => UNCHANGED Restricted!vars
    /\ \A t \in TxIds : Build(t) \/ Expire(t) => Restricted!Next
    /\ \A r \in Requests :
         /\ \A t \in TxIds, k \in Keys, h \in Hashes :
                SubmitLoad(r, t, k, h) /\ ModalAllows(t, k, h) => Restricted!Next
         /\ \A t \in TxIds : SimulateLoad(r, t) => Restricted!Next
         /\ Continue(r) \/ Crash(r) => Restricted!Next
<1>1. Init => Restricted!Init
  BY DEF Init, NoRow, NoArg, Restricted!Init, Restricted!NoRow, Restricted!NoArg
<1>2. UNCHANGED vars => UNCHANGED Restricted!vars
  BY DEF vars, Restricted!vars
<1>3. ASSUME NEW t \in TxIds, Build(t) \/ Expire(t) PROVE Restricted!Next
  BY <1>3 DEF Build, Expire, NoRow, Event, Restricted!Build, Restricted!Expire,
              Restricted!NoRow, Restricted!Event, Restricted!Next
<1>4. ASSUME NEW r \in Requests, NEW t \in TxIds, NEW k \in Keys,
             NEW h \in Hashes, SubmitLoad(r, t, k, h), ModalAllows(t, k, h)
      PROVE  Restricted!Next
  <2>1. Restricted!ModalAllows(t, k, h)
    BY <1>4 DEF ModalAllows, Restricted!ModalAllows, Over, Restricted!Over
  <2>2. Restricted!SubmitLoad(r, t, k, h)
    BY <1>4, <2>1
       DEF SubmitLoad, Finish, NoRow, Terminal, Restricted!SubmitLoad,
           Restricted!Finish, Restricted!NoRow, Restricted!Terminal
  <2> QED BY <2>2 DEF Restricted!Next
<1>5. ASSUME NEW r \in Requests, NEW t \in TxIds, SimulateLoad(r, t)
      PROVE  Restricted!Next
  <2>1. Restricted!SimulateLoad(r, t)
    BY <1>5 DEF SimulateLoad, Finish, NoRow, NoArg, Restricted!SimulateLoad,
                Restricted!Finish, Restricted!NoRow, Restricted!NoArg
  <2> QED BY <2>1 DEF Restricted!Next
<1>6. ASSUME NEW r \in Requests, Continue(r) \/ Crash(r) PROVE Restricted!Next
  <2>1. \A t : Restricted!Finish(r, t) = Finish(r, t)
    BY DEF Finish, NoRow, Restricted!Finish, Restricted!NoRow
  <2>2. \A t, k : Restricted!KeyHolders(t, k) = KeyHolders(t, k)
    BY DEF KeyHolders, Restricted!KeyHolders
  <2>3. \A a, b, c : Restricted!Flush(a, b, c) = Flush(a, b, c)
    BY DEF Flush, Net, Restricted!Flush, Restricted!Net
  <2>4. \A n, t, h, q : Restricted!Event(n, t, h, q) = Event(n, t, h, q)
    BY DEF Event, Restricted!Event
  <2>5. CASE CheckKey(r)
    <3>1. Restricted!CheckKey(r)
      BY <2>1, <2>2, <2>5 DEF CheckKey, Restricted!CheckKey
    <3> QED BY <3>1 DEF Restricted!Next, Restricted!Continue
  <2>6. CASE SaveSubmit(r)
    <3>1. Restricted!Submitted(r) = Submitted(r)
      BY DEF Submitted, Restricted!Submitted
    <3>2. Restricted!SaveSubmit(r)
      BY <2>1, <2>2, <2>3, <2>4, <2>6, <3>1 DEF SaveSubmit, Restricted!SaveSubmit
    <3> QED BY <3>2 DEF Restricted!Next, Restricted!Continue
  <2>7. CASE Refresh(r)
    <3>1. Restricted!Refresh(r)
      BY <2>1, <2>7 DEF Refresh, Restricted!Refresh
    <3> QED BY <3>1 DEF Restricted!Next, Restricted!Continue
  <2>8. CASE Finalize(r)
    <3>1. Restricted!Verdict(r) = Verdict(r)
      BY DEF Verdict, Watcher, Restricted!Verdict, Restricted!Watcher
    <3>2. Restricted!Finalize(r)
      BY <2>1, <2>3, <2>4, <2>8, <3>1 DEF Finalize, Restricted!Finalize
    <3> QED BY <3>2 DEF Restricted!Next, Restricted!Continue
  <2>9. CASE SimulateSave(r)
    <3>1. Restricted!SimulateSave(r)
      BY <2>1, <2>3, <2>9 DEF SimulateSave, Restricted!SimulateSave
    <3> QED BY <3>1 DEF Restricted!Next, Restricted!Continue
  <2>10. CASE Crash(r)
    <3>1. Restricted!Crash(r)
      BY <2>10 DEF Crash, Working, NoRow, Restricted!Crash, Restricted!Working,
                   Restricted!NoRow
    <3> QED BY <3>1 DEF Restricted!Next
  <2> QED BY <1>6, <2>5, <2>6, <2>7, <2>8, <2>9, <2>10 DEF Continue
<1> QED BY <1>1, <1>2, <1>3, <1>4, <1>5, <1>6

LEMMA RestrictedStep ==
    ASSUME ClientInv, [ModalNext]_modalVars
    PROVE  [Restricted!Next]_(Restricted!vars)
<1>1. CASE UNCHANGED vars
  BY <1>1, SameButAllowed
<1>2. CASE UNCHANGED modalVars
  BY <1>1, <1>2 DEF modalVars
<1>3. CASE User
  BY <1>1, <1>3 DEF User, Open, AskPreview, Advance, Back, Go, Sign, Poll,
                    Close, Select, Reset, Leave
<1>4. CASE BuildServed
  BY <1>4, Chosen, SameButAllowed DEF BuildServed
<1>5. CASE BuildAnswered \/ BuildFails \/ SubmitAnswered \/ SubmitFails
  BY <1>1, <1>5 DEF BuildAnswered, BuildFails, SubmitAnswered, SubmitFails
<1>6. CASE SubmitServed
  <2>1. /\ submission.phase = "sent" /\ NextRequest \in Requests
        /\ SubmitLoad(NextRequest, submission.tx, submission.key,
                      Payload[submission.tx])
    BY <1>6, Chosen DEF SubmitServed
  <2> QED BY <2>1, Sent, Allowed, SameButAllowed DEF ClientInv
<1>7. ASSUME NEW m \in stray, StrayServed(m) PROVE Restricted!Next
  <2>1. /\ NextRequest \in Requests
        /\ SubmitLoad(NextRequest, m.tx, m.key, Payload[m.tx])
    BY <1>7, Chosen DEF StrayServed
  <2> QED BY <2>1, Sent, Allowed, SameButAllowed DEF ClientInv
<1>8. CASE Others
  BY <1>8, Chosen, SameButAllowed DEF Others
<1>9. ASSUME NEW r \in Requests, Server(r) PROVE Restricted!Next
  BY <1>9, SameButAllowed DEF Server
<1> QED
  BY <1>2, <1>3, <1>4, <1>5, <1>6, <1>7, <1>8, <1>9 DEF ModalNext, Network

\* However the user goes back, retries, closes and reopens, and whatever is
\* lost or answered late, the service behind the modal is the service behind
\* the restricted client of ModalAllows.
THEOREM ClientRestricted == ModalSpec => RestrictedSpec
<1>1. ModalInit => Restricted!Init
  BY SameButAllowed DEF ModalInit
<1>2. ClientInv /\ [ModalNext]_modalVars => [Restricted!Next]_(Restricted!vars)
  BY RestrictedStep
<1> QED
  BY <1>1, <1>2, ClientInvariant, PTL DEF ModalSpec, RestrictedSpec, Restricted!Spec

----------------------------------------------------------------------------
(***************************************************************************)
(* What was proved of the service behind a restricted client is so proved  *)
(* of the service behind the modal.                                        *)
(***************************************************************************)
Behind == INSTANCE StakingModalProofs WITH ModalClient <- TRUE

\* The theorems of StakingModalProofs, with ModalClient = TRUE.
LEMMA BehindRestricted ==
    /\ Behind!Spec => []Behind!SubmitOnce
    /\ Behind!Spec => []Behind!AnswerCarriesKey
    /\ Behind!Spec => Behind!LifecycleSpec
<1>1. TRUE \in BOOLEAN
  OBVIOUS
<1>2. None \notin Keys \cup Hashes \cup TxIds \cup {Behind!Watcher}
  BY NoneAssumption DEF Watcher, Behind!Watcher
<1>3. Behind!Spec => []Behind!SubmitOnce
  BY <1>1, <1>2, OwnerAssumption, FailingAssumption, SimAssumption,
     Behind!SubmittedOnce, PTL
<1>4. Behind!Spec => []Behind!AnswerCarriesKey
  BY <1>1, <1>2, OwnerAssumption, FailingAssumption, SimAssumption,
     Behind!Answered, PTL
<1>5. Behind!Spec => Behind!LifecycleSpec
  BY <1>1, <1>2, OwnerAssumption, FailingAssumption, SimAssumption,
     Behind!Implements, PTL
<1> QED BY <1>3, <1>4, <1>5

\* They are of the same service: here its definitions are expanded.
LEMMA BehindTheModal == RestrictedSpec => Behind!Spec
<1>1. Restricted!Init => Behind!Init
  BY DEF Restricted!Init, Behind!Init, Restricted!NoRow, Behind!NoRow,
         Restricted!NoArg, Behind!NoArg
<1>2. Restricted!Next => Behind!Next
  BY DEF Restricted!Next, Behind!Next, Restricted!Build, Behind!Build,
         Restricted!NoRow, Behind!NoRow, Restricted!NoArg, Behind!NoArg,
         Restricted!Event, Behind!Event, Restricted!Expire, Behind!Expire,
         Restricted!SubmitLoad, Behind!SubmitLoad, Restricted!ModalAllows,
         Behind!ModalAllows, Restricted!Over, Behind!Over, Restricted!Finish,
         Behind!Finish, Restricted!Terminal, Behind!Terminal,
         Restricted!SimulateLoad, Behind!SimulateLoad, Restricted!Continue,
         Behind!Continue, Restricted!CheckKey, Behind!CheckKey,
         Restricted!KeyHolders, Behind!KeyHolders, Restricted!SaveSubmit,
         Behind!SaveSubmit, Restricted!Submitted, Behind!Submitted,
         Restricted!Flush, Behind!Flush, Restricted!Net, Behind!Net,
         Restricted!Refresh, Behind!Refresh, Restricted!Finalize,
         Behind!Finalize, Restricted!Verdict, Behind!Verdict,
         Restricted!Watcher, Behind!Watcher, Restricted!SimulateSave,
         Behind!SimulateSave, Restricted!Crash, Behind!Crash,
         Restricted!Working, Behind!Working
<1>3. Restricted!vars = Behind!vars
  BY DEF Restricted!vars, Behind!vars
<1> QED
  BY <1>1, <1>2, <1>3, PTL
     DEF RestrictedSpec, Restricted!Spec, Behind!Spec, Restricted!vars, Behind!vars

\* However the user of the modal retries, and whatever is lost, an
\* idempotency key of a wallet stands for one submission.
THEOREM ModalSubmitsOnce == ModalSpec => []SubmitOnce
<1>1. Behind!SubmitOnce => SubmitOnce
  BY DEF Behind!SubmitOnce, SubmitOnce
<1> QED
  BY <1>1, ClientRestricted, BehindTheModal, BehindRestricted, PTL

\* What the modal is answered, and tracks, carries the key it sent.
THEOREM ModalAnswered == ModalSpec => []AnswerCarriesKey
<1>1. Behind!AnswerCarriesKey => AnswerCarriesKey
  BY DEF Behind!AnswerCarriesKey, AnswerCarriesKey
<1> QED
  BY <1>1, ClientRestricted, BehindTheModal, BehindRestricted, PTL

\* Behind the modal every row goes through the life cycle of StakingLifecycle.
THEOREM ModalImplements == ModalSpec => LifecycleSpec
<1>1. Behind!Lifecycle!Init => Lifecycle!Init
  BY DEF Behind!Lifecycle!Init, Lifecycle!Init
<1>2. Behind!Lifecycle!Next => Lifecycle!Next
  BY DEF Behind!Lifecycle!Next, Behind!Lifecycle!Build, Behind!Lifecycle!Submit,
         Behind!Lifecycle!Confirm, Behind!Lifecycle!Fail,
         Lifecycle!Next, Lifecycle!Build, Lifecycle!Submit,
         Lifecycle!Confirm, Lifecycle!Fail
<1>3. Behind!Lifecycle!vars = Lifecycle!vars
  BY DEF Behind!Lifecycle!vars, Lifecycle!vars
<1>4. Behind!LifecycleSpec => LifecycleSpec
  BY <1>1, <1>2, <1>3, PTL
     DEF LifecycleSpec, Lifecycle!Spec, Behind!LifecycleSpec,
         Behind!Lifecycle!Spec, Behind!Lifecycle!vars, Lifecycle!vars
<1> QED
  BY <1>4, ClientRestricted, BehindTheModal, BehindRestricted, PTL

----------------------------------------------------------------------------
(***************************************************************************)
(* What the modal tracks is not about to change: whoever uses its key is   *)
(* over, since a key stays with one mounted modal, which sends one         *)
(* submission after the other.                                             *)
(***************************************************************************)
\* Nobody but the submission the modal waits for is still at work with k.
AloneWith(k) ==
    /\ \A m \in stray : m.key # k
    /\ \A q \in Requests :
          arg[q].op = "submit" /\ arg[q].key = k =>
              pc[q] \in Over \/ (submission.phase = "served" /\ q = submission.req)

\* The same of the key that was sent, and of the one the modal keeps.
OneSender ==
    /\ submission.phase = "served" =>
           /\ arg[submission.req].op = "submit"
           /\ arg[submission.req].key = submission.key
    /\ submission.phase # "none" => AloneWith(submission.key)
    /\ modal.key # None => AloneWith(modal.key)

\* Transaction t is submitted, and nobody is on the way to settle it.
Settling == {"saved", "finalizing"}

Quieted(t) ==
    /\ row[t].status \in {"submitted"} \cup Terminal
    /\ \A q \in Requests : pc[q] \in Settling => arg[q].tx # t

\* What the modal tracks is so, and shown as it is.
Tracking ==
    modal.step = "track" =>
        Quieted(modal.tx) /\ modal.shown = row[modal.tx].status

\* Then nobody settles it later either: to do so, a request would have to
\* submit it first.
LEMMA QuietedStays ==
    ASSUME OverlapInv, CurrentCopies, OneAtATime, [Next]_vars,
           NEW t \in TxIds, Quieted(t)
    PROVE  Quieted(t)' /\ row'[t].status = row[t].status
<1>1. TypeOK /\ Copies
  BY DEF OverlapInv
<1>2. row[t].status \notin {"none", "built"}
  BY DEF Quieted, Terminal
<1>3. row'[t].status = row[t].status
  <2>1. ASSUME NEW u \in TxIds, Build(u) PROVE row'[t] = row[t]
    BY <1>1, <1>2, <2>1, BuildRow
  <2>2. ASSUME NEW r \in Requests, Commit(r) PROVE row'[t] = row[t]
    BY <1>2, <2>2, SubmitCurrent
  <2>3. ASSUME NEW r \in Requests, Finalize(r) PROVE row'[t] = row[t]
    <3>1. arg[r].tx # t
      BY <2>3 DEF Finalize, Quieted, Settling
    <3>2. \A u \in TxIds \ {arg[r].tx} : row'[u] = row[u]
      BY <1>1, <2>3, FinalizeRow
    <3> QED BY <3>1, <3>2
  <2>4. ASSUME NEW r \in Requests, SimulateSave(r)
        PROVE  row'[t].status = row[t].status
    BY <1>1, <2>4, SimulateRow DEF Current
  <2>5. ASSUME NEW u \in TxIds, Expire(u) PROVE row' = row
    BY <2>5 DEF Expire
  <2>6. UNCHANGED vars => row' = row
    BY DEF vars
  <2> QED BY <2>1, <2>2, <2>3, <2>4, <2>5, <2>6, Steps, ReadOnlyRows
<1>4. ASSUME NEW q \in Requests, pc'[q] \in Settling PROVE arg'[q].tx # t
  <2>1. CASE pc[q] \in Settling
    <3>1. pc[q] # "idle" /\ arg[q].tx # t
      BY <2>1 DEF Settling, Quieted
    <3> QED BY <1>1, <3>1, OverStays
  <2>2. CASE pc[q] \notin Settling
    <3>1. ASSUME NEW r \in Requests,
                 \/ \E u \in TxIds, k \in Keys, h \in Hashes : SubmitLoad(r, u, k, h)
                 \/ \E u \in TxIds : SimulateLoad(r, u)
                 \/ CheckKey(r)
          PROVE  FALSE
      BY <1>1, <1>4, <2>2, <3>1
         DEF SubmitLoad, SimulateLoad, CheckKey, Finish, TypeOK, Settling
    <3>2. ASSUME NEW r \in Requests,
                 Refresh(r) \/ Finalize(r) \/ SimulateSave(r) \/ Crash(r)
          PROVE  FALSE
      BY <1>1, <1>4, <2>2, <3>2
         DEF Refresh, Finalize, SimulateSave, Crash, Finish, TypeOK, Settling
    <3>3. ASSUME NEW u \in TxIds, Build(u) \/ Expire(u) PROVE FALSE
      BY <1>4, <2>2, <3>3 DEF Build, Expire
    <3>4. ~UNCHANGED vars
      BY <1>4, <2>2 DEF vars
    <3>5. ASSUME NEW r \in Requests, SaveSubmit(r) PROVE arg'[q].tx # t
      <4>1. r = q /\ Commit(r)
        BY <1>1, <1>4, <2>2, <3>5
           DEF SaveSubmit, Commit, Finish, TypeOK, Settling
      <4>2. row[arg[q].tx].status = "built" /\ arg' = arg
        BY <1>1, <4>1, SubmitCurrent DEF Commit, SaveSubmit
      <4> QED BY <1>2, <4>2
    <3> QED BY <3>1, <3>2, <3>3, <3>4, <3>5 DEF Next, Continue
  <2> QED BY <2>1, <2>2
<1> QED BY <1>3, <1>4 DEF Quieted

\* What is answered was submitted with the key of the answered submission,
\* and nobody else is at work with that key.
LEMMA AnswerQuiet ==
    ASSUME ClientInv, CurrentCopies, OneAtATime, AnswerCarriesKey, OneSender,
           SubmitAnswered
    PROVE  /\ answer[submission.req] \in TxIds
           /\ Quieted(answer[submission.req])
<1> DEFINE r == submission.req
           t == answer[r]
<1>1. /\ r \in Requests /\ t \in TxIds
      /\ submission.phase = "served" /\ submission.key \in Keys
      /\ pc[r] = "done"
  BY Sent DEF ClientInv, OverlapInv, TypeOK, SubmitAnswered
<1>2. /\ arg[r].op = "submit" /\ arg[r].key = submission.key
      /\ AloneWith(submission.key)
  BY <1>1 DEF OneSender
<1>3. row[t].key = submission.key /\ submission.key # None
  BY <1>1, <1>2, NoneAssumption DEF AnswerCarriesKey, SubmitAnswered
<1>4. row[t].status \in {"submitted"} \cup Terminal
  BY <1>1, <1>3 DEF OneAtATime, ClientInv, OverlapInv, TypeOK, Columns
<1>5. ASSUME NEW q \in Requests, pc[q] \in Settling PROVE arg[q].tx # t
  <2> SUFFICES ASSUME arg[q].tx = t PROVE FALSE
    OBVIOUS
  <2>1. q \in Submissions(t)
    BY <1>5 DEF Settling, CurrentCopies, Submitting, Submissions
  <2>2. arg[q].op = "submit" /\ arg[q].key = submission.key
    BY <1>1, <1>3, <2>1 DEF OneAtATime, Submissions
  <2>3. pc[q] \in Over
    BY <1>1, <1>2, <2>2 DEF AloneWith, Over
  <2> QED BY <1>5, <2>3 DEF Settling, Over
<1> QED BY <1>1, <1>4, <1>5 DEF Quieted

\* So what the modal tracks is quieted from the answer on.
LEMMA TrackingStep ==
    ASSUME ClientInv, CurrentCopies, OneAtATime, AnswerCarriesKey, OneSender,
           Tracking, [ModalNext]_modalVars
    PROVE  Tracking'
<1>1. /\ ModalTyped
      /\ OverlapInv
      /\ modal.step = "track" => modal.tx \in TxIds
      /\ [Next]_vars
  BY TypedParts, Sent, ServiceStep DEF ClientInv
<1>2. ASSUME modal' = modal PROVE Tracking'
  BY <1>1, <1>2, QuietedStays DEF Tracking
<1>3. ASSUME modal'.step # "track" PROVE Tracking'
  BY <1>3 DEF Tracking
<1>4. ASSUME UNCHANGED vars, modal'.step = modal.step, modal'.tx = modal.tx,
             modal'.shown \in {modal.shown, row[modal.tx].status}
      PROVE  Tracking'
  BY <1>4 DEF Tracking, Quieted, vars
<1>5. CASE Open \/ Poll
  BY <1>1, <1>4, <1>5 DEF Open, Poll, ModalTyped
<1>6. CASE SubmitAnswered
  <2>1. PICK t \in TxIds : t = answer[submission.req] /\ Quieted(t)
    BY <1>6, AnswerQuiet
  <2>2. modal'.tx = t /\ modal'.shown = row[t].status /\ UNCHANGED vars
    BY <1>1, <1>6, <2>1 DEF SubmitAnswered, ModalTyped
  <2> QED BY <2>1, <2>2 DEF Tracking, Quieted, vars
<1>7. CASE Advance \/ Back
  BY <1>1, <1>3, <1>7 DEF Advance, Back, Go, ModalTyped
<1>8. CASE Sign
  BY <1>1, <1>3, <1>8 DEF Sign, At, ModalTyped
<1>9. CASE Reset \/ Leave
  BY <1>3, <1>9 DEF Reset, Leave, Closed
<1>10. CASE BuildAnswered
  BY <1>1, <1>3, <1>10 DEF BuildAnswered, ModalTyped
<1>11. CASE \/ UNCHANGED modalVars \/ AskPreview \/ BuildServed \/ BuildFails
            \/ SubmitServed \/ SubmitFails \/ \E m \in stray : StrayServed(m)
            \/ Others \/ \E r \in Requests : Server(r)
  BY <1>2, <1>11 DEF modalVars, client, AskPreview, BuildServed, BuildFails,
                     SubmitServed, SubmitFails, StrayServed, Others, Server
<1> QED
  BY <1>5, <1>6, <1>7, <1>8, <1>9, <1>10, <1>11
  DEF ModalNext, User, Network, Close, Select

\* The submissions of the service as a step leaves them that loads none.
Calm ==
    \A q \in Requests :
        /\ arg'[q].op = "submit" =>
               arg'[q] = arg[q] /\ (pc[q] \in Over => pc'[q] \in Over)
        /\ arg[q].op = "submit" => arg'[q] = arg[q]

LEMMA CalmStep ==
    ASSUME OverlapInv, CurrentCopies, [Next]_vars,
           ~ \E r \in Requests : SubmitLoads(r)
    PROVE  Calm
<1>1. ASSUME NEW q \in Requests, arg[q].op = "submit"
      PROVE  arg'[q] = arg[q]
  <2>1. pc[q] # "idle"
    BY <1>1 DEF CurrentCopies
  <2> QED BY <2>1, OverStays DEF OverlapInv
<1> QED BY <1>1, Quiet DEF Calm

\* The client sends nothing new while the service goes on with what it has.
LEMMA SenderFewer ==
    ASSUME ClientTyped, OneSender, Calm, stray' = stray,
           modal'.key \in {modal.key, None},
           \/ submission' = submission
           \/ /\ submission'.phase = "none"
              /\ submission.phase = "served" => pc[submission.req] \in Over
    PROVE  OneSender'
<1>1. ASSUME NEW k, AloneWith(k) PROVE AloneWith(k)'
  <2> SUFFICES ASSUME NEW q \in Requests, arg'[q].op = "submit", arg'[q].key = k
               PROVE  \/ pc'[q] \in Over
                      \/ submission'.phase = "served" /\ q = submission'.req
    BY <1>1 DEF AloneWith
  <2>1. /\ arg[q].op = "submit" /\ arg[q].key = k
        /\ pc[q] \in Over => pc'[q] \in Over
    BY DEF Calm
  <2>2. pc[q] \in Over \/ (submission.phase = "served" /\ q = submission.req)
    BY <1>1, <2>1 DEF AloneWith
  <2> QED BY <2>1, <2>2
<1>2. submission'.phase = "served" =>
          /\ arg'[submission'.req].op = "submit"
          /\ arg'[submission'.req].key = submission'.key
  BY Sent DEF OneSender, Calm
<1>3. PICK sent, kept : sent = submission.key /\ kept = modal.key
  OBVIOUS
<1>4. /\ submission.phase # "none" => AloneWith(sent)
      /\ modal.key # None => AloneWith(kept)
  BY <1>3 DEF OneSender, AloneWith
<1>5. /\ submission'.phase # "none" => submission'.key = sent /\ AloneWith(sent)'
      /\ modal'.key # None => modal'.key = kept /\ AloneWith(kept)'
  BY <1>1, <1>3, <1>4
<1> QED BY <1>2, <1>5 DEF OneSender, AloneWith

\* A key that is new is nobody's.
LEMMA SignedAlone ==
    ASSUME ClientInv, OneSender, Sign
    PROVE  OneSender'
<1>1. PICK k : k = KeyOf
  OBVIOUS
<1>2. AloneWith(k)
  <2>1. CASE modal.key # None
    BY <1>1, <2>1 DEF KeyOf, OneSender
  <2>2. CASE modal.key = None
    <3>1. k \in FreshKeys
      <4>1. FreshKeys # {} /\ k = RandomKey
        BY <1>1, <2>2 DEF Sign, KeyOf
      <4>2. \A S : S # {} => (CHOOSE x \in S : TRUE) \in S
        OBVIOUS
      <4> QED BY <4>1, <4>2 DEF RandomKey
    <3> QED BY <3>1 DEF FreshKeys, AloneWith
  <2> QED BY <2>1, <2>2
<1>3. /\ modal'.key = k /\ submission'.phase = "sent" /\ submission'.key = k
      /\ submission.phase = "none"
      /\ UNCHANGED <<pc, arg, stray>>
  BY <1>1, TypedParts DEF Sign, NoSubmission, vars, ClientInv, ModalTyped
<1>4. AloneWith(k)'
  BY <1>2, <1>3 DEF AloneWith
<1> QED BY <1>3, <1>4 DEF OneSender, AloneWith

\* A submission that is served is the client's, or has a key of its own.
LEMMA ServedAlone ==
    ASSUME ClientInv, CurrentCopies, OneSender,
           SubmitServed \/ \E m \in stray : StrayServed(m)
    PROVE  OneSender'
<1>1. SubmissionTyped /\ ClientTyped
  BY TypedParts DEF ClientInv
<1>2. ASSUME NEW r \in Requests, NEW t \in TxIds, NEW k \in Keys,
             SubmitLoad(r, t, k, Payload[t])
      PROVE  /\ pc[r] = "idle" /\ arg[r].op = "none"
             /\ arg'[r].op = "submit" /\ arg'[r].key = k
             /\ \A q \in Requests \ {r} : arg'[q] = arg[q] /\ pc'[q] = pc[q]
  <2>1. Payload[t] \in Hashes
    BY PayloadAssumption
  <2> QED BY <1>2, <2>1, Loaded DEF ClientInv, CurrentCopies
<1>3. CASE SubmitServed
  <2>1. PICK t \in TxIds, r \in Requests, k \in Keys :
          t = submission.tx /\ r = NextRequest /\ k = submission.key
    BY <1>1, <1>3, Chosen, Sent DEF SubmitServed
  <2>2. /\ submission.phase = "sent" /\ submission'.phase = "served"
        /\ submission'.key = k /\ submission'.req = r
        /\ UNCHANGED <<modal, stray>>
    BY <1>1, <1>3, <2>1 DEF SubmitServed, SubmissionTyped
  <2>3. /\ arg'[r].op = "submit" /\ arg'[r].key = k
        /\ \A q \in Requests \ {r} : arg'[q] = arg[q] /\ pc'[q] = pc[q]
    BY <1>2, <1>3, <2>1 DEF SubmitServed
  <2>4. ASSUME NEW l, AloneWith(l) PROVE AloneWith(l)'
    BY <2>2, <2>3, <2>4 DEF AloneWith
  <2>5. AloneWith(k)'
    BY <2>1, <2>2, <2>4 DEF OneSender, AloneWith
  <2>6. PICK kept : kept = modal.key
    OBVIOUS
  <2>7. modal'.key # None => modal'.key = kept /\ AloneWith(kept)'
    BY <2>2, <2>4, <2>6 DEF OneSender, AloneWith
  <2> QED BY <2>2, <2>3, <2>5, <2>7 DEF OneSender, AloneWith
<1>4. ASSUME NEW m \in stray, StrayServed(m) PROVE OneSender'
  <2>1. PICK t \in TxIds, r \in Requests, k \in Keys :
          t = m.tx /\ r = NextRequest /\ k = m.key
    BY <1>1, <1>4, Chosen, Sent DEF StrayServed
  <2>2. stray' = stray \ {m} /\ UNCHANGED <<modal, submission>>
    BY <1>4 DEF StrayServed
  <2>3. /\ arg[r].op = "none"
        /\ arg'[r].op = "submit" /\ arg'[r].key = k
        /\ \A q \in Requests \ {r} : arg'[q] = arg[q] /\ pc'[q] = pc[q]
    BY <1>2, <1>4, <2>1 DEF StrayServed
  <2>4. ASSUME NEW l, AloneWith(l) PROVE AloneWith(l)'
    BY <2>1, <2>2, <2>3, <2>4 DEF AloneWith
  <2>5. PICK sent, kept : sent = submission.key /\ kept = modal.key
    OBVIOUS
  <2>6. /\ submission.phase # "none" => AloneWith(sent)'
        /\ modal.key # None => AloneWith(kept)'
    <3>1. /\ submission.phase # "none" => AloneWith(sent)
          /\ modal.key # None => AloneWith(kept)
      BY <2>5 DEF OneSender, AloneWith
    <3> QED BY <2>4, <3>1
  <2>7. submission.phase = "served" =>
          /\ submission.req \in Requests \ {r}
          /\ arg[submission.req].op = "submit"
          /\ arg[submission.req].key = submission.key
    BY <1>1, <2>3 DEF SubmissionTyped, OneSender
  <2> QED BY <2>2, <2>3, <2>5, <2>6, <2>7 DEF OneSender, AloneWith
<1> QED BY <1>3, <1>4

\* A key stays with one client, and the client sends one submission after
\* the other.
LEMMA SenderStep ==
    ASSUME ClientInv, CurrentCopies, OneSender, [ModalNext]_modalVars
    PROVE  OneSender'
<1>1. ModalTyped /\ ClientTyped /\ OverlapInv /\ TypeOK /\ [Next]_vars
  BY TypedParts, ServiceStep DEF ClientInv, OverlapInv
<1>2. ASSUME UNCHANGED vars PROVE Calm
  BY <1>2 DEF Calm, vars
<1>3. CASE \/ Open \/ AskPreview \/ Advance \/ Back \/ Poll \/ Reset
           \/ UNCHANGED modalVars
  <2>1. /\ UNCHANGED <<vars, submission, stray>>
        /\ modal'.key \in {modal.key, None}
    <3>1. CASE Open \/ AskPreview \/ Poll \/ UNCHANGED modalVars
      BY <1>1, <3>1 DEF Open, AskPreview, Poll, modalVars, client, ModalTyped
    <3>2. CASE Advance \/ Back
      BY <1>1, <3>2 DEF Advance, Back, Go, ModalTyped
    <3>3. CASE Reset
      BY <3>3 DEF Reset, Closed
    <3> QED BY <1>3, <3>1, <3>2, <3>3
  <2> QED BY <1>1, <1>2, <2>1, SenderFewer
<1>4. CASE BuildFails \/ BuildAnswered \/ SubmitFails \/ SubmitAnswered
  <2>1. /\ UNCHANGED <<vars, stray>>
        /\ modal'.key = modal.key
        /\ \/ submission' = submission
           \/ /\ submission' = NoSubmission
              /\ submission.phase = "served" => pc[submission.req] \in Over
    BY <1>1, <1>4 DEF BuildFails, BuildAnswered, SubmitFails, SubmitAnswered,
                      ModalTyped, Over
  <2>2. NoSubmission.phase = "none"
    BY DEF NoSubmission
  <2> QED BY <1>1, <1>2, <2>1, <2>2, SenderFewer
<1>5. CASE BuildServed
  <2>1. Calm
    <3>1. pc' = pc /\ arg' = arg
      BY <1>5 DEF BuildServed, Build
    <3> QED BY <3>1 DEF Calm
  <2> QED BY <1>1, <1>5, <2>1, SenderFewer DEF BuildServed
<1>6. CASE Others \/ \E r \in Requests : Server(r)
  <2>1. Calm
    BY <1>1, <1>6, RestSubmitsNone, CalmStep
  <2> QED BY <1>1, <1>6, <2>1, SenderFewer DEF Others, Server, client
<1>7. CASE Leave
  BY <1>7 DEF Leave, Closed, NoSubmission, OneSender
<1>8. CASE Sign
  BY <1>8, SignedAlone
<1>9. CASE SubmitServed \/ \E m \in stray : StrayServed(m)
  BY <1>9, ServedAlone
<1> QED
  BY <1>3, <1>4, <1>5, <1>6, <1>7, <1>8, <1>9
  DEF ModalNext, User, Network, Close, Select

\* CurrentCopies and OneAtATime are of the service behind a restricted client.
LEMMA BehindInvariant == Behind!Spec => []Behind!ModalInv
<1>1. TRUE \in BOOLEAN
  OBVIOUS
<1>2. None \notin Keys \cup Hashes \cup TxIds \cup {Behind!Watcher}
  BY NoneAssumption DEF Watcher, Behind!Watcher
<1> QED
  BY <1>1, <1>2, OwnerAssumption, FailingAssumption, SimAssumption,
     Behind!ModalInvariant, PTL

LEMMA CopiesBehindTheModal == ModalSpec => [](CurrentCopies /\ OneAtATime)
<1>1. Behind!ModalInv => CurrentCopies
  BY DEF Behind!ModalInv, Behind!CurrentCopies, CurrentCopies,
         Behind!Submitting, Submitting, Behind!Current, Current
<1>2. Behind!ModalInv => OneAtATime
  BY DEF Behind!ModalInv, Behind!OneAtATime, OneAtATime, Behind!Submissions,
         Submissions, Behind!Over, Over
<1> QED
  BY <1>1, <1>2, ClientRestricted, BehindTheModal, BehindInvariant, PTL

\* What the modal tracks has been submitted, and polling it never finds
\* anything new: whoever could have settled it is over when it is answered.
THEOREM ModalTracks == ModalSpec => []TracksSubmission
<1> DEFINE Assured == ClientInv /\ CurrentCopies /\ OneAtATime /\ AnswerCarriesKey
<1>1. ModalSpec => []Assured
  BY ClientInvariant, CopiesBehindTheModal, ModalAnswered, PTL
<1>2. ModalInit => OneSender /\ Tracking
  BY DEF ModalInit, Closed, NoSubmission, OneSender, Tracking
<1>3. Assured /\ OneSender /\ Tracking /\ [ModalNext]_modalVars
        => OneSender' /\ Tracking'
  BY SenderStep, TrackingStep
<1>4. Tracking => TracksSubmission
  BY DEF Tracking, TracksSubmission, At, Quieted
<1> HIDE DEF Assured
<1> QED BY <1>1, <1>2, <1>3, <1>4, PTL DEF ModalSpec
=============================================================================
