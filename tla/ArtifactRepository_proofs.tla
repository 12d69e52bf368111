------------------------ MODULE ArtifactRepository_proofs ------------------------
(***************************************************************************)
(* What ArtifactRepository promises follows from its steps: the theorems   *)
(* that the stores and the gateway, each shown to implement it, take over. *)
(***************************************************************************)
EXTENDS ArtifactRepository, TLAPS

\* What a step may do to the keys and to what was decided: nothing, empty a key,
\* refuse an upload, or publish one on which nothing was decided.
LEMMA KeysStep ==
  ASSUME TypeOK, [Next]_vars
  PROVE  \/ UNCHANGED <<published, verdict>>
         \/ /\ \E k \in Key : published' = [published EXCEPT ![k] = None]
            /\ UNCHANGED verdict
         \/ /\ \E u \in Upload :
                 verdict[u] = "none" /\ verdict' = [verdict EXCEPT ![u] = "refused"]
            /\ UNCHANGED published
         \/ \E u \in Upload, k \in Key :
              /\ verdict[u] = "none"
              /\ k \in Immutable => published[k] = None
              /\ published' = [published EXCEPT ![k] = u]
              /\ verdict' = [verdict EXCEPT ![u] = "stored"]
BY DEF Next, vars, Publish, Refuse, Tell, PublishAndTell, Drop, Withdraw, Serve

\* What it may do to what clients were told: tell some of those who wait, and
\* success and conflict only as decided.
LEMMA RepliesStep ==
  ASSUME TypeOK, [Next]_vars
  PROVE  /\ reply' \in [Upload -> Replies]
         /\ \A u \in Upload :
              \/ reply'[u] = reply[u]
              \/ /\ reply[u] = "none"
                 /\ reply'[u] = "created" => verdict'[u] = "stored"
                 /\ reply'[u] = "conflict" => verdict'[u] = "refused"
<1> DEFINE Told(u) == \/ reply'[u] = reply[u]
                      \/ /\ reply[u] = "none"
                         /\ reply'[u] = "created" => verdict'[u] = "stored"
                         /\ reply'[u] = "conflict" => verdict'[u] = "refused"
           Goal == reply' \in [Upload -> Replies] /\ \A u \in Upload : Told(u)
<1> SUFFICES Goal
  OBVIOUS
<1> USE DEF TypeOK, Replies, Verdicts
<1>1. ASSUME UNCHANGED reply PROVE Goal
  BY <1>1
<1>2. ASSUME NEW u \in Upload, NEW k \in Key, Refuse(u, k) PROVE Goal
  BY <1>2 DEF Refuse
<1>3. ASSUME NEW u \in Upload, NEW k \in Key, NEW r \in {"created", "failed"},
             PublishAndTell(u, k, r)
      PROVE  Goal
  BY <1>3 DEF PublishAndTell
<1>4. ASSUME NEW u \in Upload, NEW r \in Replies \ {"none"}, Tell(u, r) PROVE Goal
  BY <1>4 DEF Tell
<1>5. ASSUME NEW U \in SUBSET Upload, Drop(U) PROVE Goal
  BY <1>5 DEF Drop
<1> HIDE DEF Goal
<1> QED
  BY <1>1, <1>2, <1>3, <1>4, <1>5 DEF Next, vars, Publish, Withdraw, Serve

\* A download is sent what its key holds at one instant, for good.
LEMMA ServingStep ==
  ASSUME TypeOK, [Next]_vars
  PROVE  \/ UNCHANGED serving
         \/ /\ \E d \in Download, k \in Key :
                 /\ serving[d] = None
                 /\ published[k] # None
                 /\ serving' = [serving EXCEPT ![d] = published[k]]
            /\ UNCHANGED <<published, verdict, reply>>
BY DEF Next, vars, Publish, Refuse, Tell, PublishAndTell, Drop, Withdraw, Serve

\* Every step keeps the types,
LEMMA TypeStep ==
  ASSUME TypeOK, [Next]_vars
  PROVE  TypeOK'
<1> USE DEF TypeOK
<1>1. published' \in [Key -> Upload \union {None}] /\ verdict' \in [Upload -> Verdicts]
  BY KeysStep DEF Verdicts
<1>2. serving' \in [Download -> Upload \union {None}]
  BY ServingStep
<1> QED BY <1>1, <1>2, RepliesStep

\* so they always hold.
LEMMA TypeCorrect == Spec => []TypeOK
<1>1. Init => TypeOK
  BY DEF Init, TypeOK, Verdicts, Replies
<1>2. TypeOK /\ [Next]_vars => TypeOK'
  BY TypeStep
<1> QED BY <1>1, <1>2, PTL DEF Spec

\* Every step keeps what is published, sent or told in agreement with what was decided.
LEMMA InvStep ==
  ASSUME None \notin Upload, RepositoryInv, [Next]_vars
  PROVE  RepositoryInv'
<1> DEFINE Kept(k) == published[k] # None => verdict[published[k]] = "stored"
           Sent(d) == serving[d] # None => verdict[serving[d]] = "stored"
<1>1. TypeOK /\ TypeOK'
  BY TypeStep DEF RepositoryInv
<1>2. \A u \in Upload : verdict[u] # "none" => verdict'[u] = verdict[u]
  BY <1>1, KeysStep DEF TypeOK
<1>3. \A k \in Key : Kept(k)'
  BY <1>1, <1>2, KeysStep DEF RepositoryInv, TypeOK
<1>4. \A d \in Download : Sent(d)'
  BY <1>1, <1>2, KeysStep, ServingStep DEF RepositoryInv, TypeOK
<1>5. \A u \in Upload :
        /\ reply'[u] = "created" => verdict'[u] = "stored"
        /\ reply'[u] = "conflict" => verdict'[u] = "refused"
  BY <1>1, <1>2, RepliesStep DEF RepositoryInv, AnswersTrue
<1>6. \A u \in Upload : reply'[u] = "conflict" =>
        (\A k \in Key : published'[k] # u) /\ (\A d \in Download : serving'[d] # u)
  <2> SUFFICES ASSUME NEW u \in Upload, verdict'[u] = "refused"
               PROVE  (\A k \in Key : published'[k] # u) /\ (\A d \in Download : serving'[d] # u)
    BY <1>5
  <2> QED BY <1>1, <1>3, <1>4 DEF TypeOK
<1>7. \A j, k \in Key : published'[j] # None /\ published'[j] = published'[k] => j = k
  BY <1>1, KeysStep DEF RepositoryInv, AnswersTrue, TypeOK
<1> QED BY <1>1, <1>3, <1>4, <1>5, <1>6, <1>7 DEF RepositoryInv, AnswersTrue

\* RepositoryInv is inductive.
LEMMA RepositoryInvariant ==
  ASSUME None \notin Upload
  PROVE  Spec => []RepositoryInv
<1>1. Init => RepositoryInv
  BY DEF Init, RepositoryInv, AnswersTrue, TypeOK, Verdicts, Replies
<1>2. RepositoryInv /\ [Next]_vars => RepositoryInv'
  BY InvStep
<1> QED BY <1>1, <1>2, PTL DEF Spec

\* A client that was told 201 has its upload stored, and one that was told 409
\* will never see its bytes, whatever else is uploaded, deleted or overwritten.
THEOREM AnswersTrueHold ==
  ASSUME None \notin Upload
  PROVE  Spec => []AnswersTrue
<1>1. RepositoryInv => AnswersTrue
  BY DEF RepositoryInv
<1> QED BY <1>1, RepositoryInvariant, PTL

\* Of the uploads that race for an immutable key the first stands until the key
\* is deleted.
THEOREM FirstStandsHolds == Spec => FirstStands
<1>1. TypeOK /\ [Next]_vars =>
        (\A k \in Immutable \intersect Key :
           published[k] # None => published'[k] \in {published[k], None})
  BY KeysStep DEF TypeOK
<1> QED BY <1>1, TypeCorrect, PTL DEF Spec, FirstStands

\* An upload appears under a key at most once; a retry, a late step of another
\* upload or a deletion never brings it back.
THEOREM EffectOnceHolds == Spec => EffectOnce
<1> DEFINE A == \A k \in Key : published'[k] # published[k] /\ published'[k] # None =>
                  verdict[published'[k]] = "none" /\ verdict'[published'[k]] = "stored"
<1>1. TypeOK /\ [Next]_vars => A
  BY KeysStep DEF TypeOK
<1> QED BY <1>1, TypeCorrect, PTL DEF Spec, EffectOnce

\* What was decided, told or is being sent is never taken back.
THEOREM NothingTakenBackHolds == Spec => NothingTakenBack
<1> DEFINE A == /\ \A u \in Upload : /\ verdict[u] # "none" => verdict'[u] = verdict[u]
                                     /\ reply[u] # "none" => reply'[u] = reply[u]
                /\ \A d \in Download : serving[d] # None => serving'[d] = serving[d]
<1>1. TypeOK /\ [Next]_vars => A
  BY KeysStep, RepliesStep, ServingStep DEF TypeOK
<1> QED BY <1>1, TypeCorrect, PTL DEF Spec, NothingTakenBack

\* All that the stores and the gateway take over at once.
THEOREM PromisesKept ==
  ASSUME None \notin Upload
  PROVE  Spec => Promises
BY AnswersTrueHold, FirstStandsHolds, EffectOnceHolds, NothingTakenBackHolds DEF Promises
=================================================================================
