------------------------- MODULE BlossomStoreProofs -------------------------
(***************************************************************************)
(* Proofs about BlossomStore, for any sets of servers, calls and hashes    *)
(* and any number of attempts.                                             *)
(***************************************************************************)
EXTENDS BlossomStore, TLAPS

PutState == [step : {"idle", "queued", "checking", "signing", "uploading", "done"},
             targets : SUBSET WriteServers, waiting : SUBSET WriteServers,
             ok : BOOLEAN, fresh : BOOLEAN, answer : {"none", "true", "false", "failed"}]

PutsTyped ==
    /\ queue \in Seq(Puts)
    /\ put \in [Puts -> PutState]
    /\ attempts \in [Hashes -> 0..MaxAttempts]
    /\ stored \in [Servers -> SUBSET Hashes]

Served(p) == put[p].step \in {"checking", "signing", "uploading"}

(* One put is served at a time, and only for a hash that is not given up. *)
ServedOK ==
    \A p \in Puts : Served(p) =>
        queue # <<>> /\ p = Head(queue) /\ attempts[HashOf[p]] < MaxAttempts

(* What a server holds, or has said it took, was taken. *)
TakenOK ==
    /\ \A s \in Servers : stored[s] \subseteq accepted
    /\ \A p \in Puts : put[p].ok => HashOf[p] \in accepted

BlossomInv == PutsTyped /\ ServedOK /\ TakenOK /\ AnswersAreTrue

-----------------------------------------------------------------------------
(* A put that goes on changes neither the queue nor its answer. *)
LEMMA GoesOn ==
    ASSUME BlossomInv, NEW p \in Puts, NEW q \in PutState,
           put' = [put EXCEPT ![p] = q], q.answer = put[p].answer,
           q.step \in {"checking", "signing", "uploading"} =>
              queue # <<>> /\ p = Head(queue) /\ attempts[HashOf[p]] < MaxAttempts,
           accepted \subseteq accepted', q.ok => HashOf[p] \in accepted',
           stored' \in [Servers -> SUBSET Hashes],
           \A s \in Servers : stored'[s] \subseteq accepted',
           UNCHANGED <<queue, attempts>>
    PROVE  BlossomInv'
<1>1. PutsTyped'
  BY DEF BlossomInv, PutsTyped
<1>2. \A r \in Puts : put'[r] = IF r = p THEN q ELSE put[r]
  BY DEF BlossomInv, PutsTyped
<1>3. ServedOK'
  BY <1>2 DEF BlossomInv, ServedOK, Served
<1>4. TakenOK'
  BY <1>2 DEF BlossomInv, TakenOK
<1>5. AnswersAreTrue'
  BY <1>2 DEF BlossomInv, AnswersAreTrue
<1> QED  BY <1>1, <1>3, <1>4, <1>5 DEF BlossomInv

(* The head of the queue settles: nobody is served then, and its failure is
   counted only for a hash that was not given up. *)
LEMMA SettleSafe ==
    ASSUME BlossomInv, NEW p \in Puts, queue # <<>>, p = Head(queue),
           NEW answer \in {"true", "false", "failed"}, Settle(p, answer),
           accepted \subseteq accepted',
           stored' \in [Servers -> SUBSET Hashes],
           \A s \in Servers : stored'[s] \subseteq accepted',
           \/ UNCHANGED attempts
           \/ recordHashFailure(HashOf[p]) /\ attempts[HashOf[p]] < MaxAttempts
           \/ clearHashFailure(HashOf[p]) /\ HashOf[p] \in accepted',
           answer = "true" => HashOf[p] \in accepted',
           answer = "false" => HashOf[p] \in accepted' \/ attempts'[HashOf[p]] = MaxAttempts
    PROVE  BlossomInv'
<1> DEFINE q == [Put0 EXCEPT !.step = "done", !.answer = answer]
<1>1. q \in PutState /\ q.step = "done" /\ q.answer = answer /\ q.ok = FALSE
  BY DEF Put0, PutState
<1>2. put' = [put EXCEPT ![p] = q] /\ queue' = Tail(queue)
  BY DEF Settle
<1> HIDE DEF q
<1>3. \A r \in Puts : put'[r] = IF r = p THEN q ELSE put[r]
  BY <1>2 DEF BlossomInv, PutsTyped
<1>4. HashOf[p] \in Hashes /\ MaxAttempts \in Nat
  BY BlossomAssumption
<1>5. attempts' \in [Hashes -> 0..MaxAttempts]
  <2>1. attempts \in [Hashes -> 0..MaxAttempts] /\ attempts[HashOf[p]] \in 0..MaxAttempts
    BY <1>4 DEF BlossomInv, PutsTyped
  <2>2. CASE recordHashFailure(HashOf[p]) /\ attempts[HashOf[p]] < MaxAttempts
    <3>1. attempts[HashOf[p]] + 1 \in 0..MaxAttempts
      BY <1>4, <2>1, <2>2
    <3> QED  BY <2>1, <2>2, <3>1 DEF recordHashFailure
  <2>3. CASE clearHashFailure(HashOf[p])
    <3>1. 0 \in 0..MaxAttempts
      BY <1>4
    <3> QED  BY <2>1, <2>3, <3>1 DEF clearHashFailure
  <2> QED  BY <2>1, <2>2, <2>3
<1>6. PutsTyped'
  <2>1. queue' \in Seq(Puts)
    BY <1>2 DEF BlossomInv, PutsTyped
  <2>2. put' \in [Puts -> PutState]
    BY <1>1, <1>2 DEF BlossomInv, PutsTyped
  <2> QED  BY <1>5, <2>1, <2>2 DEF PutsTyped
<1>7. ServedOK'
  <2>1. \A r \in Puts : ~Served(r)'
    BY <1>1, <1>3 DEF BlossomInv, ServedOK, Served
  <2> QED  BY <2>1 DEF ServedOK
<1>8. TakenOK'
  BY <1>1, <1>3 DEF BlossomInv, TakenOK
<1>9. AnswersAreTrue'
  <2> SUFFICES ASSUME NEW r \in Puts
               PROVE  /\ put'[r].answer = "true" => HashOf[r] \in accepted'
                      /\ put'[r].answer = "false" =>
                            HashOf[r] \in accepted' \/ attempts'[HashOf[r]] = MaxAttempts
    BY DEF AnswersAreTrue
  <2>1. CASE r = p
    BY <1>1, <1>3, <2>1
  <2>2. CASE r # p
    <3>1. put'[r] = put[r] /\ HashOf[r] \in Hashes
      BY <1>3, <2>2, BlossomAssumption
    <3>2. attempts[HashOf[r]] = MaxAttempts =>
             HashOf[r] \in accepted' \/ attempts'[HashOf[r]] = MaxAttempts
      BY <1>4, <3>1 DEF BlossomInv, PutsTyped, recordHashFailure, clearHashFailure
    <3> QED  BY <3>1, <3>2 DEF BlossomInv, AnswersAreTrue
  <2> QED  BY <2>1, <2>2
<1> QED  BY <1>6, <1>7, <1>8, <1>9 DEF BlossomInv

(* Steps that touch no put and take nothing back but what a server holds. *)
LEMMA Elsewhere ==
    ASSUME BlossomInv, UNCHANGED <<accepted, attempts, queue, put>>,
           stored' \in [Servers -> SUBSET Hashes],
           \A s \in Servers : stored'[s] \subseteq stored[s]
    PROVE  BlossomInv'
  BY DEF BlossomInv, PutsTyped, ServedOK, Served, TakenOK, AnswersAreTrue

-----------------------------------------------------------------------------
(* The first steps of a put: it is queued, begins, looks a blob up, signs. *)
LEMMA BeginSafe ==
    ASSUME BlossomInv, NEW p \in Puts, Begin(p)
    PROVE  BlossomInv'
<1> DEFINE h == HashOf[p]
           targets == WriteServers \ backoff
<1>1. queue # <<>> /\ p = Head(queue) /\ UNCHANGED <<stored, accepted>>
  BY DEF Begin
<1>2. h \in Hashes /\ MaxAttempts \in Nat /\ attempts[h] \in 0..MaxAttempts
  BY BlossomAssumption DEF BlossomInv, PutsTyped
<1>3. stored' \in [Servers -> SUBSET Hashes] /\ \A s \in Servers : stored'[s] \subseteq accepted'
  BY <1>1 DEF BlossomInv, PutsTyped, TakenOK
<1>4. CASE attempts[h] >= MaxAttempts
  <2>1. Settle(p, "false") /\ UNCHANGED attempts
    BY <1>4 DEF Begin
  <2>2. attempts[h] = MaxAttempts
    BY <1>2, <1>4
  <2> QED  BY <1>1, <1>3, <2>1, <2>2, SettleSafe
<1>5. CASE attempts[h] < MaxAttempts /\ targets = {}
  <2>1. Settle(p, "failed") /\ recordHashFailure(h)
    BY <1>2, <1>5 DEF Begin
  <2> QED  BY <1>1, <1>3, <1>5, <2>1, SettleSafe
<1>6. CASE attempts[h] < MaxAttempts /\ targets # {}
  <2> DEFINE q == [put[p] EXCEPT !.targets = targets, !.waiting = WriteServers,
                                 !.step = IF h \in Large THEN "checking" ELSE "signing"]
  <2>0. /\ put' = [put EXCEPT ![p].targets = targets, ![p].waiting = WriteServers,
                             ![p].step = IF h \in Large THEN "checking" ELSE "signing"]
        /\ UNCHANGED <<queue, attempts>>
    <3>1. ~(attempts[h] >= MaxAttempts)
      BY <1>2, <1>6
    <3> QED  BY <1>6, <3>1 DEF Begin
  <2>1. put' = [put EXCEPT ![p] = q]
    BY <2>0 DEF BlossomInv, PutsTyped
  <2>2. q \in PutState /\ q.answer = put[p].answer /\ q.ok = put[p].ok
    BY ZenonT(30) DEF BlossomInv, PutsTyped, PutState
  <2>3. q.ok => h \in accepted'
    BY <1>1, <2>2 DEF BlossomInv, TakenOK
  <2> HIDE DEF q
  <2> QED  BY <1>1, <1>3, <1>6, <2>0, <2>1, <2>2, <2>3, GoesOn
<1> QED  BY <1>2, <1>4, <1>5, <1>6

(* A put that is served is the head of the queue, for a hash that is not given up. *)
LEMMA ServedFacts ==
    ASSUME BlossomInv, NEW p \in Puts, Served(p)
    PROVE  /\ queue # <<>> /\ p = Head(queue) /\ HashOf[p] \in Hashes
           /\ attempts[HashOf[p]] < MaxAttempts
           /\ put[p] \in PutState
           /\ put[p].ok => HashOf[p] \in accepted
  BY BlossomAssumption DEF BlossomInv, PutsTyped, ServedOK, TakenOK

(* Looking a blob up: a server that has it has taken it. *)
LEMMA CheckSafe ==
    ASSUME BlossomInv, NEW p \in Puts, NEW s \in WriteServers, Check(p, s)
    PROVE  BlossomInv'
<1>1. Served(p) /\ UNCHANGED <<stored, accepted, attempts>>
  BY DEF Check, Served
<1>2. stored' \in [Servers -> SUBSET Hashes] /\ \A t \in Servers : stored'[t] \subseteq accepted'
  BY <1>1 DEF BlossomInv, PutsTyped, TakenOK
<1>3. CASE HashOf[p] \in stored[s] /\ Settle(p, "false")
  <2>1. HashOf[p] \in accepted'
    BY <1>1, <1>3 DEF BlossomInv, TakenOK, Servers
  <2> QED  BY <1>1, <1>2, <1>3, <2>1, ServedFacts, SettleSafe
<1>4. CASE PassOver(p, s) /\ UNCHANGED queue
  <2> DEFINE left == put[p].waiting \ {s}
             q == [put[p] EXCEPT !.waiting = IF left = {} THEN WriteServers ELSE left,
                                 !.step = IF left = {} THEN "signing" ELSE "checking"]
  <2>1. put' = [put EXCEPT ![p] = q]
    BY <1>4 DEF PassOver, BlossomInv, PutsTyped
  <2>2. q \in PutState /\ q.answer = put[p].answer /\ q.ok = put[p].ok
    BY <1>1, ServedFacts DEF PutState
  <2> HIDE DEF q
  <2>3. q.ok => HashOf[p] \in accepted'
    BY <1>1, <2>2, ServedFacts
  <2> QED  BY <1>1, <1>2, <1>4, <2>1, <2>2, <2>3, ServedFacts, GoesOn
<1> QED  BY <1>3, <1>4 DEF Check

(* The rest of a put that is not an answer of a server. *)
LEMMA SignSafe ==
    ASSUME BlossomInv, NEW p \in Puts, Put(p) \/ Sign(p) \/ SignFails(p)
    PROVE  BlossomInv'
<1>1. UNCHANGED <<stored, accepted, attempts>>
  BY DEF Put, Sign, SignFails
<1>2. stored' \in [Servers -> SUBSET Hashes] /\ \A t \in Servers : stored'[t] \subseteq accepted'
  BY <1>1 DEF BlossomInv, PutsTyped, TakenOK
<1>3. CASE Put(p)
  <2>1. \A r \in Puts : Served(r)' => Served(r)
    BY <1>3 DEF Put, Served, BlossomInv, PutsTyped
  <2>2. queue \in Seq(Puts) /\ queue' = Append(queue, p)
    BY <1>3 DEF Put, BlossomInv, PutsTyped
  <2>3. queue # <<>> => queue' # <<>> /\ Head(queue') = Head(queue)
    BY <2>2
  <2>4. ServedOK'
    BY <1>1, <2>1, <2>3 DEF BlossomInv, ServedOK
  <2>5. \A r \in Puts : put'[r].answer = put[r].answer /\ put'[r].ok = put[r].ok
    BY <1>3 DEF Put, BlossomInv, PutsTyped, PutState
  <2>6. PutsTyped'
    <3>1. queue' \in Seq(Puts)
      BY <2>2
    <3>2. [put[p] EXCEPT !.step = "queued"] \in PutState
      BY DEF BlossomInv, PutsTyped, PutState
    <3>3. put' \in [Puts -> PutState]
      BY <1>3, <3>2 DEF Put, BlossomInv, PutsTyped
    <3> QED  BY <1>1, <3>1, <3>3 DEF BlossomInv, PutsTyped
  <2>7. TakenOK' /\ AnswersAreTrue'
    BY <1>1, <2>5 DEF BlossomInv, TakenOK, AnswersAreTrue
  <2> QED  BY <2>4, <2>6, <2>7 DEF BlossomInv
<1>4. CASE Sign(p)
  <2> DEFINE q == [put[p] EXCEPT !.step = "uploading", !.waiting = put[p].targets]
  <2>1. Served(p) /\ put' = [put EXCEPT ![p] = q] /\ UNCHANGED queue
    BY <1>4 DEF Sign, Served, BlossomInv, PutsTyped
  <2>2. q \in PutState /\ q.answer = put[p].answer /\ q.ok = put[p].ok
    BY <2>1, ServedFacts DEF PutState
  <2> HIDE DEF q
  <2>3. q.ok => HashOf[p] \in accepted'
    BY <1>1, <2>1, <2>2, ServedFacts
  <2> QED  BY <1>1, <1>2, <2>1, <2>2, <2>3, ServedFacts, GoesOn
<1>5. CASE SignFails(p)
  <2>1. Served(p) /\ Settle(p, "failed")
    BY <1>5 DEF SignFails, Served
  <2> QED  BY <1>1, <1>2, <2>1, ServedFacts, SettleSafe
<1> QED  BY <1>3, <1>4, <1>5

(* An upload that succeeds was taken, and one that failed may have been. *)
LEMMA UploadSafe ==
    ASSUME BlossomInv, NEW p \in Puts, NEW s \in WriteServers,
           Uploaded(p, s) \/ UploadFails(p, s)
    PROVE  BlossomInv'
<1>1. Served(p)
  BY DEF Uploaded, UploadFails, Served
<1>2. PICK ok \in BOOLEAN, fresh \in BOOLEAN :
         /\ Answered(p, s, ok, fresh)
         /\ Store(p, s) \/ (~ok /\ UNCHANGED <<stored, accepted>>)
  <2>1. CASE Uploaded(p, s)
    <3> DEFINE new == HashOf[p] \notin stored[s]
    <3>1. new \in BOOLEAN /\ Answered(p, s, TRUE, new) /\ Store(p, s)
      BY <2>1 DEF Uploaded
    <3> HIDE DEF new
    <3> QED  BY <3>1
  <2>2. CASE UploadFails(p, s)
    BY <2>2 DEF UploadFails
  <2> QED  BY <2>1, <2>2
<1>3. accepted \subseteq accepted' /\ (ok => HashOf[p] \in accepted')
  BY <1>2 DEF Store
<1>4. stored' \in [Servers -> SUBSET Hashes] /\ \A t \in Servers : stored'[t] \subseteq accepted'
  BY <1>1, <1>2, ServedFacts DEF Store, BlossomInv, PutsTyped, TakenOK
<1> DEFINE q == [put[p] EXCEPT !.waiting = @ \ {s}, !.ok = @ \/ ok, !.fresh = @ \/ fresh]
<1>5. /\ q \in PutState /\ q.answer = put[p].answer /\ q.step = put[p].step
      /\ q.ok = (put[p].ok \/ ok)
  BY <1>1, ServedFacts DEF PutState
<1>6. q.ok => HashOf[p] \in accepted'
  BY <1>1, <1>3, <1>5, ServedFacts
<1>7. CASE q.waiting # {}
  <2>1. put' = [put EXCEPT ![p] = q] /\ UNCHANGED <<queue, attempts>>
    BY <1>2, <1>7 DEF Answered
  <2> HIDE DEF q
  <2> QED  BY <1>1, <1>3, <1>4, <1>5, <1>6, <2>1, ServedFacts, GoesOn
<1>8. CASE q.waiting = {} /\ q.ok
  <2> DEFINE answer == IF q.fresh THEN "true" ELSE "false"
  <2>1. Settle(p, answer) /\ clearHashFailure(HashOf[p])
    BY <1>2, <1>8 DEF Answered
  <2>2. answer \in {"true", "false", "failed"}
    OBVIOUS
  <2> HIDE DEF q, answer
  <2> QED  BY <1>1, <1>3, <1>4, <1>6, <1>8, <2>1, <2>2, ServedFacts, SettleSafe
<1>9. CASE q.waiting = {} /\ ~q.ok
  <2>1. Settle(p, "failed") /\ recordHashFailure(HashOf[p])
    BY <1>2, <1>9 DEF Answered
  <2> HIDE DEF q
  <2> QED  BY <1>1, <1>3, <1>4, <2>1, ServedFacts, SettleSafe
<1> QED  BY <1>7, <1>8, <1>9

-----------------------------------------------------------------------------
(* Initially nothing is stored, asked or answered. *)
LEMMA BlossomInit == Init => BlossomInv
<1> SUFFICES ASSUME Init  PROVE BlossomInv
  OBVIOUS
<1>1. Put0 \in PutState
  BY DEF Put0, PutState
<1>2. 0 \in 0..MaxAttempts
  BY BlossomAssumption
<1>3. PutsTyped
  BY <1>1, <1>2 DEF Init, PutsTyped
<1>4. \A p \in Puts : put[p].step = "idle" /\ ~put[p].ok /\ put[p].answer = "none"
  BY DEF Init, Put0
<1>5. \A s \in Servers : stored[s] = {}
  BY DEF Init
<1> QED  BY <1>3, <1>4, <1>5 DEF BlossomInv, ServedOK, Served, TakenOK, AnswersAreTrue

(* Every step keeps the invariant: one case per operation. *)
LEMMA BlossomStep == BlossomInv /\ [Next]_vars => BlossomInv'
<1> SUFFICES ASSUME BlossomInv, [Next]_vars  PROVE BlossomInv'
  OBVIOUS
<1>1. ASSUME NEW p \in Puts, Put(p) \/ PutStep(p)  PROVE BlossomInv'
  BY <1>1, SignSafe, BeginSafe, CheckSafe, UploadSafe DEF PutStep, CheckStep
<1>2. ASSUME NEW g \in Gets, Get(g) \/ GetStep(g)  PROVE BlossomInv'
  <2>1. UNCHANGED <<stored, accepted, attempts, queue, put>>
    BY <1>2 DEF Get, GetStep, Reply
  <2> QED  BY <2>1, Elsewhere DEF BlossomInv, PutsTyped
<1>3. ASSUME NEW h \in Hashes, Delete(h)  PROVE BlossomInv'
  <2>1. First \in Servers
    BY BlossomAssumption DEF Servers
  <2>2. /\ stored' \in [Servers -> SUBSET Hashes]
        /\ \A s \in Servers : stored'[s] \subseteq stored[s]
    BY <1>3, <2>1 DEF Delete, BlossomInv, PutsTyped
  <2> QED  BY <1>3, <2>2, Elsewhere DEF Delete
<1>4. ASSUME NEW s \in Servers, BackoffEnds(s) \/ (s \in ReadServers /\ Has(s))
      PROVE  BlossomInv'
  <2>1. UNCHANGED <<stored, accepted, attempts, queue, put>>
    BY <1>4 DEF BackoffEnds, Has
  <2> QED  BY <2>1, Elsewhere DEF BlossomInv, PutsTyped
<1>5. CASE UNCHANGED vars
  BY <1>5, Elsewhere DEF vars, BlossomInv, PutsTyped
<1> QED  BY <1>1, <1>2, <1>3, <1>4, <1>5 DEF Next, Servers

(***************************************************************************)
(* What put() answers is so: true and false stand for a blob that a write  *)
(* server has taken, unless the hash was given up.                         *)
(***************************************************************************)
THEOREM PutsAnswerTruly == Spec => []AnswersAreTrue
<1>1. BlossomInv => AnswersAreTrue
  BY DEF BlossomInv
<1> QED  BY <1>1, BlossomInit, BlossomStep, PTL DEF Spec
=============================================================================
