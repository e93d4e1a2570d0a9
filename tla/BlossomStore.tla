---------------------------- MODULE BlossomStore ----------------------------
(***************************************************************************)
(* The client of Blossom blob servers                                      *)
(* (packages/hashtree/src/store/blossom.ts): puts are queued and served    *)
(* one after another, each uploaded to all write servers that are not      *)
(* backed off; gets ask all read servers that are not backed off at once.  *)
(*                                                                         *)
(* A server that errs is avoided for a while (the length of the pause, up  *)
(* to a minute, is left out); a hash whose put failed MaxAttempts times is *)
(* given up for good.  Data that does not match its hash is refused before *)
(* anything else and left out.                                             *)
(***************************************************************************)
EXTENDS Naturals, Sequences, FiniteSets

CONSTANTS
    WriteServers, ReadServers,
    First,          \* the write server that is configured first
    Puts, Gets,     \* calls
    Hashes,
    HashOf,         \* [Puts \cup Gets -> Hashes]
    Large,          \* hashes of blobs of 256 KB or more
    MaxAttempts,    \* 4
    MaxFaults       \* bound on the errors of servers and signer

Servers == WriteServers \cup ReadServers

ASSUME BlossomAssumption ==
    /\ First \in WriteServers
    /\ HashOf \in [Puts \cup Gets -> Hashes]
    /\ Large \subseteq Hashes
    /\ MaxAttempts \in Nat \ {0} /\ MaxFaults \in Nat

VARIABLES
    stored,     \* [Servers -> SUBSET Hashes]: what the servers hold
    accepted,   \* hashes that some write server has ever taken
    backoff,    \* serverHealth: servers that are avoided
    attempts,   \* hashAttempts: failed puts of each hash
    queue,      \* writeQueue: puts that wait, the head being served
    put,        \* the state of each put
    get,        \* the state of each get
    faults      \* errors so far

vars == <<stored, accepted, backoff, attempts, queue, put, get, faults>>

-----------------------------------------------------------------------------
Put0 == [step |-> "idle", targets |-> {}, waiting |-> {}, ok |-> FALSE,
         fresh |-> FALSE, answer |-> "none"]
Get0 == [step |-> "idle", waiting |-> {}, answer |-> "none"]

(* Every variable in its range; the head of the queue is the only put that is
   being served, and the others wait. *)
TypeOK ==
    /\ stored \in [Servers -> SUBSET Hashes]
    /\ accepted \subseteq Hashes /\ backoff \subseteq Servers
    /\ attempts \in [Hashes -> 0..MaxAttempts]
    /\ \A p \in Puts :
          /\ put[p].step \in {"idle", "queued", "checking", "signing", "uploading", "done"}
          /\ put[p].waiting \subseteq WriteServers /\ put[p].targets \subseteq WriteServers
          /\ put[p].answer \in {"none", "true", "false", "failed"}
          /\ put[p].step \notin {"idle", "done"} <=> \E i \in 1..Len(queue) : queue[i] = p
          /\ put[p].step \in {"checking", "signing", "uploading"} => p = Head(queue)
    /\ get \in [Gets -> [step : {"idle", "asking", "done"}, waiting : SUBSET ReadServers,
                         answer : {"none", "data", "null"}]]
    /\ faults \in 0..MaxFaults

Init ==
    /\ stored = [s \in Servers |-> {}] /\ accepted = {}
    /\ backoff = {} /\ attempts = [h \in Hashes |-> 0]
    /\ queue = <<>> /\ put = [p \in Puts |-> Put0]
    /\ get = [g \in Gets |-> Get0]
    /\ faults = 0

-----------------------------------------------------------------------------
Fault == faults < MaxFaults /\ faults' = faults + 1
NoFault == UNCHANGED faults

recordError(s) == backoff' = backoff \cup {s}
recordSuccess(s) == backoff' = backoff \ {s}

BackoffEnds(s) ==
    /\ s \in backoff
    /\ backoff' = backoff \ {s}
    /\ UNCHANGED <<stored, accepted, attempts, queue, put, get, faults>>

-----------------------------------------------------------------------------
(********************************** put() **********************************)

(* Mutant: a put that throws breaks the chain of the queue. *)
SettleBreaks(p, answer) ==
    /\ put' = [put EXCEPT ![p] = [Put0 EXCEPT !.step = "done", !.answer = answer]]
    /\ queue' = IF answer = "failed" THEN queue ELSE Tail(queue)

(* The head of the queue is answered and the next put may begin. *)
Settle(p, answer) ==
    /\ put' = [put EXCEPT ![p] = [Put0 EXCEPT !.step = "done", !.answer = answer]]
    /\ queue' = Tail(queue)

recordHashFailure(h) == attempts' = [attempts EXCEPT ![h] = @ + 1]
clearHashFailure(h) == attempts' = [attempts EXCEPT ![h] = 0]

Put(p) ==
    /\ put[p].step = "idle"
    /\ put' = [put EXCEPT ![p].step = "queued"]
    /\ queue' = Append(queue, p)
    /\ UNCHANGED <<stored, accepted, backoff, attempts, get, faults>>

(* doPut() up to its first request.  The servers to upload to are chosen
   here; whether they are backed off is not looked at again. *)
Begin(p) ==
    LET h == HashOf[p]
        targets == WriteServers \ backoff
    IN  /\ queue # <<>> /\ p = Head(queue) /\ put[p].step = "queued"
        /\ IF attempts[h] >= MaxAttempts
           THEN Settle(p, "false") /\ UNCHANGED attempts
           ELSE IF targets = {}
           THEN Settle(p, "failed") /\ recordHashFailure(h)
           ELSE /\ put' = [put EXCEPT ![p].targets = targets, ![p].waiting = WriteServers,
                               ![p].step = IF h \in Large THEN "checking" ELSE "signing"]
                /\ UNCHANGED <<queue, attempts>>
        /\ UNCHANGED <<stored, accepted, backoff, get, faults>>

(* The next server of hasOnWriteServers(), in some order, does not have it. *)
PassOver(p, s) ==
    LET left == put[p].waiting \ {s}
    IN  put' = [put EXCEPT ![p].waiting = IF left = {} THEN WriteServers ELSE left,
                           ![p].step = IF left = {} THEN "signing" ELSE "checking"]

(* A large blob is looked up on the write servers first, and one that has it
   is enough. *)
Check(p, s) ==
    /\ put[p].step = "checking" /\ s \in put[p].waiting
    /\ \/ /\ s \in backoff
          /\ PassOver(p, s) /\ NoFault
          /\ UNCHANGED <<backoff, queue>>
       \/ /\ s \notin backoff /\ HashOf[p] \in stored[s]
          /\ Settle(p, "false") /\ recordSuccess(s) /\ NoFault
       \/ /\ s \notin backoff       \* 404, or another status below 500
          /\ PassOver(p, s) /\ NoFault
          /\ UNCHANGED <<backoff, queue>>
       \/ /\ s \notin backoff
          /\ PassOver(p, s) /\ recordError(s) /\ Fault
          /\ UNCHANGED queue
    /\ UNCHANGED <<stored, accepted, attempts, get>>

(* createAuthHeader() *)
Sign(p) ==
    /\ put[p].step = "signing"
    /\ put' = [put EXCEPT ![p].step = "uploading", ![p].waiting = put[p].targets]
    /\ UNCHANGED <<stored, accepted, backoff, attempts, queue, get, faults>>

SignFails(p) ==
    /\ put[p].step = "signing"
    /\ Settle(p, "failed") /\ Fault
    /\ UNCHANGED <<stored, accepted, backoff, attempts, get>>

(* Mutant: settled uploads are counted instead of fulfilled ones. *)
AnsweredAllSettled(p, s, ok, fresh) ==
    LET left == put[p].waiting \ {s}
    IN  IF left # {}
        THEN put' = [put EXCEPT ![p].waiting = left] /\ UNCHANGED <<queue, attempts>>
        ELSE Settle(p, "true") /\ clearHashFailure(HashOf[p])

(* Server s answered the upload; after the last answer the put settles. *)
Answered(p, s, ok, fresh) ==
    LET q == [put[p] EXCEPT !.waiting = @ \ {s}, !.ok = @ \/ ok, !.fresh = @ \/ fresh]
    IN  IF q.waiting # {}
        THEN put' = [put EXCEPT ![p] = q] /\ UNCHANGED <<queue, attempts>>
        ELSE IF q.ok
        THEN Settle(p, IF q.fresh THEN "true" ELSE "false") /\ clearHashFailure(HashOf[p])
        ELSE Settle(p, "failed") /\ recordHashFailure(HashOf[p])

Store(p, s) ==
    /\ stored' = [stored EXCEPT ![s] = @ \cup {HashOf[p]}]
    /\ accepted' = accepted \cup {HashOf[p]}

(* 200, or 409 when the server has the blob. *)
Uploaded(p, s) ==
    /\ put[p].step = "uploading" /\ s \in put[p].waiting
    /\ Store(p, s)
    /\ Answered(p, s, TRUE, HashOf[p] \notin stored[s])
    /\ recordSuccess(s)
    /\ UNCHANGED <<get, faults>>

(* An error, or an answer that was lost after the blob was stored. *)
UploadFails(p, s) ==
    /\ put[p].step = "uploading" /\ s \in put[p].waiting
    /\ Store(p, s) \/ UNCHANGED <<stored, accepted>>
    /\ Answered(p, s, FALSE, FALSE)
    /\ recordError(s) /\ Fault
    /\ UNCHANGED get

(* delete(): from the first write server alone, beside the queue. *)
Delete(h) ==
    /\ h \in stored[First]
    /\ stored' = [stored EXCEPT ![First] = @ \ {h}]
    /\ UNCHANGED <<accepted, backoff, attempts, queue, put, get, faults>>

-----------------------------------------------------------------------------
(********************************** get() **********************************)

(* A caller that was answered null may ask again. *)
Get(g) ==
    LET asked == ReadServers \ backoff
    IN  /\ get[g].step = "idle" \/ (get[g].step = "done" /\ get[g].answer = "null")
        /\ get[g].waiting = {}
        /\ get' = [get EXCEPT ![g] =
               IF asked = {} THEN [Get0 EXCEPT !.step = "done", !.answer = "null"]
               ELSE [Get0 EXCEPT !.step = "asking", !.waiting = asked]]
        /\ UNCHANGED <<stored, accepted, backoff, attempts, queue, put, faults>>

(* Mutant: the first reply answers, whatever it is. *)
RepliedFirst(g, s, data) ==
    get' = [get EXCEPT ![g] =
        [step |-> "done", waiting |-> @.waiting \ {s},
         answer |-> IF @.answer # "none" THEN @.answer
                    ELSE IF data THEN "data" ELSE "null"]]

(* The first server that has the blob answers for all; null needs them all. *)
Replied(g, s, data) ==
    LET left == get[g].waiting \ {s}
        answer == IF get[g].answer = "data" \/ data THEN "data"
                  ELSE IF left = {} THEN "null" ELSE "none"
    IN  get' = [get EXCEPT ![g] =
            [step |-> IF answer = "none" THEN "asking" ELSE "done",
             waiting |-> left, answer |-> answer]]

Reply(g, s) ==
    /\ s \in get[g].waiting
    /\ \/ /\ HashOf[g] \in stored[s]
          /\ Replied(g, s, TRUE) /\ recordSuccess(s) /\ NoFault
       \/ /\ HashOf[g] \notin stored[s]
          /\ Replied(g, s, FALSE) /\ NoFault /\ UNCHANGED backoff
       \/ Replied(g, s, FALSE) /\ recordError(s) /\ Fault
    /\ UNCHANGED <<stored, accepted, attempts, queue, put>>

(* has() asks the read servers one by one; it leaves no trace but in their
   health.  (An answer that comes after a pause began ends it.) *)
Has(s) ==
    /\ \/ recordSuccess(s) /\ NoFault /\ stored[s] # {} /\ s \in backoff
       \/ recordError(s) /\ Fault
    /\ UNCHANGED <<stored, accepted, attempts, queue, put, get>>

-----------------------------------------------------------------------------
CheckStep(p) == \E s \in WriteServers : Check(p, s)

PutStep(p) ==
    \/ Begin(p) \/ CheckStep(p) \/ Sign(p) \/ SignFails(p)
    \/ \E s \in WriteServers : Uploaded(p, s) \/ UploadFails(p, s)

GetStep(g) == \E s \in ReadServers : Reply(g, s)

Next ==
    \/ \E p \in Puts : Put(p) \/ PutStep(p)
    \/ \E g \in Gets : Get(g) \/ GetStep(g)
    \/ \E h \in Hashes : Delete(h)
    \/ \E s \in ReadServers : Has(s)
    \/ \E s \in Servers : BackoffEnds(s)

Spec == Init /\ [][Next]_vars

(* The next put of the queue begins; a lookup or a get is answered or times
   out; pauses end, and callers ask again.  Neither a signature nor an upload
   has a timeout, and nothing is assumed of them. *)
FairSpec ==
    /\ Spec
    /\ \A p \in Puts : WF_vars(Begin(p)) /\ WF_vars(CheckStep(p))
    /\ \A g \in Gets : WF_vars(GetStep(g)) /\ WF_vars(Get(g))
    /\ \A s \in Servers : WF_vars(BackoffEnds(s))

-----------------------------------------------------------------------------
(****************************** Properties *********************************)

(* What a put answers is so: "true" and "false" stand for a blob that a write
   server has taken, whichever servers failed, lost their answer or were
   backed off meanwhile.  The exception is a hash that was given up, which is
   never tried again. *)
AnswersAreTrue ==
    \A p \in Puts :
       /\ put[p].answer = "true" => HashOf[p] \in accepted
       /\ put[p].answer = "false" =>
             HashOf[p] \in accepted \/ attempts[HashOf[p]] = MaxAttempts

(* put() returns "true if newly stored, false if already existed". *)
FalseMeansExisted ==
    \A p \in Puts : put[p].answer = "false" => HashOf[p] \in accepted

(* A put that waits for its signature or for the answer to an upload for ever. *)
Hangs(p) == <>[](put[p].step \in {"signing", "uploading"})

(* A put that fails, is refused or given up does not hold up the ones behind
   it: each is answered, unless the one that is served hangs.  That one holds
   up all others, as writeQueue waits for it and nothing aborts it. *)
PutsSettle ==
    \A p \in Puts :
       (put[p].step = "queued" ~> put[p].step = "done") \/ \E q \in Puts : Hangs(q)

(* A reader that keeps asking gets a blob that stays on a read server, though
   servers err, are backed off and other servers answer that they have none. *)
RetriesFind ==
    \A g \in Gets :
       (\E s \in ReadServers : <>[](HashOf[g] \in stored[s])) => <>(get[g].answer = "data")

=============================================================================
