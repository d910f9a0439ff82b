------------------------ MODULE EngineQueues_proofs ------------------------
(***************************************************************************)
(* Proofs about Engine in every configuration, swap, prefix caching and    *)
(* memory errors included: which queue and which batch a request is in,    *)
(* how far its computation has got, when its end is reported, and that the *)
(* engine implements Generation.                                           *)
(***************************************************************************)
EXTENDS Engine, TLAPS, FiniteSetTheorems

----------------------------------------------------------------------------
(***************************************************************************)
(* The inductive invariant.                                                *)
(***************************************************************************)

Live(r) == status[r] \in {"waiting", "running"}
InBatch(r) == Contains(prefillBatch, r) \/ Contains(decodeBatch, r)

QueueTypes ==
  /\ waiting \in Seq(Requests) /\ running \in Seq(Requests)
  /\ prefillBatch \in Seq(Requests) /\ decodeBatch \in Seq(Requests)
  /\ pendingAborts \in Seq(Requests)
  /\ pc \in {"idle", "swapIns", "prefill", "decode", "drain", "runPrefill", "postPrefill",
             "oomPrefill", "runDecode", "postDecode", "oomDecode", "crashed"}
  /\ stepMode \in {"separate", "combined", "unified"}

ProgressTypes ==
  /\ status \in [Requests ->
       {"new", "rejected", "waiting", "running", "finished", "aborted"}]
  /\ tokenIds \in [Requests -> Seq(Token)]
  /\ numCached \in [Requests -> Nat]
  /\ numScheduled \in [Requests -> Nat]
  /\ numSwapped \in [Requests -> Nat]
  /\ numPrompt \in [Requests -> Nat]
  /\ reported \in [Requests -> Nat]
  /\ numBatchTokens \in Int
  /\ \/ call = NoCall
     \/ call.op = "allocate" /\ call.seq \in Requests /\ call.cached \in Nat
     \/ call.op = "deallocate" /\ call.seq \in Requests

\* No request is twice in a queue or in a batch, nor in both batches.
NoDuplicates ==
  /\ IsInjective(waiting) /\ IsInjective(running)
  /\ IsInjective(prefillBatch) /\ IsInjective(decodeBatch)
  /\ \A r \in Requests : ~(Contains(prefillBatch, r) /\ Contains(decodeBatch, r))

\* The decode loop keeps the running requests it has dealt with in its batch.
Runs(r) == Contains(running, r) \/ (pc = "decode" /\ Contains(decodeBatch, r))

\* The queue a request is in is the one its status names.
QueueOfStatus ==
  \A r \in Requests :
    /\ Contains(waiting, r) <=> status[r] = "waiting"
    /\ Runs(r) <=> status[r] = "running"
    /\ pc = "decode" => ~(Contains(running, r) /\ Contains(decodeBatch, r))
    /\ Contains(prefillBatch, r) => Live(r)
    /\ Contains(decodeBatch, r) => status[r] = "running"

\* In which loops there may be a batch.
BatchesInPhase ==
  /\ pc \in {"idle", "swapIns", "decode", "runDecode", "postDecode", "oomDecode", "crashed"}
       => prefillBatch = << >>
  /\ pc \in {"idle", "swapIns", "crashed"} => decodeBatch = << >>
  /\ stepMode = "separate" /\ pc = "prefill" => decodeBatch = << >>
  /\ stepMode = "unified" /\ pc \notin {"decode", "prefill"} => decodeBatch = << >>

\* A request in a batch has positions to compute, any other live one has none.
ScheduledInBatch ==
  \A r \in Requests :
    /\ InBatch(r) => numScheduled[r] > 0
    /\ Live(r) /\ ~InBatch(r) => numScheduled[r] = 0
    /\ status[r] = "new" => numScheduled[r] = 0
    /\ Contains(prefillBatch, r) /\ status[r] = "waiting"
         => numCached[r] + numScheduled[r] < NumTokens(r)

\* The call in progress is not for a request of a batch.
CallOutsideBatch ==
  call.op # "none" =>
    /\ ~InBatch(call.seq)
    /\ call.op = "allocate" =>
         Live(call.seq) /\ call.cached < NumTokens(call.seq)

\* The last token of a request is never computed ahead of its turn.
TokensLeft ==
  \A r \in Requests :
    /\ numCached[r] < NumTokens(r)
    /\ numSwapped[r] < NumTokens(r)
    /\ numCached[r] + numScheduled[r] <= NumTokens(r)

\* A request that has not ended has room for one more token.
LengthBounds ==
  \A r \in Requests :
    /\ numPrompt[r] <= NumTokens(r)
    /\ status[r] = "new" => numPrompt[r] = NumTokens(r)
    /\ Live(r) => NumTokens(r) - numPrompt[r] < MaxTokens /\ numPrompt[r] <= MaxModelLen

\* What ended is reported, or waits in pending_aborts to be drained in this step.
Reports ==
  \A r \in Requests :
    /\ reported[r] > 0 => Ended(r)
    /\ Contains(pendingAborts, r) => status[r] = "aborted"
    /\ Ended(r) => reported[r] > 0 \/
         /\ Contains(pendingAborts, r)
         /\ pc = "drain" \/ (pc = "prefill" /\ stepMode # "separate")

QueueInv ==
  /\ QueueTypes /\ ProgressTypes /\ NoDuplicates /\ QueueOfStatus /\ BatchesInPhase
  /\ ScheduledInBatch /\ CallOutsideBatch /\ TokensLeft /\ LengthBounds /\ Reports

----------------------------------------------------------------------------
(***************************************************************************)
(* Queues: what Append, Tail, Front, RemoveFirst, ... do to the requests   *)
(* in a queue without duplicates.                                          *)
(***************************************************************************)

\* An empty queue contains nothing.
LEMMA EmptyQueue ==
  ASSUME NEW R
  PROVE  << >> \in Seq(R) /\ IsInjective(<< >>) /\ \A r : ~Contains(<< >>, r)
BY DEF IsInjective, Contains

\* A queue that contains something is not empty, and what it contains is a request.
LEMMA InQueue ==
  ASSUME NEW R, NEW s \in Seq(R)
  PROVE  /\ \A r : Contains(s, r) => r \in R /\ s # << >>
         /\ \A i \in 1 .. Len(s) : Contains(s, s[i])
         /\ s # << >> => Head(s) \in R /\ Contains(s, Head(s))
BY DEF Contains

\* Append adds one request at the end of a queue.
LEMMA Appended ==
  ASSUME NEW R, NEW s \in Seq(R), NEW e \in R
  PROVE  /\ Append(s, e) \in Seq(R)
         /\ \A r : Contains(Append(s, e), r) <=> Contains(s, r) \/ r = e
         /\ IsInjective(s) /\ ~Contains(s, e) => IsInjective(Append(s, e))
<1> DEFINE t == Append(s, e)
<1>1. t \in Seq(R) /\ Len(t) = Len(s) + 1 /\ DOMAIN t = 1 .. Len(s) + 1 /\ DOMAIN s = 1 .. Len(s)
  OBVIOUS
<1>2. \A i \in 1 .. Len(s) : t[i] = s[i]
  OBVIOUS
<1>3. t[Len(s) + 1] = e
  OBVIOUS
<1> HIDE DEF t
<1>4. \A r : Contains(t, r) <=> Contains(s, r) \/ r = e
  BY <1>1, <1>2, <1>3 DEF Contains
<1>5. ASSUME IsInjective(s), ~Contains(s, e) PROVE IsInjective(t)
  BY <1>1, <1>2, <1>3, <1>5 DEF Contains, IsInjective
<1> QED BY <1>1, <1>4, <1>5 DEF t

\* Concatenation of disjoint queues.
LEMMA Joined ==
  ASSUME NEW R, NEW s \in Seq(R), NEW t \in Seq(R)
  PROVE  /\ s \o t \in Seq(R)
         /\ \A r : Contains(s \o t, r) <=> Contains(s, r) \/ Contains(t, r)
         /\ IsInjective(s) /\ IsInjective(t) /\ (\A r \in R : ~(Contains(s, r) /\ Contains(t, r)))
            => IsInjective(s \o t)
<1> DEFINE u == s \o t
<1>1. u \in Seq(R) /\ Len(u) = Len(s) + Len(t) /\ DOMAIN u = 1 .. Len(s) + Len(t)
      /\ DOMAIN s = 1 .. Len(s) /\ DOMAIN t = 1 .. Len(t) /\ Len(s) \in Nat /\ Len(t) \in Nat
  OBVIOUS
<1>2. \A i \in 1 .. Len(s) : u[i] = s[i]
  OBVIOUS
<1>3. \A i \in 1 .. Len(t) : u[Len(s) + i] = t[i]
  OBVIOUS
<1>a. \A i \in Len(s) + 1 .. Len(s) + Len(t) : u[i] = t[i - Len(s)] /\ i - Len(s) \in 1 .. Len(t)
  OBVIOUS
<1> HIDE DEF u
<1>4. ASSUME NEW r PROVE Contains(u, r) <=> Contains(s, r) \/ Contains(t, r)
  <2>1. ASSUME Contains(u, r) PROVE Contains(s, r) \/ Contains(t, r)
    <3>1. PICK i \in 1 .. Len(s) + Len(t) : u[i] = r
      BY <1>1, <2>1 DEF Contains
    <3>2. CASE i <= Len(s) BY <3>1, <3>2, <1>1, <1>2 DEF Contains
    <3>3. CASE i > Len(s) BY <3>1, <3>3, <1>1, <1>a DEF Contains
    <3> QED BY <3>2, <3>3, <1>1
  <2>2. ASSUME Contains(s, r) PROVE Contains(u, r)
    BY <1>1, <1>2, <2>2 DEF Contains
  <2>3. ASSUME Contains(t, r) PROVE Contains(u, r)
    <3>1. PICK i \in 1 .. Len(t) : t[i] = r BY <2>3 DEF Contains
    <3>2. Len(s) + i \in 1 .. Len(u) /\ u[Len(s) + i] = r BY <3>1, <1>1, <1>3
    <3> QED BY <3>2 DEF Contains
  <2> QED BY <2>1, <2>2, <2>3
<1>5. ASSUME IsInjective(s), IsInjective(t), \A r \in R : ~(Contains(s, r) /\ Contains(t, r)),
             NEW i \in DOMAIN u, NEW j \in DOMAIN u, u[i] = u[j]
      PROVE  i = j
  <2>1. CASE i <= Len(s) /\ j <= Len(s)
    BY <2>1, <1>1, <1>2, <1>5 DEF IsInjective
  <2>2. CASE i > Len(s) /\ j > Len(s)
    <3>1. i - Len(s) = j - Len(s) BY <2>2, <1>1, <1>a, <1>5 DEF IsInjective
    <3> QED BY <3>1, <1>1
  <2>3. CASE i <= Len(s) /\ j > Len(s)
    <3>1. i \in 1 .. Len(s) /\ u[i] = s[i] BY <2>3, <1>1, <1>2
    <3>2. j - Len(s) \in 1 .. Len(t) /\ u[j] = t[j - Len(s)] BY <2>3, <1>1, <1>a
    <3>3. u[i] \in R BY <3>1
    <3>4. Contains(s, u[i]) /\ Contains(t, u[j]) BY <3>1, <3>2 DEF Contains
    <3> QED BY <3>3, <3>4, <1>5
  <2>4. CASE i > Len(s) /\ j <= Len(s)
    <3>1. j \in 1 .. Len(s) /\ u[j] = s[j] BY <2>4, <1>1, <1>2
    <3>2. i - Len(s) \in 1 .. Len(t) /\ u[i] = t[i - Len(s)] BY <2>4, <1>1, <1>a
    <3>3. u[j] \in R BY <3>1
    <3>4. Contains(s, u[j]) /\ Contains(t, u[i]) BY <3>1, <3>2 DEF Contains
    <3> QED BY <3>3, <3>4, <1>5
  <2> QED BY <2>1, <2>2, <2>3, <2>4, <1>1
<1>6. IsInjective(s) /\ IsInjective(t) /\ (\A r \in R : ~(Contains(s, r) /\ Contains(t, r)))
      => IsInjective(u)
  BY <1>5 DEF IsInjective
<1> QED BY <1>1, <1>4, <1>6 DEF u

\* A request put in front of a queue.
LEMMA Pushed ==
  ASSUME NEW R, NEW s \in Seq(R), NEW e \in R
  PROVE  /\ <<e>> \o s \in Seq(R)
         /\ \A r : Contains(<<e>> \o s, r) <=> Contains(s, r) \/ r = e
         /\ IsInjective(s) /\ ~Contains(s, e) => IsInjective(<<e>> \o s)
<1> DEFINE u == <<e>>
<1>1. u \in Seq(R) /\ Len(u) = 1 /\ DOMAIN u = {1} /\ u[1] = e
  OBVIOUS
<1> HIDE DEF u
<1>2. IsInjective(u) BY <1>1 DEF IsInjective
<1>3. ASSUME NEW r PROVE Contains(u, r) <=> r = e
  <2>1. 1 .. Len(u) = {1} BY <1>1
  <2> QED BY <1>1, <2>1 DEF Contains
<1>4. \A r \in R : Contains(u, r) /\ Contains(s, r) => Contains(s, e) BY <1>3
<1>5. /\ u \o s \in Seq(R)
      /\ \A r : Contains(u \o s, r) <=> Contains(u, r) \/ Contains(s, r)
      /\ IsInjective(u) /\ IsInjective(s) /\ (\A r \in R : ~(Contains(u, r) /\ Contains(s, r)))
         => IsInjective(u \o s)
  BY <1>1, Joined
<1> QED BY <1>2, <1>3, <1>4, <1>5 DEF u

\* RemoveAt moves up what came later.
LEMMA MovedUp ==
  ASSUME NEW R, NEW s \in Seq(R), NEW k \in 1 .. Len(s)
  PROVE  /\ RemoveAt(s, k) \in Seq(R) /\ Len(RemoveAt(s, k)) = Len(s) - 1 /\ Len(s) \in Nat
         /\ \A i \in 1 .. k - 1 : RemoveAt(s, k)[i] = s[i]
         /\ \A i \in k .. Len(s) - 1 : RemoveAt(s, k)[i] = s[i + 1]
<1> DEFINE a == SubSeq(s, 1, k - 1)
           b == SubSeq(s, k + 1, Len(s))
           t == RemoveAt(s, k)
<1>a. a \in Seq(R) /\ Len(a) = k - 1 /\ \A i \in 1 .. k - 1 : a[i] = s[i]
  OBVIOUS
<1>b. b \in Seq(R) /\ Len(b) = Len(s) - k /\ \A i \in 1 .. Len(s) - k : b[i] = s[k + i]
  OBVIOUS
<1>c. t = a \o b BY DEF RemoveAt
<1>d. Len(s) \in Nat /\ DOMAIN s = 1 .. Len(s) OBVIOUS
<1> HIDE DEF a, b, t
<1>1. t \in Seq(R) /\ Len(t) = Len(s) - 1
  BY <1>a, <1>b, <1>c, <1>d
<1>2. \A i \in 1 .. k - 1 : t[i] = s[i]
  BY <1>a, <1>b, <1>c, <1>d
<1>3. \A i \in k .. Len(s) - 1 : t[i] = s[i + 1]
  BY <1>a, <1>b, <1>c, <1>d
<1> QED BY <1>1, <1>2, <1>3, <1>d DEF t

\* RemoveAt takes out the request at one place of a queue.
LEMMA Removed ==
  ASSUME NEW R, NEW s \in Seq(R), IsInjective(s), NEW k \in 1 .. Len(s)
  PROVE  /\ RemoveAt(s, k) \in Seq(R)
         /\ \A r : Contains(RemoveAt(s, k), r) <=> Contains(s, r) /\ r # s[k]
         /\ IsInjective(RemoveAt(s, k))
         /\ Len(RemoveAt(s, k)) = Len(s) - 1
<1> DEFINE t == RemoveAt(s, k)
<1>0. /\ t \in Seq(R) /\ Len(t) = Len(s) - 1 /\ Len(s) \in Nat
      /\ \A i \in 1 .. k - 1 : t[i] = s[i]
      /\ \A i \in k .. Len(s) - 1 : t[i] = s[i + 1]
  BY MovedUp
<1> HIDE DEF t
<1>1. t \in Seq(R) /\ Len(t) = Len(s) - 1 /\ DOMAIN t = 1 .. Len(s) - 1 /\ Len(s) \in Nat
      /\ DOMAIN s = 1 .. Len(s)
  BY <1>0
<1>2. \A i \in 1 .. k - 1 : t[i] = s[i] BY <1>0
<1>3. \A i \in k .. Len(s) - 1 : t[i] = s[i + 1] BY <1>0
<1>4. ASSUME NEW r PROVE Contains(t, r) <=> Contains(s, r) /\ r # s[k]
  <2>1. ASSUME Contains(t, r) PROVE Contains(s, r) /\ r # s[k]
    <3>1. PICK i \in 1 .. Len(s) - 1 : t[i] = r BY <2>1, <1>1 DEF Contains
    <3>2. CASE i < k BY <3>1, <3>2, <1>1, <1>2 DEF Contains, IsInjective
    <3>3. CASE i >= k
      <4>1. s[i + 1] = r /\ i + 1 \in 1 .. Len(s) /\ i + 1 # k BY <3>1, <3>3, <1>1, <1>3
      <4> QED BY <4>1, <1>1 DEF Contains, IsInjective
    <3> QED BY <3>2, <3>3, <1>1
  <2>2. ASSUME Contains(s, r), r # s[k] PROVE Contains(t, r)
    <3>1. PICK i \in 1 .. Len(s) : s[i] = r BY <2>2 DEF Contains
    <3>2. CASE i < k BY <3>1, <3>2, <1>1, <1>2 DEF Contains
    <3>3. CASE i > k
      <4>1. t[i - 1] = r /\ i - 1 \in 1 .. Len(t) BY <3>1, <3>3, <1>1, <1>3
      <4> QED BY <4>1 DEF Contains
    <3> QED BY <3>1, <3>2, <3>3, <2>2, <1>1
  <2> QED BY <2>1, <2>2
<1>5. ASSUME NEW i \in DOMAIN t, NEW j \in DOMAIN t, t[i] = t[j] PROVE i = j
  <2> DEFINE f(x) == IF x < k THEN x ELSE x + 1
  <2>1. \A x \in DOMAIN t : t[x] = s[f(x)] /\ f(x) \in DOMAIN s BY <1>1, <1>2, <1>3
  <2>2. f(i) = f(j) BY <2>1, <1>5 DEF IsInjective
  <2> QED BY <2>2, <1>1
<1>6. IsInjective(t) BY <1>5 DEF IsInjective
<1> QED BY <1>1, <1>4, <1>6 DEF t

\* Popping the first request of a queue.
LEMMA Popped ==
  ASSUME NEW R, NEW s \in Seq(R), IsInjective(s), s # << >>
  PROVE  /\ Tail(s) \in Seq(R) /\ Head(s) \in R
         /\ Contains(s, Head(s)) /\ ~Contains(Tail(s), Head(s))
         /\ \A r : Contains(Tail(s), r) <=> Contains(s, r) /\ r # Head(s)
         /\ IsInjective(Tail(s))
         /\ Len(Tail(s)) = Len(s) - 1
<1>0. SubSeq(s, 1, 0) = << >> /\ Tail(s) = SubSeq(s, 2, Len(s)) /\ Tail(s) \in Seq(R)
  OBVIOUS
<1>a. << >> \o Tail(s) = Tail(s) BY <1>0
<1>b. RemoveAt(s, 1) = << >> \o Tail(s) BY <1>0 DEF RemoveAt
<1>c. Head(s) = s[1] /\ 1 \in 1 .. Len(s)
  OBVIOUS
<1> DEFINE t == RemoveAt(s, 1)
<1>1. /\ t \in Seq(R) /\ IsInjective(t) /\ Len(t) = Len(s) - 1
      /\ \A r : Contains(t, r) <=> Contains(s, r) /\ r # s[1]
  BY <1>c, Removed
<1>2. Tail(s) = t BY <1>a, <1>b
<1>3. s[1] \in R /\ Contains(s, s[1]) BY <1>c DEF Contains
<1> HIDE DEF t
<1> QED BY <1>1, <1>2, <1>3, <1>c

\* Popping the last request of a queue.
LEMMA PoppedLast ==
  ASSUME NEW R, NEW s \in Seq(R), IsInjective(s), s # << >>
  PROVE  /\ Front(s) \in Seq(R) /\ Last(s) \in R /\ Contains(s, Last(s))
         /\ \A r : Contains(Front(s), r) <=> Contains(s, r) /\ r # Last(s)
         /\ IsInjective(Front(s))
         /\ Len(Front(s)) = Len(s) - 1
<1>0. SubSeq(s, Len(s) + 1, Len(s)) = << >> /\ SubSeq(s, 1, Len(s) - 1) \in Seq(R)
  OBVIOUS
<1>a. Front(s) \o << >> = Front(s) BY <1>0 DEF Front
<1>b. RemoveAt(s, Len(s)) = Front(s) \o << >> BY <1>0 DEF RemoveAt, Front
<1>c. Last(s) = s[Len(s)] /\ Len(s) \in 1 .. Len(s)
  BY DEF Last
<1> DEFINE t == RemoveAt(s, Len(s))
<1>1. /\ t \in Seq(R) /\ IsInjective(t) /\ Len(t) = Len(s) - 1
      /\ \A r : Contains(t, r) <=> Contains(s, r) /\ r # s[Len(s)]
  BY <1>c, Removed
<1>2. Front(s) = t BY <1>a, <1>b
<1>3. s[Len(s)] \in R /\ Contains(s, s[Len(s)]) BY <1>c DEF Contains
<1> HIDE DEF t
<1> QED BY <1>1, <1>2, <1>3, <1>c

\* deque.remove and popleft of the scheduler.
LEMMA FirstRemoved ==
  ASSUME NEW R, NEW s \in Seq(R), IsInjective(s), NEW e
  PROVE  /\ RemoveFirst(s, e) \in Seq(R)
         /\ \A r : Contains(RemoveFirst(s, e), r) <=> Contains(s, r) /\ r # e
         /\ IsInjective(RemoveFirst(s, e))
         /\ Len(RemoveFirst(s, e)) <= Len(s)
         /\ Contains(s, e) => Len(RemoveFirst(s, e)) = Len(s) - 1
         /\ \/ RemoveFirst(s, e) = s
            \/ \E k \in 1 .. Len(s) : RemoveFirst(s, e) = RemoveAt(s, k)
<1>1. CASE ~Contains(s, e)
  <2>1. RemoveFirst(s, e) = s BY <1>1 DEF RemoveFirst, Contains
  <2> QED BY <2>1, <1>1
<1>2. CASE Contains(s, e)
  <2>1. PICK k \in 1 .. Len(s) : s[k] = e BY <1>2 DEF Contains
  <2>2. {i \in 1 .. Len(s) : s[i] = e} = {k} BY <2>1 DEF IsInjective
  <2>3. Min({k}) = k BY DEF Min
  <2>4. RemoveFirst(s, e) = RemoveAt(s, k) BY <2>1, <2>2, <2>3 DEF RemoveFirst, SelectInSeq
  <2> QED BY <2>1, <2>4, Removed
<1> QED BY <1>1, <1>2

----------------------------------------------------------------------------
(***************************************************************************)
(* The invariant holds initially and every action keeps it.                *)
(***************************************************************************)

\* The invariant holds of an engine that starts.
LEMMA InitQueueInv == Init => QueueInv
<1> SUFFICES ASSUME Init PROVE QueueInv
  OBVIOUS
<1> USE DEF Init, SchedulerInit, BlockManagerInit
<1>e. IsInjective(<< >>) /\ \A r : ~Contains(<< >>, r)
  BY EmptyQueue
<1>t. \A r \in Requests : NumTokens(r) \in Nat /\ NumTokens(r) > 0 /\ tokenIds[r] \in Seq(Token)
  BY EngineAssumption DEF EngineAssumption, NumTokens
<1>1. QueueTypes BY SchedulerAssumption DEF QueueTypes, SchedulerAssumption
<1>2. ProgressTypes
  <2>1. tokenIds \in [Requests -> Seq(Token)] BY EngineAssumption DEF EngineAssumption
  <2>2. numPrompt \in [Requests -> Nat] BY <1>t
  <2> QED BY <2>1, <2>2 DEF ProgressTypes, NoCall
<1>3. NoDuplicates BY <1>e DEF NoDuplicates
<1>4. QueueOfStatus BY <1>e DEF QueueOfStatus, Runs, Live
<1>5. BatchesInPhase BY DEF BatchesInPhase
<1>6. ScheduledInBatch BY <1>e DEF ScheduledInBatch, InBatch, Live
<1>7. CallOutsideBatch BY DEF CallOutsideBatch, NoCall
<1>8. TokensLeft BY <1>t DEF TokensLeft
<1>9. LengthBounds BY <1>t DEF LengthBounds, Live
<1>10. Reports BY <1>e DEF Reports, Ended
<1> QED BY <1>1, <1>2, <1>3, <1>4, <1>5, <1>6, <1>7, <1>8, <1>9, <1>10 DEF QueueInv

\* A step from one loop to the next that moves no request.
LEMMA PhaseStep ==
  ASSUME QueueInv,
         UNCHANGED <<waiting, running, batchVars, pendingAborts, stepMode, status, tokenIds,
                     numCached, numScheduled, numSwapped, numPrompt, reported, call>>,
         pc' \in {"idle", "swapIns", "prefill", "decode", "drain", "runPrefill", "postPrefill",
                  "oomPrefill", "runDecode", "postDecode", "oomDecode", "crashed"},
         pc # "decode", pc' = "decode" => decodeBatch = << >>,
         BatchesInPhase',
         pc = "drain" \/ (pc = "prefill" /\ stepMode # "separate") => pc' = "drain"
  PROVE  QueueInv'
<1> USE DEF QueueInv, batchVars
<1>e. \A r : ~Contains(<< >>, r)
  BY EmptyQueue
<1>1. QueueTypes' BY DEF QueueTypes
<1>2. ProgressTypes' BY DEF ProgressTypes
<1>3. NoDuplicates' BY DEF NoDuplicates
<1>4. QueueOfStatus' BY <1>e DEF QueueOfStatus, Runs, Live
<1>6. ScheduledInBatch' BY DEF ScheduledInBatch, InBatch, Live, NumTokens
<1>7. CallOutsideBatch' BY DEF CallOutsideBatch, InBatch, Live, NumTokens
<1>8. TokensLeft' BY DEF TokensLeft, NumTokens
<1>9. LengthBounds' BY DEF LengthBounds, Live, NumTokens
<1>10. Reports' BY DEF Reports, Ended
<1> QED BY <1>1, <1>2, <1>3, <1>4, <1>6, <1>7, <1>8, <1>9, <1>10

\* step() begins with the swap-in loop.
LEMMA StartStepStep == ASSUME QueueInv, StartStep PROVE QueueInv'
<1> USE DEF StartStep, At, requestVars, bmVars, swapVars, batchVars
<1>1. BatchesInPhase' BY DEF QueueInv, BatchesInPhase
<1> QED BY <1>1, PhaseStep

\* The swap-in loop ends when nothing waiting can be restored.
LEMMA SwapInDoneStep ==
  ASSUME QueueInv, SwapInDone(AfterSwapIns), UNCHANGED <<reported, stepMode>>
  PROVE  QueueInv'
<1> USE DEF SwapInDone, At, bmVars, swapVars, batchVars
<1>1. pc = "swapIns" /\ pc' = AfterSwapIns /\ stepMode' = stepMode
  OBVIOUS
<1>2. AfterSwapIns \in {"prefill", "decode"}
  BY DEF AfterSwapIns, QueueInv, QueueTypes
<1>3. prefillBatch = << >> /\ decodeBatch = << >>
  BY <1>1 DEF QueueInv, BatchesInPhase
<1>4. BatchesInPhase' BY <1>1, <1>2, <1>3 DEF BatchesInPhase
<1> QED BY <1>1, <1>2, <1>3, <1>4, PhaseStep

\* A forward pass changes no queue, also one that runs out of memory.
LEMMA RunStep == ASSUME QueueInv, RunPrefill \/ RunDecode PROVE QueueInv'
<1> USE DEF requestVars, bmVars, swapVars, batchVars
<1>1. CASE RunPrefill
  <2>1. pc = "runPrefill" /\ pc' \in {"postPrefill", "oomPrefill"}
    BY <1>1 DEF RunPrefill, Run, At
  <2>2. BatchesInPhase' BY <1>1, <2>1 DEF QueueInv, BatchesInPhase, RunPrefill, Run
  <2> QED BY <1>1, <2>1, <2>2, PhaseStep DEF RunPrefill, Run
<1>2. CASE RunDecode
  <2>1. pc = "runDecode" /\ pc' \in {"postDecode", "oomDecode"}
    BY <1>2 DEF RunDecode, Run, At
  <2>2. BatchesInPhase' BY <1>2, <2>1 DEF QueueInv, BatchesInPhase, RunDecode, Run
  <2> QED BY <1>2, <2>1, <2>2, PhaseStep DEF RunDecode, Run
<1> QED BY <1>1, <1>2

\* An empty batch lets the step go on.
LEMMA EndBatchStep == ASSUME QueueInv, EndBatch PROVE QueueInv'
<1> USE DEF EndBatch, requestVars, bmVars, swapVars, batchVars
<1>1. BatchesInPhase' BY DEF QueueInv, BatchesInPhase
<1> QED BY <1>1, PhaseStep

\* The copies of a swap move no request.
LEMMA CopyStep == ASSUME QueueInv, CopyOut \/ CopyIn PROVE QueueInv'
<1>1. UNCHANGED <<waiting, running, batchVars, pendingAborts, stepMode, status, tokenIds,
                  numCached, numScheduled, numSwapped, numPrompt, reported, call, pc>>
      /\ pc = "drain"
  BY DEF CopyOut, CopyIn, At, requestVars, bmVars
<1>2. BatchesInPhase' BY <1>1 DEF QueueInv, BatchesInPhase, batchVars
<1> QED BY <1>1, <1>2, PhaseStep

\* add(): a request joins the end of waiting, or is rejected.
LEMMA AddRequestStep ==
  ASSUME QueueInv, NEW r \in Requests, AddRequest(r)
  PROVE  QueueInv'
<1> USE DEF QueueInv, batchVars, bmVars, swapVars
<1>0. /\ status[r] = "new" /\ pc = "idle" /\ Idle
      /\ UNCHANGED <<running, batchVars, pendingAborts, stepMode, tokenIds, pc,
                     numCached, numScheduled, numSwapped, numPrompt, reported, call>>
  BY DEF AddRequest, Add, At
<1>1. CASE TooLarge(r)
  <2>1. status' = [status EXCEPT ![r] = "rejected"] /\ waiting' = waiting
    BY <1>1 DEF AddRequest, Add
  <2>3. QueueTypes' BY <1>0, <2>1 DEF QueueTypes
  <2>4. ProgressTypes' BY <1>0, <2>1 DEF ProgressTypes
  <2>5. NoDuplicates' BY <1>0, <2>1 DEF NoDuplicates
  <2>6. QueueOfStatus' BY <1>0, <2>1 DEF QueueOfStatus, Runs, Live, ProgressTypes
  <2>7. BatchesInPhase' BY <1>0 DEF BatchesInPhase
  <2>8. ScheduledInBatch'
    BY <1>0, <2>1 DEF ScheduledInBatch, InBatch, Live, NumTokens, ProgressTypes
  <2>9. CallOutsideBatch' BY <1>0 DEF CallOutsideBatch, Idle, NoCall
  <2>10. TokensLeft' BY <1>0 DEF TokensLeft, NumTokens
  <2>11. LengthBounds' BY <1>0, <2>1 DEF LengthBounds, Live, NumTokens, ProgressTypes
  <2>12. Reports' BY <1>0, <2>1 DEF Reports, Ended, ProgressTypes
  <2> QED BY <2>3, <2>4, <2>5, <2>6, <2>7, <2>8, <2>9, <2>10, <2>11, <2>12
<1>2. CASE ~TooLarge(r)
  <2>1. status' = [status EXCEPT ![r] = "waiting"] /\ waiting' = Append(waiting, r)
    BY <1>2 DEF AddRequest, Add
  <2>2. /\ waiting' \in Seq(Requests) /\ IsInjective(waiting')
        /\ \A q : Contains(waiting', q) <=> Contains(waiting, q) \/ q = r
    BY <2>1, <1>0, Appended DEF QueueTypes, NoDuplicates, QueueOfStatus
  <2>3. QueueTypes' BY <1>0, <2>2 DEF QueueTypes
  <2>4. ProgressTypes' BY <1>0, <2>1 DEF ProgressTypes
  <2>5. NoDuplicates' BY <1>0, <2>2 DEF NoDuplicates
  <2>6. QueueOfStatus' BY <1>0, <2>1, <2>2 DEF QueueOfStatus, Runs, Live, ProgressTypes
  <2>7. BatchesInPhase' BY <1>0 DEF BatchesInPhase
  <2>8. ScheduledInBatch'
    BY <1>0, <2>1 DEF ScheduledInBatch, InBatch, Live, NumTokens, ProgressTypes, QueueOfStatus
  <2>9. CallOutsideBatch' BY <1>0 DEF CallOutsideBatch, Idle, NoCall
  <2>10. TokensLeft' BY <1>0 DEF TokensLeft, NumTokens
  <2>11. LengthBounds'
    BY <1>0, <1>2, <2>1, SchedulerAssumption
    DEF LengthBounds, Live, NumTokens, ProgressTypes, TooLarge, SchedulerAssumption
  <2>12. Reports' BY <1>0, <2>1 DEF Reports, Ended, ProgressTypes
  <2> QED BY <2>3, <2>4, <2>5, <2>6, <2>7, <2>8, <2>9, <2>10, <2>11, <2>12
<1> QED BY <1>1, <1>2

\* A request is restored: from waiting to the end of running.
LEMMA SwapInStep ==
  ASSUME QueueInv, SwapInNext, UNCHANGED <<reported, stepMode>>
  PROVE  QueueInv'
<1> USE DEF QueueInv, batchVars, bmVars, swapVars
<1>0. /\ pc = "swapIns" /\ Idle /\ prefillBatch = << >> /\ decodeBatch = << >>
      /\ UNCHANGED <<batchVars, pendingAborts, stepMode, tokenIds, pc, numCached, numPrompt,
                     reported>>
  BY DEF SwapInNext, At, BatchesInPhase
<1>1. PICK k \in 1 .. Len(waiting) : SwapIn(waiting[k]) /\ waiting' = RemoveAt(waiting, k)
  BY DEF SwapInNext
<1> DEFINE r == waiting[k]
<1>2. /\ r \in Requests /\ status[r] = "waiting" /\ ~InBatch(r)
      /\ status' = [status EXCEPT ![r] = "running"]
      /\ running' = Append(running, r)
      /\ numScheduled' = [numScheduled EXCEPT ![r] = 0]
      /\ numSwapped' = [numSwapped EXCEPT ![r] = 0]
      /\ call' = [op |-> "allocate", seq |-> r, hits |-> 0, target |-> Len(cpuTable[r]),
                  cached |-> numSwapped[r]]
  <2>1. Contains(waiting, r) /\ r \in Requests BY InQueue DEF QueueTypes
  <2>2. status[r] = "waiting" /\ ~InBatch(r)
    BY <2>1, <1>0, EmptyQueue DEF QueueOfStatus, InBatch
  <2> QED BY <1>1, <2>1, <2>2 DEF SwapIn, AllocateFreshBlocks, CallAllocate
<1> HIDE DEF r
<1>4. /\ waiting' \in Seq(Requests) /\ IsInjective(waiting')
      /\ \A q : Contains(waiting', q) <=> Contains(waiting, q) /\ q # r
  BY <1>1, Removed DEF QueueTypes, NoDuplicates, r
<1>5. /\ running' \in Seq(Requests) /\ IsInjective(running')
      /\ \A q : Contains(running', q) <=> Contains(running, q) \/ q = r
  BY <1>0, <1>2, Appended DEF QueueTypes, NoDuplicates, QueueOfStatus, Runs
<1>6. QueueTypes' BY <1>0, <1>4, <1>5 DEF QueueTypes
<1>7. ProgressTypes' BY <1>0, <1>2 DEF ProgressTypes
<1>8. NoDuplicates' BY <1>0, <1>4, <1>5 DEF NoDuplicates
<1>9. QueueOfStatus' BY <1>0, <1>2, <1>4, <1>5 DEF QueueOfStatus, Runs, Live, ProgressTypes
<1>10. BatchesInPhase' BY <1>0 DEF BatchesInPhase
<1>11. ScheduledInBatch'
  BY <1>0, <1>2 DEF ScheduledInBatch, InBatch, Live, NumTokens, ProgressTypes
<1>12. CallOutsideBatch'
  BY <1>0, <1>2 DEF CallOutsideBatch, InBatch, Live, NumTokens, ProgressTypes, TokensLeft
<1>13. TokensLeft' BY <1>0, <1>2 DEF TokensLeft, NumTokens, ProgressTypes
<1>14. LengthBounds' BY <1>0, <1>2 DEF LengthBounds, Live, NumTokens, ProgressTypes
<1>15. Reports' BY <1>0, <1>2 DEF Reports, Ended, ProgressTypes
<1> QED BY <1>6, <1>7, <1>8, <1>9, <1>10, <1>11, <1>12, <1>13, <1>14, <1>15

\* A chunk has at least one token and never more than are left or are allowed.
LEMMA ChunkBounds ==
  ASSUME NEW todo \in Nat \ {0}, numBatchTokens \in Int, Remaining > 0
  PROVE  Chunk(todo) \in 1 .. todo /\ Chunk(todo) <= Remaining
<1>1. ASSUME NEW a \in Nat \ {0}, NEW b \in Nat \ {0}, NEW c \in Nat \ {0}
      PROVE  Min({a, b, c}) \in 1 .. a /\ Min({a, b, c}) <= b
  <2>1. \E x \in {a, b, c} : \A y \in {a, b, c} : x =< y
    <3>1. CASE a =< b /\ a =< c BY <3>1
    <3>2. CASE b =< a /\ b =< c BY <3>2
    <3>3. CASE c =< a /\ c =< b BY <3>3
    <3> QED BY <3>1, <3>2, <3>3
  <2>2. Min({a, b, c}) \in {a, b, c} /\ \A y \in {a, b, c} : Min({a, b, c}) =< y
    BY <2>1 DEF Min
  <2> QED BY <2>2
<1>2. Remaining \in Nat \ {0} BY SchedulerAssumption DEF Remaining, SchedulerAssumption
<1>3. (IF ChunkPrefillTokens > 0 THEN ChunkPrefillTokens ELSE todo) \in Nat \ {0}
  BY SchedulerAssumption DEF SchedulerAssumption
<1> QED BY <1>1, <1>2, <1>3 DEF Chunk

\* The prefill loop works on waiting requests that it has not scheduled yet.
LEMMA CandidateIsWaiting ==
  ASSUME QueueInv, pc = "prefill", NEW r \in Requests, Candidate(r)
  PROVE  /\ status[r] = "waiting" /\ Contains(waiting, r) /\ ~InBatch(r)
         /\ ~Contains(running, r) /\ numScheduled[r] = 0
<1>0. PICK k \in DOMAIN waiting : waiting[k] = r /\ ~Contains(prefillBatch, r)
  BY DEF Candidate
<1>1. Contains(waiting, r) /\ ~Contains(prefillBatch, r)
  BY <1>0, InQueue DEF QueueInv, QueueTypes
<1>2. status[r] = "waiting" BY <1>1 DEF QueueInv, QueueOfStatus
<1>3. ~Contains(running, r) /\ ~Contains(decodeBatch, r)
  BY <1>2 DEF QueueInv, QueueOfStatus, Runs
<1> QED BY <1>1, <1>2, <1>3 DEF QueueInv, ScheduledInBatch, InBatch, Live

\* Every block before the last one of n tokens is full, and does not hold them all.
LEMMA LastBlockStarts ==
  ASSUME NEW n \in Nat, n > 0, NEW k \in Nat, k < BlocksFor(n)
  PROVE  k * BlockSize < n
  BY BlockSizeAssumption DEF BlocksFor

\* The prefill loop asks for the blocks of a waiting request.
LEMMA PrefillAllocateStep ==
  ASSUME QueueInv, PrefillAllocate, UNCHANGED <<reported, stepMode>>
  PROVE  QueueInv'
<1> USE DEF QueueInv, batchVars, bmVars, swapVars
<1>0. /\ pc = "prefill"
      /\ UNCHANGED <<waiting, running, batchVars, pendingAborts, stepMode, status, tokenIds,
                     numCached, numScheduled, numSwapped, numPrompt, reported, pc>>
  BY DEF PrefillAllocate, At
<1>1. PICK r \in Requests :
        /\ Candidate(r)
        /\ \E n \in 0 .. NumBlocks(r) - 1 : Allocate(r, n)
  BY DEF PrefillAllocate
<1>2. PICK n \in 0 .. NumBlocks(r) - 1 : Allocate(r, n)
  BY <1>1
<1>3. status[r] = "waiting" /\ ~InBatch(r)
  BY <1>0, <1>1, CandidateIsWaiting
<1>4. n * BlockSize \in Nat /\ n * BlockSize < NumTokens(r)
  <2>1. NumTokens(r) \in Nat /\ NumTokens(r) > 0 BY DEF ProgressTypes, TokensLeft, NumTokens
  <2>2. NumBlocks(r) \in Nat BY <2>1, BlockSizeAssumption DEF NumBlocks, BlocksFor
  <2>3. n \in Nat /\ n < BlocksFor(NumTokens(r)) BY <2>2 DEF NumBlocks
  <2>4. n * BlockSize \in Nat BY <2>3, BlockSizeAssumption
  <2> QED BY <2>1, <2>3, <2>4, LastBlockStarts
<1>5. call' = [op |-> "allocate", seq |-> r, hits |-> n, target |-> NumBlocks(r),
               cached |-> n * BlockSize]
  BY <1>2 DEF Allocate, CallAllocate
<1>6. call'.op = "allocate" /\ call'.seq = r /\ call'.cached = n * BlockSize
  BY <1>5
<1>7. QueueTypes' BY <1>0 DEF QueueTypes
<1>8. ProgressTypes' BY <1>0, <1>4, <1>6 DEF ProgressTypes
<1>9. NoDuplicates' BY <1>0 DEF NoDuplicates
<1>10. QueueOfStatus' BY <1>0 DEF QueueOfStatus, Runs, Live
<1>11. BatchesInPhase' BY <1>0 DEF BatchesInPhase
<1>12. ScheduledInBatch' BY <1>0 DEF ScheduledInBatch, InBatch, Live, NumTokens
<1>13. CallOutsideBatch'
  BY <1>0, <1>3, <1>4, <1>6 DEF CallOutsideBatch, InBatch, Live, NumTokens
<1>14. TokensLeft' BY <1>0 DEF TokensLeft, NumTokens
<1>15. LengthBounds' BY <1>0 DEF LengthBounds, Live, NumTokens
<1>16. Reports' BY <1>0 DEF Reports, Ended
<1> QED BY <1>7, <1>8, <1>9, <1>10, <1>11, <1>12, <1>13, <1>14, <1>15, <1>16

\* The prefill loop schedules a chunk of a waiting request, or all that is left of it.
LEMMA PrefillScheduleStep ==
  ASSUME QueueInv, PrefillSchedule, UNCHANGED <<reported, stepMode>>
  PROVE  QueueInv'
<1> USE DEF QueueInv, batchVars, bmVars, swapVars
<1>0. /\ pc = "prefill" /\ Idle /\ HasRoom
      /\ UNCHANGED <<decodeBatch, pendingAborts, stepMode, tokenIds, numCached, numSwapped,
                     numPrompt, reported, pc, call>>
  BY DEF PrefillSchedule, At
<1>1. PICK r \in Requests : Candidate(r) /\ ScheduleChunk(r, Todo(r, numCached[r]))
  BY DEF PrefillSchedule
<1> DEFINE todo == Todo(r, numCached[r])
<1>2. /\ status[r] = "waiting" /\ Contains(waiting, r) /\ ~InBatch(r)
      /\ ~Contains(running, r) /\ numScheduled[r] = 0
  BY <1>0, <1>1, CandidateIsWaiting
<1>3. NumTokens(r) \in Nat /\ numCached[r] \in Nat /\ todo = NumTokens(r) - numCached[r]
      /\ todo \in Nat \ {0}
  BY DEF ProgressTypes, TokensLeft, NumTokens, Todo
<1>4. Chunk(todo) \in Nat \ {0} /\ Chunk(todo) <= todo
  <2>1. Chunk(todo) \in 1 .. todo
    BY <1>0, <1>3, ChunkBounds DEF HasRoom, ProgressTypes
  <2> QED BY <2>1, <1>3
<1>5. /\ numScheduled' = [numScheduled EXCEPT ![r] = Chunk(todo)]
      /\ numBatchTokens' = numBatchTokens + Chunk(todo)
      /\ prefillBatch' = Append(prefillBatch, r)
  BY <1>1 DEF ScheduleChunk
<1>a. IF Chunk(todo) = todo
      THEN /\ status' = [status EXCEPT ![r] = "running"]
           /\ running' = Append(running, r)
           /\ waiting' = RemoveFirst(waiting, r)
      ELSE UNCHANGED <<status, running, waiting>>
  BY <1>1 DEF ScheduleChunk
<1> HIDE DEF todo
<1> DEFINE c == Chunk(todo)
<1>b. c \in Nat \ {0} /\ c <= todo /\ (c = todo <=> Chunk(todo) = todo) BY <1>4
<1>c. numScheduled' = [numScheduled EXCEPT ![r] = c] /\ numBatchTokens' = numBatchTokens + c
  BY <1>5
<1> HIDE DEF c
<1>6. /\ prefillBatch' \in Seq(Requests) /\ IsInjective(prefillBatch')
      /\ \A q : Contains(prefillBatch', q) <=> Contains(prefillBatch, q) \/ q = r
  BY <1>2, <1>5, Appended DEF QueueTypes, NoDuplicates, InBatch
<1>d. /\ numScheduled'[r] = c /\ c > 0 /\ InBatch(r)'
      /\ \A q \in Requests : q # r =>
           numScheduled'[q] = numScheduled[q] /\ (InBatch(q)' <=> InBatch(q))
      /\ \A q \in Requests : Contains(prefillBatch', q) => Contains(prefillBatch, q) \/ q = r
      /\ UNCHANGED <<tokenIds, numCached>>
  BY <1>0, <1>b, <1>c, <1>6 DEF InBatch, ProgressTypes
<1>7. CASE c = todo
  <2>1. /\ status' = [status EXCEPT ![r] = "running"]
        /\ running' = Append(running, r)
        /\ waiting' = RemoveFirst(waiting, r)
    BY <1>7, <1>a, <1>b
  <2>2. /\ running' \in Seq(Requests) /\ IsInjective(running')
        /\ \A q : Contains(running', q) <=> Contains(running, q) \/ q = r
    BY <1>2, <2>1, Appended DEF QueueTypes, NoDuplicates
  <2>3. /\ waiting' \in Seq(Requests) /\ IsInjective(waiting')
        /\ \A q : Contains(waiting', q) <=> Contains(waiting, q) /\ q # r
    BY <2>1, FirstRemoved DEF QueueTypes, NoDuplicates
  <2>4. QueueTypes' BY <1>0, <1>6, <2>2, <2>3 DEF QueueTypes
  <2>5. ProgressTypes' BY <1>0, <1>b, <1>c, <2>1 DEF ProgressTypes
  <2>6. NoDuplicates' BY <1>0, <1>2, <1>6, <2>2, <2>3 DEF NoDuplicates, InBatch
  <2>7. QueueOfStatus'
    BY <1>0, <1>2, <1>6, <2>1, <2>2, <2>3 DEF QueueOfStatus, Runs, Live, ProgressTypes, InBatch
  <2>8. BatchesInPhase' BY <1>0 DEF BatchesInPhase
  <2>9. ScheduledInBatch'
    BY <1>d, <2>1, <1>2 DEF ScheduledInBatch, Live, NumTokens, ProgressTypes
  <2>10. CallOutsideBatch' BY <1>0 DEF CallOutsideBatch, Idle, NoCall
  <2>11. TokensLeft'
    BY <1>0, <1>3, <1>b, <1>c DEF TokensLeft, NumTokens, ProgressTypes
  <2>12. LengthBounds' BY <1>0, <1>2, <2>1 DEF LengthBounds, Live, NumTokens, ProgressTypes
  <2>13. Reports' BY <1>0, <1>2, <2>1 DEF Reports, Ended, ProgressTypes
  <2> QED BY <2>4, <2>5, <2>6, <2>7, <2>8, <2>9, <2>10, <2>11, <2>12, <2>13
<1>8. CASE c # todo
  <2>1. UNCHANGED <<status, running, waiting>> BY <1>8, <1>a, <1>b
  <2>4. QueueTypes' BY <1>0, <1>6, <2>1 DEF QueueTypes
  <2>5. ProgressTypes' BY <1>0, <1>b, <1>c, <2>1 DEF ProgressTypes
  <2>6. NoDuplicates' BY <1>0, <1>2, <1>6, <2>1 DEF NoDuplicates, InBatch
  <2>7. QueueOfStatus'
    BY <1>0, <1>2, <1>6, <2>1 DEF QueueOfStatus, Runs, Live, ProgressTypes, InBatch
  <2>8. BatchesInPhase' BY <1>0 DEF BatchesInPhase
  <2>9. ScheduledInBatch'
    <3>1. numCached[r] + numScheduled'[r] < NumTokens(r) BY <1>3, <1>b, <1>d, <1>8
    <3> QED BY <1>d, <2>1, <1>2, <3>1 DEF ScheduledInBatch, Live, NumTokens, ProgressTypes
  <2>10. CallOutsideBatch' BY <1>0 DEF CallOutsideBatch, Idle, NoCall
  <2>11. TokensLeft'
    BY <1>0, <1>3, <1>b, <1>c DEF TokensLeft, NumTokens, ProgressTypes
  <2>12. LengthBounds' BY <1>0, <2>1 DEF LengthBounds, Live, NumTokens, ProgressTypes
  <2>13. Reports' BY <1>0, <2>1 DEF Reports, Ended, ProgressTypes
  <2> QED BY <2>4, <2>5, <2>6, <2>7, <2>8, <2>9, <2>10, <2>11, <2>12, <2>13
<1> QED BY <1>7, <1>8

\* The prefill loop ends; the unified one joins its two halves.
LEMMA PrefillDoneStep ==
  ASSUME QueueInv, PrefillDone(AfterPrefill), UNCHANGED <<reported, stepMode>>
  PROVE  QueueInv'
<1> USE DEF QueueInv, batchVars, bmVars, swapVars
<1>0. /\ pc = "prefill" /\ Idle
      /\ UNCHANGED <<waiting, running, pendingAborts, stepMode, status, tokenIds, numCached,
                     numScheduled, numSwapped, numPrompt, reported, call>>
      /\ prefillBatch' = Scheduled
      /\ decodeBatch' = IF stepMode = "unified" THEN << >> ELSE decodeBatch
      /\ numBatchTokens' = 0
      /\ pc' = AfterPrefill
  BY DEF PrefillDone, At
<1>1. /\ prefillBatch' \in Seq(Requests) /\ IsInjective(prefillBatch')
      /\ \A q : Contains(prefillBatch', q) <=>
                  Contains(prefillBatch, q) \/ (stepMode = "unified" /\ Contains(decodeBatch, q))
  BY <1>0, Joined DEF QueueTypes, NoDuplicates, Scheduled
<1>2. /\ decodeBatch' \in Seq(Requests) /\ IsInjective(decodeBatch')
      /\ \A q : Contains(decodeBatch', q) <=> stepMode # "unified" /\ Contains(decodeBatch, q)
  BY <1>0, EmptyQueue DEF QueueTypes, NoDuplicates
<1>3. pc' \in {"decode", "drain"}
      /\ (pc' = "decode" => decodeBatch' = << >> /\ prefillBatch' = << >>)
      /\ (pc' = "decode" => stepMode = "separate")
  BY <1>0, EmptyQueue DEF AfterPrefill, BatchesInPhase, Scheduled
<1>4. QueueTypes' BY <1>0, <1>1, <1>2, <1>3 DEF QueueTypes
<1>5. ProgressTypes' BY <1>0 DEF ProgressTypes
<1>6. NoDuplicates' BY <1>0, <1>1, <1>2 DEF NoDuplicates
<1>e. \A r : ~Contains(<< >>, r) BY EmptyQueue
<1>7. QueueOfStatus'
  BY <1>0, <1>1, <1>2, <1>3, <1>e DEF QueueOfStatus, Runs, Live
<1>8. BatchesInPhase' BY <1>0, <1>3 DEF BatchesInPhase
<1>9. ScheduledInBatch'
  BY <1>0, <1>1, <1>2 DEF ScheduledInBatch, InBatch, Live, NumTokens, QueueOfStatus
<1>10. CallOutsideBatch' BY <1>0 DEF CallOutsideBatch, Idle, NoCall
<1>11. TokensLeft' BY <1>0 DEF TokensLeft, NumTokens
<1>12. LengthBounds' BY <1>0 DEF LengthBounds, Live, NumTokens
<1>13. Reports' BY <1>0, <1>3 DEF Reports, Ended
<1> QED BY <1>4, <1>5, <1>6, <1>7, <1>8, <1>9, <1>10, <1>11, <1>12, <1>13

\* The head of running takes its decode turn.
LEMMA DecodeAdmitStep ==
  ASSUME QueueInv, DecodeAdmit, UNCHANGED <<reported, stepMode>>
  PROVE  QueueInv'
<1> USE DEF QueueInv, batchVars, bmVars, swapVars
<1> DEFINE r == Head(running)
<1>0. /\ pc = "decode" /\ Idle /\ running # << >> /\ prefillBatch = << >>
      /\ UNCHANGED <<tokenIds, numCached, call, status, numPrompt, numSwapped, waiting,
                     pendingAborts, prefillBatch, pc, reported, stepMode>>
      /\ numScheduled' = [numScheduled EXCEPT ![r] = 1]
      /\ decodeBatch' = Append(decodeBatch, r)
      /\ running' = Tail(running)
      /\ numBatchTokens' = IF stepMode = "unified" THEN numBatchTokens + 1 ELSE numBatchTokens
  BY DEF DecodeAdmit, At, MoreDecode, BatchesInPhase
<1>1. /\ r \in Requests /\ Contains(running, r)
      /\ running' \in Seq(Requests) /\ IsInjective(running')
      /\ \A q : Contains(running', q) <=> Contains(running, q) /\ q # r
  BY <1>0, Popped DEF QueueTypes, NoDuplicates
<1> HIDE DEF r
<1>2. status[r] = "running" /\ ~InBatch(r)
  BY <1>0, <1>1, EmptyQueue DEF QueueOfStatus, Runs, InBatch
<1>3. /\ decodeBatch' \in Seq(Requests) /\ IsInjective(decodeBatch')
      /\ \A q : Contains(decodeBatch', q) <=> Contains(decodeBatch, q) \/ q = r
  BY <1>0, <1>1, <1>2, Appended DEF QueueTypes, NoDuplicates, InBatch
<1>4. QueueTypes' BY <1>0, <1>1, <1>3 DEF QueueTypes
<1>5. ProgressTypes'
  <2>1. numBatchTokens' \in Int BY <1>0 DEF ProgressTypes
  <2>2. numScheduled' \in [Requests -> Nat] BY <1>0 DEF ProgressTypes
  <2> QED BY <1>0, <2>1, <2>2 DEF ProgressTypes
<1>6. NoDuplicates' BY <1>0, <1>1, <1>2, <1>3 DEF NoDuplicates, InBatch
<1>7. QueueOfStatus' BY <1>0, <1>1, <1>2, <1>3 DEF QueueOfStatus, Runs, Live, InBatch
<1>8. BatchesInPhase' BY <1>0 DEF BatchesInPhase
<1>9. ScheduledInBatch'
  <2>1. \A q : InBatch(q)' <=> InBatch(q) \/ q = r BY <1>0, <1>3 DEF InBatch
  <2>2. numScheduled'[r] = 1 /\ \A q \in Requests : q # r => numScheduled'[q] = numScheduled[q]
    BY <1>0, <1>1 DEF ProgressTypes
  <2>3. \A q : ~Contains(prefillBatch', q) BY <1>0, EmptyQueue
  <2> QED BY <1>0, <1>2, <2>1, <2>2, <2>3 DEF ScheduledInBatch, Live
<1>10. CallOutsideBatch' BY <1>0 DEF CallOutsideBatch, Idle, NoCall
<1>11. TokensLeft'
  BY <1>0, <1>1 DEF TokensLeft, NumTokens, ProgressTypes
<1>12. LengthBounds' BY <1>0 DEF LengthBounds, Live, NumTokens
<1>13. Reports' BY <1>0 DEF Reports, Ended
<1> QED BY <1>4, <1>5, <1>6, <1>7, <1>8, <1>9, <1>10, <1>11, <1>12, <1>13

\* What preempt does to its request, with or without swap.
LEMMA PreemptEffect ==
  ASSUME QueueInv, NEW r \in Requests, status[r] = "running", Preempt(r)
  PROVE  /\ status' = [status EXCEPT ![r] = "waiting"]
         /\ call'.op = "deallocate" /\ call'.seq = r
         /\ waiting' \in Seq(Requests) /\ IsInjective(waiting')
         /\ \A q : Contains(waiting', q) <=> Contains(waiting, q) \/ q = r
         /\ numSwapped' \in [Requests -> Nat]
         /\ \A q \in Requests : numSwapped'[q] < NumTokens(q)
<1> USE DEF QueueInv, Preempt, Deallocate
<1>1. /\ waiting' \in Seq(Requests) /\ IsInjective(waiting')
      /\ \A q : Contains(waiting', q) <=> Contains(waiting, q) \/ q = r
  BY Pushed DEF QueueTypes, NoDuplicates, QueueOfStatus
<1>2. numSwapped' \in [Requests -> Nat] /\ \A q \in Requests : numSwapped'[q] < NumTokens(q)
  <2>1. CASE ShouldSwap(r)
    BY <2>1 DEF SwapOut, ProgressTypes, TokensLeft
  <2>2. CASE ~ShouldSwap(r)
    BY <2>2 DEF swapVars, ProgressTypes, TokensLeft
  <2> QED BY <2>1, <2>2
<1>3. call' = [op |-> "deallocate", seq |-> r]
  OBVIOUS
<1>4. call'.op = "deallocate" /\ call'.seq = r BY <1>3
<1> QED BY <1>1, <1>2, <1>4

\* A request of running gives up its blocks in the decode loop; exit is the loop
\* itself, or where the early return goes.
LEMMA PreemptStep ==
  ASSUME QueueInv, pc = "decode", Idle,
         NEW r \in Requests, Contains(running, r), Preempt(r),
         UNCHANGED <<tokenIds, numCached, numScheduled, numPrompt, pendingAborts, batchVars,
                     reported, stepMode>>,
         running' \in Seq(Requests), IsInjective(running'),
         pc' = "decode" \/ pc' = AfterDecode,
         \A q : Runs(q)' <=> Runs(q) /\ q # r,
         pc' = "decode" => \A q : ~(Contains(running', q) /\ Contains(decodeBatch', q))
  PROVE  QueueInv'
<1> USE DEF QueueInv, batchVars
<1>1. status[r] = "running" /\ ~InBatch(r) /\ numScheduled[r] = 0 /\ prefillBatch = << >>
  <2>1. prefillBatch = << >> BY DEF BatchesInPhase
  <2>2. status[r] = "running" /\ ~InBatch(r)
    BY <2>1, EmptyQueue DEF QueueOfStatus, Runs, InBatch
  <2> QED BY <2>1, <2>2 DEF ScheduledInBatch, Live
<1>2. /\ status' = [status EXCEPT ![r] = "waiting"]
      /\ call'.op = "deallocate" /\ call'.seq = r
      /\ waiting' \in Seq(Requests) /\ IsInjective(waiting')
      /\ \A q : Contains(waiting', q) <=> Contains(waiting, q) \/ q = r
      /\ numSwapped' \in [Requests -> Nat]
      /\ \A q \in Requests : numSwapped'[q] < NumTokens(q)
  BY <1>1, PreemptEffect
<1>3. pc' \in {"decode", "drain", "prefill"}
      /\ (pc' = "prefill" => stepMode # "separate") /\ (pc' = "drain" => stepMode = "separate")
  BY DEF AfterDecode
<1>4. QueueTypes' BY <1>2, <1>3 DEF QueueTypes
<1>5. ProgressTypes' BY <1>2 DEF ProgressTypes
<1>6. NoDuplicates' BY <1>2 DEF NoDuplicates
<1>7. QueueOfStatus'
  <2>1. \A q \in Requests : status'[q] = IF q = r THEN "waiting" ELSE status[q]
    BY <1>2 DEF ProgressTypes
  <2>2. \A q \in Requests : Contains(waiting', q) <=> status'[q] = "waiting"
    BY <1>2, <2>1 DEF QueueOfStatus
  <2>3. \A q \in Requests : Runs(q)' <=> status'[q] = "running"
    BY <2>1 DEF QueueOfStatus
  <2>4. \A q \in Requests : ~Contains(prefillBatch', q) BY <1>1, EmptyQueue
  <2>5. \A q \in Requests : Contains(decodeBatch', q) => status'[q] = "running"
    BY <1>1, <2>1 DEF QueueOfStatus, InBatch
  <2> QED BY <2>2, <2>3, <2>4, <2>5 DEF QueueOfStatus
<1>8. BatchesInPhase' BY <1>1, <1>3 DEF BatchesInPhase
<1>9. ScheduledInBatch'
  <2>1. \A q \in Requests : status'[q] = IF q = r THEN "waiting" ELSE status[q]
    BY <1>2 DEF ProgressTypes
  <2> QED BY <1>1, <2>1, EmptyQueue DEF ScheduledInBatch, InBatch, Live
<1>10. CallOutsideBatch' BY <1>1, <1>2 DEF CallOutsideBatch, InBatch
<1>11. TokensLeft' BY <1>2 DEF TokensLeft, NumTokens
<1>12. LengthBounds' BY <1>1, <1>2 DEF LengthBounds, Live, NumTokens, ProgressTypes
<1>13. Reports' BY <1>1, <1>2, <1>3 DEF Reports, Ended, ProgressTypes
<1> QED BY <1>4, <1>5, <1>6, <1>7, <1>8, <1>9, <1>10, <1>11, <1>12, <1>13

\* The decode loop preempts the last running request.
LEMMA DecodePreemptLastStep ==
  ASSUME QueueInv, DecodePreemptLast, UNCHANGED <<reported, stepMode>>
  PROVE  QueueInv'
<1> DEFINE r == Last(running)
<1>1. /\ pc = "decode" /\ Idle /\ running # << >> /\ Preempt(r)
      /\ UNCHANGED <<tokenIds, numCached, numScheduled, numPrompt, pendingAborts, batchVars,
                     pc, reported, stepMode>>
      /\ running' = Front(running)
  BY DEF DecodePreemptLast, NeedsVictim, MoreDecode, At
<1>2. /\ r \in Requests /\ Contains(running, r)
      /\ running' \in Seq(Requests) /\ IsInjective(running')
      /\ \A q : Contains(running', q) <=> Contains(running, q) /\ q # r
  BY <1>1, PoppedLast DEF QueueInv, QueueTypes, NoDuplicates
<1> HIDE DEF r
<1>3. \A q : ~(Contains(running, q) /\ Contains(decodeBatch, q))
  BY <1>1, InQueue DEF QueueInv, QueueOfStatus, QueueTypes
<1>4. \A q : Runs(q)' <=> Runs(q) /\ q # r
  BY <1>1, <1>2, <1>3 DEF Runs, batchVars
<1>5. \A q : ~(Contains(running', q) /\ Contains(decodeBatch', q))
  BY <1>1, <1>2, <1>3 DEF batchVars
<1> QED BY <1>1, <1>2, <1>4, <1>5, PreemptStep

\* The last request of running is its first one.
LEMMA OnlyOneRuns ==
  ASSUME QueueInv, Len(running) = 1
  PROVE  /\ running[1] \in Requests /\ Contains(running, running[1])
         /\ \A q : Contains(running, q) => q = running[1]
BY DEF QueueInv, QueueTypes, Contains

\* The decode loop preempts its only request.
LEMMA DecodePreemptSelfStep ==
  ASSUME QueueInv, DecodePreemptSelf(AfterDecode), UNCHANGED <<reported, stepMode>>
  PROVE  QueueInv'
<1> DEFINE r == running[1]
<1>1. /\ pc = "decode" /\ Idle /\ Len(running) = 1 /\ Preempt(r)
      /\ UNCHANGED <<tokenIds, numCached, numScheduled, numPrompt, pendingAborts, batchVars,
                     reported, stepMode>>
      /\ running' = decodeBatch /\ pc' = AfterDecode
  BY DEF DecodePreemptSelf, NeedsVictim, At
<1>2. /\ r \in Requests /\ Contains(running, r)
      /\ \A q : Contains(running, q) => q = r
  BY <1>1, OnlyOneRuns
<1> HIDE DEF r
<1>3. ~Contains(decodeBatch, r)
  BY <1>1, <1>2 DEF QueueInv, QueueOfStatus
<1>4. pc' # "decode" BY <1>1 DEF AfterDecode
<1>5. \A q : Runs(q)' <=> Runs(q) /\ q # r
  BY <1>1, <1>2, <1>3, <1>4 DEF Runs, batchVars
<1>6. running' \in Seq(Requests) /\ IsInjective(running')
  BY <1>1 DEF QueueInv, QueueTypes, NoDuplicates
<1> QED BY <1>1, <1>2, <1>4, <1>5, <1>6, PreemptStep

\* The decode loop gives its batch back to running.
LEMMA DecodeDoneStep ==
  ASSUME QueueInv, DecodeDone(AfterDecode), UNCHANGED <<reported, stepMode>>
  PROVE  QueueInv'
<1> USE DEF QueueInv, batchVars, bmVars, swapVars
<1>0. /\ pc = "decode" /\ Idle /\ prefillBatch = << >>
      /\ UNCHANGED <<waiting, batchVars, pendingAborts, stepMode, status, tokenIds, numCached,
                     numScheduled, numSwapped, numPrompt, reported, call>>
      /\ running' = decodeBatch \o running
      /\ pc' = IF decodeBatch = << >> /\ stepMode # "unified" THEN "crashed" ELSE AfterDecode
  BY DEF DecodeDone, At, BatchesInPhase
<1>1. /\ pc' \in {"crashed", "drain", "prefill"}
      /\ pc' = "crashed" => decodeBatch = << >>
      /\ pc' = "prefill" => stepMode # "separate"
      /\ pc' = "drain" => stepMode = "separate"
  BY <1>0 DEF AfterDecode
<1>2. \A q \in Requests : ~(Contains(decodeBatch, q) /\ Contains(running, q))
  BY <1>0 DEF QueueOfStatus
<1>3. /\ running' \in Seq(Requests) /\ IsInjective(running')
      /\ \A q : Contains(running', q) <=> Contains(decodeBatch, q) \/ Contains(running, q)
  BY <1>0, <1>2, Joined DEF QueueTypes, NoDuplicates
<1>4. QueueTypes' BY <1>0, <1>1, <1>3 DEF QueueTypes
<1>5. ProgressTypes' BY <1>0 DEF ProgressTypes
<1>6. NoDuplicates' BY <1>0, <1>3 DEF NoDuplicates
<1>7. QueueOfStatus' BY <1>0, <1>1, <1>3 DEF QueueOfStatus, Runs, Live
<1>8. BatchesInPhase' BY <1>0, <1>1 DEF BatchesInPhase
<1>9. ScheduledInBatch' BY <1>0 DEF ScheduledInBatch, InBatch, Live, NumTokens
<1>10. CallOutsideBatch' BY <1>0 DEF CallOutsideBatch, Idle, NoCall
<1>11. TokensLeft' BY <1>0 DEF TokensLeft, NumTokens
<1>12. LengthBounds' BY <1>0 DEF LengthBounds, Live, NumTokens
<1>13. Reports' BY <1>0, <1>1 DEF Reports, Ended
<1> QED BY <1>4, <1>5, <1>6, <1>7, <1>8, <1>9, <1>10, <1>11, <1>12, <1>13

\* What abort does to its request.
LEMMA AbortEffect ==
  ASSUME QueueInv, Idle, NEW r \in Requests, ~Contains(waiting, r) \/ status[r] = "waiting",
         Abort(r)
  PROVE  /\ status' = [status EXCEPT ![r] = "aborted"]
         /\ call' = NoCall \/ (call'.op = "deallocate" /\ call'.seq = r)
         /\ waiting' \in Seq(Requests) /\ IsInjective(waiting')
         /\ \A q : Contains(waiting', q) <=> Contains(waiting, q) /\ q # r
         /\ pendingAborts' \in Seq(Requests)
         /\ \A q : Contains(pendingAborts', q) <=> Contains(pendingAborts, q) \/ q = r
<1> USE DEF QueueInv, Abort
<1>1. /\ waiting' \in Seq(Requests) /\ IsInjective(waiting')
      /\ \A q : Contains(waiting', q) <=> Contains(waiting, q) /\ q # r
  BY FirstRemoved DEF QueueTypes, NoDuplicates
<1>2. /\ pendingAborts' \in Seq(Requests)
      /\ \A q : Contains(pendingAborts', q) <=> Contains(pendingAborts, q) \/ q = r
  BY Appended DEF QueueTypes
<1>3. call' = NoCall \/ (call'.op = "deallocate" /\ call'.seq = r)
  BY DEF Deallocate, Idle
<1> QED BY <1>1, <1>2, <1>3

\* The decode loop aborts its only request, which fills the pool.
LEMMA DecodeAbortStep ==
  ASSUME QueueInv, DecodeAbort(AfterDecode), UNCHANGED <<reported, stepMode>>
  PROVE  QueueInv'
<1> USE DEF QueueInv, batchVars, bmVars, swapVars
<1> DEFINE r == running[1]
<1>0. /\ pc = "decode" /\ Idle /\ Len(running) = 1 /\ Abort(r) /\ prefillBatch = << >>
      /\ UNCHANGED <<tokenIds, numCached, numScheduled, numPrompt, numSwapped, batchVars,
                     reported, stepMode>>
      /\ running' = decodeBatch /\ pc' = AfterDecode
  BY DEF DecodeAbort, NeedsVictim, At, BatchesInPhase
<1>1. /\ r \in Requests /\ Contains(running, r)
      /\ \A q : Contains(running, q) => q = r
  BY <1>0, OnlyOneRuns
<1> HIDE DEF r
<1>2. status[r] = "running" /\ ~InBatch(r)
  BY <1>0, <1>1, EmptyQueue DEF QueueOfStatus, Runs, InBatch
<1>3. /\ status' = [status EXCEPT ![r] = "aborted"]
      /\ call' = NoCall \/ (call'.op = "deallocate" /\ call'.seq = r)
      /\ waiting' \in Seq(Requests) /\ IsInjective(waiting')
      /\ \A q : Contains(waiting', q) <=> Contains(waiting, q) /\ q # r
      /\ pendingAborts' \in Seq(Requests)
      /\ \A q : Contains(pendingAborts', q) <=> Contains(pendingAborts, q) \/ q = r
  BY <1>0, <1>1, <1>2, AbortEffect DEF QueueOfStatus
<1>4. pc' \in {"drain", "prefill"} /\ (pc' = "drain" <=> stepMode = "separate")
  BY <1>0 DEF AfterDecode
<1>5. \A q \in Requests : status'[q] = IF q = r THEN "aborted" ELSE status[q]
  BY <1>3 DEF ProgressTypes
<1>6. QueueTypes' BY <1>0, <1>3, <1>4 DEF QueueTypes
<1>7. ProgressTypes' BY <1>0, <1>1, <1>3 DEF ProgressTypes
<1>8. NoDuplicates' BY <1>0, <1>3 DEF NoDuplicates
<1>9. QueueOfStatus'
  <2>1. \A q \in Requests : Contains(waiting', q) <=> status'[q] = "waiting"
    BY <1>2, <1>3, <1>5 DEF QueueOfStatus
  <2>2. \A q \in Requests : Runs(q)' <=> status'[q] = "running"
    BY <1>0, <1>1, <1>2, <1>4, <1>5 DEF QueueOfStatus, Runs, InBatch
  <2>3. \A q \in Requests : Contains(decodeBatch', q) => status'[q] = "running"
    BY <1>0, <1>2, <1>5 DEF QueueOfStatus, InBatch
  <2>4. \A q \in Requests : ~Contains(prefillBatch', q) BY <1>0, EmptyQueue
  <2> QED BY <1>4, <2>1, <2>2, <2>3, <2>4 DEF QueueOfStatus
<1>10. BatchesInPhase' BY <1>0, <1>4 DEF BatchesInPhase
<1>11. ScheduledInBatch'
  BY <1>0, <1>5, EmptyQueue DEF ScheduledInBatch, InBatch, Live, NumTokens
<1>12. CallOutsideBatch' BY <1>0, <1>2, <1>3 DEF CallOutsideBatch, InBatch, NoCall
<1>13. TokensLeft' BY <1>0 DEF TokensLeft, NumTokens
<1>14. LengthBounds' BY <1>0, <1>5 DEF LengthBounds, Live, NumTokens
<1>15. Reports' BY <1>0, <1>2, <1>3, <1>4, <1>5 DEF Reports, Ended
<1> QED BY <1>6, <1>7, <1>8, <1>9, <1>10, <1>11, <1>12, <1>13, <1>14, <1>15

\* The steps of a call only set how much is computed, of a request in no batch.
LEMMA BlockManagerStepStep == ASSUME QueueInv, BlockManagerStep PROVE QueueInv'
<1> USE DEF QueueInv, batchVars, swapVars
<1>0. UNCHANGED <<waiting, running, batchVars, pendingAborts, stepMode, status, tokenIds, pc,
                  numScheduled, numSwapped, numPrompt, reported>>
  BY DEF BlockManagerStep, CallStep
<1>1. /\ call' = call \/ call' = NoCall
      /\ \/ numCached' = numCached
         \/ /\ call.op = "allocate"
            /\ numCached' = [numCached EXCEPT ![call.seq] = call.cached]
         \/ /\ call.op = "deallocate"
            /\ numCached' = [numCached EXCEPT ![call.seq] = 0]
  BY DEF BlockManagerStep, CallStep, TakeCached, TakeFresh, AllocateReturn, ReleaseBlock,
         DeallocateReturn
<1>2. /\ numCached' \in [Requests -> Nat]
      /\ \A r \in Requests : numCached'[r] # numCached[r] =>
           /\ call.op # "none" /\ call.seq = r
           /\ numCached'[r] = 0 \/ (Live(r) /\ numCached'[r] < NumTokens(r))
  <2>1. CASE numCached' = numCached
    BY <2>1 DEF ProgressTypes
  <2>2. CASE call.op = "allocate" /\ numCached' = [numCached EXCEPT ![call.seq] = call.cached]
    <3>1. /\ call.seq \in Requests /\ call.cached \in Nat
          /\ Live(call.seq) /\ call.cached < NumTokens(call.seq)
      BY <2>2 DEF ProgressTypes, CallOutsideBatch, NoCall
    <3> QED BY <2>2, <3>1 DEF ProgressTypes
  <2>3. CASE call.op = "deallocate" /\ numCached' = [numCached EXCEPT ![call.seq] = 0]
    <3>1. call.seq \in Requests
      BY <2>3 DEF ProgressTypes, NoCall
    <3> QED BY <2>3, <3>1 DEF ProgressTypes
  <2> QED BY <1>1, <2>1, <2>2, <2>3
<1>3. QueueTypes' BY <1>0 DEF QueueTypes
<1>4. ProgressTypes' BY <1>0, <1>1, <1>2 DEF ProgressTypes
<1>5. NoDuplicates' BY <1>0 DEF NoDuplicates
<1>6. QueueOfStatus' BY <1>0 DEF QueueOfStatus, Runs, Live
<1>7. BatchesInPhase' BY <1>0 DEF BatchesInPhase
<1>8. ScheduledInBatch'
  BY <1>0, <1>2 DEF ScheduledInBatch, InBatch, Live, NumTokens, CallOutsideBatch
<1>9. CallOutsideBatch'
  BY <1>0, <1>1 DEF CallOutsideBatch, InBatch, Live, NumTokens, NoCall
<1>10. TokensLeft'
  <2> SUFFICES ASSUME NEW r \in Requests, numCached'[r] # numCached[r]
               PROVE  /\ numCached'[r] < NumTokens(r)
                      /\ numCached'[r] + numScheduled[r] <= NumTokens(r)
    BY <1>0 DEF TokensLeft, NumTokens
  <2>1. NumTokens(r) \in Nat /\ NumTokens(r) > 0 /\ numScheduled[r] \in Nat
        /\ numCached[r] \in Nat /\ numCached[r] + numScheduled[r] <= NumTokens(r)
    BY DEF ProgressTypes, TokensLeft, NumTokens
  <2>2. CASE numCached'[r] = 0 BY <2>1, <2>2
  <2>3. CASE Live(r) /\ numCached'[r] < NumTokens(r)
    <3>1. numScheduled[r] = 0
      BY <1>2, <2>3 DEF CallOutsideBatch, ScheduledInBatch
    <3>2. numCached'[r] \in Nat BY <1>2
    <3> QED BY <2>1, <2>3, <3>1, <3>2
  <2> QED BY <1>2, <2>2, <2>3
<1>11. LengthBounds' BY <1>0 DEF LengthBounds, Live, NumTokens
<1>12. Reports' BY <1>0 DEF Reports, Ended
<1> QED BY <1>3, <1>4, <1>5, <1>6, <1>7, <1>8, <1>9, <1>10, <1>11, <1>12

\* The outputs of step() get what was aborted while it was scheduled.
LEMMA DrainAbortsStep == ASSUME QueueInv, DrainAborts PROVE QueueInv'
<1> USE DEF QueueInv, requestVars, batchVars, bmVars, swapVars
<1>0. /\ UNCHANGED <<waiting, running, batchVars, stepMode, status, tokenIds, numCached,
                     numScheduled, numSwapped, numPrompt, call>>
      /\ pc = "drain" /\ pc' = "runPrefill" /\ pendingAborts' = << >>
  BY DEF DrainAborts, At
<1> DEFINE Places(r) == {i \in DOMAIN pendingAborts : pendingAborts[i] = r}
<1>1. ASSUME NEW r \in Requests
      PROVE  /\ Cardinality(Places(r)) \in Nat
             /\ Cardinality(Places(r)) > 0 <=> Contains(pendingAborts, r)
  <2>1. Len(pendingAborts) \in Nat /\ DOMAIN pendingAborts = 1 .. Len(pendingAborts)
    BY DEF QueueTypes
  <2>2. IsFiniteSet(1 .. Len(pendingAborts)) BY <2>1, FS_Interval
  <2>3. IsFiniteSet(Places(r)) BY <2>1, <2>2, FS_Subset
  <2>4. Cardinality(Places(r)) \in Nat BY <2>3, FS_CardinalityType
  <2>5. Cardinality(Places(r)) = 0 <=> Places(r) = {} BY <2>3, FS_EmptySet
  <2>6. Places(r) # {} <=> Contains(pendingAborts, r) BY <2>1 DEF Contains
  <2> QED BY <2>4, <2>5, <2>6
<1>2. \A r \in Requests : reported'[r] = reported[r] + Cardinality(Places(r))
  BY DEF DrainAborts
<1>a. reported' = [r \in Requests |-> reported[r] + Cardinality(Places(r))]
  BY DEF DrainAborts
<1> HIDE DEF Places
<1>3. reported' \in [Requests -> Nat]
  <2>1. \A r \in Requests : reported[r] + Cardinality(Places(r)) \in Nat
    BY <1>1 DEF ProgressTypes
  <2> QED BY <2>1, <1>a
<1>4. \A r \in Requests :
        reported'[r] > 0 <=> reported[r] > 0 \/ Contains(pendingAborts, r)
  BY <1>1, <1>2 DEF ProgressTypes
<1>5. QueueTypes' BY <1>0 DEF QueueTypes
<1>6. ProgressTypes' BY <1>0, <1>3 DEF ProgressTypes
<1>7. NoDuplicates' BY <1>0 DEF NoDuplicates
<1>8. QueueOfStatus' BY <1>0 DEF QueueOfStatus, Runs, Live
<1>9. BatchesInPhase' BY <1>0 DEF BatchesInPhase
<1>10. ScheduledInBatch' BY <1>0 DEF ScheduledInBatch, InBatch, Live, NumTokens
<1>11. CallOutsideBatch' BY <1>0 DEF CallOutsideBatch, InBatch, Live, NumTokens
<1>12. TokensLeft' BY <1>0 DEF TokensLeft, NumTokens
<1>13. LengthBounds' BY <1>0 DEF LengthBounds, Live, NumTokens
<1>14. Reports' BY <1>0, <1>4, EmptyQueue DEF Reports, Ended
<1> QED BY <1>5, <1>6, <1>7, <1>8, <1>9, <1>10, <1>11, <1>12, <1>13, <1>14

\* postprocess and abort_batch take the requests of a batch in its order.
LEMMA TakenFromBatch ==
  ASSUME QueueInv, NEW prefill \in BOOLEAN, TakeFromBatch(prefill),
         pc' = pc, stepMode' = stepMode,
         (IF prefill THEN prefillBatch ELSE decodeBatch) # << >>,
         ~prefill => pc \in {"postDecode", "oomDecode"},
         prefill => pc \in {"postPrefill", "oomPrefill"}
  PROVE  LET r == Head(IF prefill THEN prefillBatch ELSE decodeBatch) IN
         /\ r \in Requests /\ InBatch(r) /\ Live(r) /\ numScheduled[r] > 0
         /\ status[r] = "waiting" =>
              prefill /\ numCached[r] + numScheduled[r] < NumTokens(r)
         /\ prefillBatch' \in Seq(Requests) /\ IsInjective(prefillBatch')
         /\ decodeBatch' \in Seq(Requests) /\ IsInjective(decodeBatch')
         /\ numBatchTokens' = numBatchTokens
         /\ \A q \in Requests : Contains(prefillBatch', q) <=> Contains(prefillBatch, q) /\ q # r
         /\ \A q \in Requests : Contains(decodeBatch', q) <=> Contains(decodeBatch, q) /\ q # r
         /\ BatchesInPhase'
<1> USE DEF QueueInv, TakeFromBatch
<1>1. CASE prefill
  <2> DEFINE r == Head(prefillBatch)
  <2>1. /\ r \in Requests /\ Contains(prefillBatch, r)
        /\ prefillBatch' \in Seq(Requests) /\ IsInjective(prefillBatch')
        /\ \A q : Contains(prefillBatch', q) <=> Contains(prefillBatch, q) /\ q # r
        /\ UNCHANGED <<decodeBatch, numBatchTokens>>
    <3>1. prefillBatch' = Tail(prefillBatch) /\ UNCHANGED <<decodeBatch, numBatchTokens>>
      BY <1>1
    <3>2. prefillBatch \in Seq(Requests) /\ IsInjective(prefillBatch) /\ prefillBatch # << >>
      BY <1>1 DEF QueueTypes, NoDuplicates
    <3> QED BY <3>1, <3>2, Popped
  <2> HIDE DEF r
  <2>2. ~Contains(decodeBatch, r) BY <2>1 DEF NoDuplicates
  <2>3. InBatch(r) /\ Live(r) /\ numScheduled[r] > 0
    BY <2>1 DEF QueueOfStatus, ScheduledInBatch, InBatch
  <2>4. BatchesInPhase' BY <1>1, <2>1 DEF BatchesInPhase
  <2>5. status[r] = "waiting" => numCached[r] + numScheduled[r] < NumTokens(r)
    BY <2>1 DEF ScheduledInBatch
  <2>6. decodeBatch' \in Seq(Requests) /\ IsInjective(decodeBatch')
    BY <2>1 DEF QueueTypes, NoDuplicates
  <2> QED BY <1>1, <2>1, <2>2, <2>3, <2>4, <2>5, <2>6 DEF r
<1>2. CASE ~prefill
  <2> DEFINE r == Head(decodeBatch)
  <2>1. /\ r \in Requests /\ Contains(decodeBatch, r)
        /\ decodeBatch' \in Seq(Requests) /\ IsInjective(decodeBatch')
        /\ \A q : Contains(decodeBatch', q) <=> Contains(decodeBatch, q) /\ q # r
        /\ UNCHANGED <<prefillBatch, numBatchTokens>>
    <3>1. decodeBatch' = Tail(decodeBatch) /\ UNCHANGED <<prefillBatch, numBatchTokens>>
      BY <1>2
    <3>2. decodeBatch \in Seq(Requests) /\ IsInjective(decodeBatch) /\ decodeBatch # << >>
      BY <1>2 DEF QueueTypes, NoDuplicates
    <3> QED BY <3>1, <3>2, Popped
  <2>a. decodeBatch # << >> BY <1>2
  <2> HIDE DEF r
  <2>2. ~Contains(prefillBatch, r) BY <2>1 DEF NoDuplicates
  <2>3. InBatch(r) /\ status[r] = "running" /\ numScheduled[r] > 0
    BY <2>1 DEF QueueOfStatus, ScheduledInBatch, InBatch
  <2>4. BatchesInPhase'
    <3>1. stepMode # "unified" BY <1>2, <2>a DEF BatchesInPhase
    <3> QED BY <1>2, <2>1, <3>1 DEF BatchesInPhase
  <2>6. prefillBatch' \in Seq(Requests) /\ IsInjective(prefillBatch')
    BY <2>1 DEF QueueTypes, NoDuplicates
  <2> QED BY <1>2, <2>1, <2>2, <2>3, <2>4, <2>6 DEF r, Live
<1> QED BY <1>1, <1>2

\* What was scheduled is now computed.
LEMMA CommitEffect ==
  ASSUME QueueInv, NEW r \in Requests, Commit(r)
  PROVE  /\ numCached' \in [Requests -> Nat] /\ numScheduled' \in [Requests -> Nat]
         /\ numCached'[r] = numCached[r] + numScheduled[r] /\ numScheduled'[r] = 0
         /\ numCached'[r] <= NumTokens(r)
         /\ \A q \in Requests : q # r =>
              numCached'[q] = numCached[q] /\ numScheduled'[q] = numScheduled[q]
BY DEF QueueInv, ProgressTypes, TokensLeft, Commit

\* A sampled token makes its request longer by one.
LEMMA TokenAppended ==
  ASSUME QueueInv, NEW r \in Requests, NEW token \in Token, AppendToken(r, token)
  PROVE  /\ tokenIds' \in [Requests -> Seq(Token)]
         /\ \A q \in Requests : NumTokens(q) \in Nat
         /\ NumTokens(r)' = NumTokens(r) + 1
         /\ \A q \in Requests : q # r => tokenIds'[q] = tokenIds[q] /\ NumTokens(q)' = NumTokens(q)
BY DEF QueueInv, ProgressTypes, AppendToken, NumTokens

\* A batch gives up a request that goes on: a chunk of its prompt is computed, or
\* a token is sampled.
LEMMA PostprocessGoesOn ==
  ASSUME QueueInv, NEW prefill \in BOOLEAN, TakeFromBatch(prefill), Idle,
         (IF prefill THEN prefillBatch ELSE decodeBatch) # << >>,
         ~prefill => pc \in {"postDecode", "oomDecode"},
         prefill => pc \in {"postPrefill", "oomPrefill"},
         NEW r, r = Head(IF prefill THEN prefillBatch ELSE decodeBatch),
         Commit(r),
         UNCHANGED <<status, running, waiting, pendingAborts, numSwapped, numPrompt, reported,
                     pc, stepMode, call>>,
         \/ HasTokensLeft(r) /\ UNCHANGED tokenIds
         \/ \E token \in Token : ~EndsRequest(r, token) /\ AppendToken(r, token)
  PROVE  QueueInv'
<1> USE DEF QueueInv
<1>1. /\ r \in Requests /\ InBatch(r) /\ Live(r) /\ numScheduled[r] > 0
      /\ prefillBatch' \in Seq(Requests) /\ IsInjective(prefillBatch')
      /\ decodeBatch' \in Seq(Requests) /\ IsInjective(decodeBatch')
      /\ numBatchTokens' = numBatchTokens
      /\ \A q \in Requests : Contains(prefillBatch', q) <=> Contains(prefillBatch, q) /\ q # r
      /\ \A q \in Requests : Contains(decodeBatch', q) <=> Contains(decodeBatch, q) /\ q # r
      /\ BatchesInPhase'
  BY TakenFromBatch
<1>2. /\ numCached' \in [Requests -> Nat] /\ numScheduled' \in [Requests -> Nat]
      /\ numCached'[r] = numCached[r] + numScheduled[r] /\ numScheduled'[r] = 0
      /\ numCached'[r] <= NumTokens(r)
      /\ \A q \in Requests : q # r =>
           numCached'[q] = numCached[q] /\ numScheduled'[q] = numScheduled[q]
  BY <1>1, CommitEffect
<1>3. /\ tokenIds' \in [Requests -> Seq(Token)]
      /\ \A q \in Requests : NumTokens(q) \in Nat
      /\ numCached'[r] < NumTokens(r)' /\ NumTokens(r) <= NumTokens(r)'
      /\ NumTokens(r)' \in Nat
      /\ NumTokens(r)' - numPrompt[r] < MaxTokens
      /\ \A q \in Requests : q # r => NumTokens(q)' = NumTokens(q)
  <2>0. \A q \in Requests : NumTokens(q) \in Nat BY DEF ProgressTypes, NumTokens
  <2>b. NumTokens(r) - numPrompt[r] < MaxTokens /\ numPrompt[r] \in Nat /\ MaxTokens \in Nat
    BY <1>1, SchedulerAssumption DEF LengthBounds, ProgressTypes, SchedulerAssumption
  <2>1. CASE HasTokensLeft(r) /\ UNCHANGED tokenIds
    BY <1>1, <1>2, <2>0, <2>1, <2>b DEF ProgressTypes, NumTokens, HasTokensLeft
  <2>2. CASE \E token \in Token : ~EndsRequest(r, token) /\ AppendToken(r, token)
    <3>0. PICK token \in Token : ~EndsRequest(r, token) /\ AppendToken(r, token)
      BY <2>2
    <3>1. /\ tokenIds' \in [Requests -> Seq(Token)]
          /\ NumTokens(r)' = NumTokens(r) + 1
          /\ \A q \in Requests : q # r => NumTokens(q)' = NumTokens(q)
      BY <1>1, <3>0, TokenAppended
    <3>2. NumTokens(r)' - numPrompt[r] < MaxTokens
      <4>1. NumTokens(r) + 1 - numPrompt[r] # MaxTokens BY <3>0 DEF EndsRequest
      <4>2. NumTokens(r) \in Nat BY <1>1, <2>0
      <4> QED BY <2>b, <3>1, <4>1, <4>2
    <3> QED BY <1>1, <1>2, <2>0, <3>1, <3>2
  <2> QED BY <2>1, <2>2
<1>4. \A q \in Requests : InBatch(q)' <=> InBatch(q) /\ q # r
  BY <1>1 DEF InBatch
<1>5. QueueTypes' BY <1>1 DEF QueueTypes
<1>6. ProgressTypes' BY <1>1, <1>2, <1>3 DEF ProgressTypes
<1>7. NoDuplicates'
  BY <1>1, InQueue DEF NoDuplicates
<1>8. QueueOfStatus' BY <1>1 DEF QueueOfStatus, Runs, Live
<1>9. ScheduledInBatch'
  BY <1>1, <1>2, <1>3, <1>4 DEF ScheduledInBatch, Live
<1>10. CallOutsideBatch' BY DEF CallOutsideBatch, Idle, NoCall
<1>11. TokensLeft'
  <2> SUFFICES ASSUME NEW q \in Requests
               PROVE  /\ numCached'[q] < NumTokens(q)'
                      /\ numSwapped'[q] < NumTokens(q)'
                      /\ numCached'[q] + numScheduled'[q] <= NumTokens(q)'
    BY DEF TokensLeft
  <2>1. CASE q = r
    <3>1. numSwapped'[r] < NumTokens(r) /\ numSwapped'[r] \in Nat
      BY <1>1 DEF TokensLeft, ProgressTypes
    <3>2. NumTokens(r) \in Nat /\ numCached'[r] \in Nat BY <1>1, <1>2, <1>3
    <3> QED BY <1>2, <1>3, <2>1, <3>1, <3>2
  <2>2. CASE q # r
    BY <1>1, <1>2, <1>3, <2>2 DEF TokensLeft, ProgressTypes
  <2> QED BY <2>1, <2>2
<1>12. LengthBounds'
  <2>1. numPrompt[r] <= NumTokens(r) /\ numPrompt[r] \in Nat /\ NumTokens(r) \in Nat
        /\ numPrompt[r] <= MaxModelLen /\ status[r] # "new"
    BY <1>1, <1>3 DEF LengthBounds, ProgressTypes, Live
  <2>2. numPrompt[r] <= NumTokens(r)' BY <1>3, <2>1
  <2> QED BY <1>1, <1>3, <2>1, <2>2 DEF LengthBounds, Live
<1>13. Reports' BY DEF Reports, Ended
<1> QED BY <1>1, <1>5, <1>6, <1>7, <1>8, <1>9, <1>10, <1>11, <1>12, <1>13

\* A batch gives up a request that ends: with its last token, or aborted.
LEMMA BatchEndsRequest ==
  ASSUME QueueInv, NEW prefill \in BOOLEAN, TakeFromBatch(prefill), Idle,
         (IF prefill THEN prefillBatch ELSE decodeBatch) # << >>,
         ~prefill => pc \in {"postDecode", "oomDecode"},
         prefill => pc \in {"postPrefill", "oomPrefill"},
         NEW r, r = Head(IF prefill THEN prefillBatch ELSE decodeBatch),
         NEW outcome \in {"finished", "aborted"},
         status' = [status EXCEPT ![r] = outcome],
         running' = RemoveFirst(running, r),
         Report(r),
         call' = NoCall \/ (call'.op = "deallocate" /\ call'.seq = r),
         waiting' \in Seq(Requests), IsInjective(waiting'),
         \A q \in Requests : Contains(waiting', q) <=> Contains(waiting, q) /\ q # r,
         pendingAborts' \in Seq(Requests),
         \A q : Contains(pendingAborts', q) =>
                  Contains(pendingAborts, q) \/ (q = r /\ outcome = "aborted"),
         \A q : Contains(pendingAborts, q) => Contains(pendingAborts', q),
         UNCHANGED <<numSwapped, numPrompt, pc, stepMode>>,
         \/ UNCHANGED <<tokenIds, numCached, numScheduled>>
         \/ Commit(r) /\ \E token \in Token : AppendToken(r, token)
  PROVE  QueueInv'
<1> USE DEF QueueInv
<1>1. /\ r \in Requests /\ InBatch(r) /\ Live(r) /\ numScheduled[r] > 0
      /\ prefillBatch' \in Seq(Requests) /\ IsInjective(prefillBatch')
      /\ decodeBatch' \in Seq(Requests) /\ IsInjective(decodeBatch')
      /\ numBatchTokens' = numBatchTokens
      /\ \A q \in Requests : Contains(prefillBatch', q) <=> Contains(prefillBatch, q) /\ q # r
      /\ \A q \in Requests : Contains(decodeBatch', q) <=> Contains(decodeBatch, q) /\ q # r
      /\ BatchesInPhase'
  BY TakenFromBatch
<1>2. /\ tokenIds' \in [Requests -> Seq(Token)]
      /\ numCached' \in [Requests -> Nat] /\ numScheduled' \in [Requests -> Nat]
      /\ \A q \in Requests :
           /\ NumTokens(q) \in Nat /\ NumTokens(q)' \in Nat
           /\ q # r => /\ numCached'[q] = numCached[q] /\ numScheduled'[q] = numScheduled[q]
                       /\ NumTokens(q)' = NumTokens(q)
      /\ numCached'[r] < NumTokens(r)' /\ NumTokens(r) <= NumTokens(r)'
      /\ numCached'[r] + numScheduled'[r] <= NumTokens(r)'
  <2>1. CASE UNCHANGED <<tokenIds, numCached, numScheduled>>
    <3>1. \A q \in Requests : NumTokens(q) \in Nat /\ NumTokens(q)' = NumTokens(q)
      BY <2>1 DEF ProgressTypes, NumTokens
    <3>2. numCached[r] < NumTokens(r) /\ numCached[r] + numScheduled[r] <= NumTokens(r)
      BY <1>1 DEF TokensLeft
    <3>3. NumTokens(r) <= NumTokens(r)' BY <1>1, <3>1
    <3> QED BY <1>1, <2>1, <3>1, <3>2, <3>3 DEF ProgressTypes
  <2>2. CASE Commit(r) /\ \E token \in Token : AppendToken(r, token)
    <3>1. PICK token \in Token : AppendToken(r, token) BY <2>2
    <3>2. /\ tokenIds' \in [Requests -> Seq(Token)]
          /\ \A q \in Requests : NumTokens(q) \in Nat
          /\ NumTokens(r)' = NumTokens(r) + 1
          /\ \A q \in Requests : q # r => NumTokens(q)' = NumTokens(q)
      BY <1>1, <3>1, TokenAppended
    <3>3. /\ numCached' \in [Requests -> Nat] /\ numScheduled' \in [Requests -> Nat]
          /\ numScheduled'[r] = 0 /\ numCached'[r] <= NumTokens(r)
          /\ \A q \in Requests : q # r =>
               numCached'[q] = numCached[q] /\ numScheduled'[q] = numScheduled[q]
      BY <1>1, <2>2, CommitEffect
    <3>4. \A q \in Requests : NumTokens(q)' \in Nat
      BY <3>2 DEF NumTokens
    <3>5. numCached'[r] \in Nat /\ NumTokens(r) \in Nat BY <1>1, <3>2, <3>3
    <3> QED BY <3>2, <3>3, <3>4, <3>5
  <2> QED BY <2>1, <2>2
<1>3. \A q \in Requests : status'[q] = IF q = r THEN outcome ELSE status[q]
  BY DEF ProgressTypes
<1>4. /\ running' \in Seq(Requests) /\ IsInjective(running')
      /\ \A q : Contains(running', q) <=> Contains(running, q) /\ q # r
  BY FirstRemoved DEF QueueTypes, NoDuplicates
<1>r. /\ reported' \in [Requests -> Nat]
      /\ \A q \in Requests : reported'[q] = IF q = r THEN reported[q] + 1 ELSE reported[q]
  <2>1. reported \in [Requests -> Nat] /\ reported[r] \in Nat BY <1>1 DEF ProgressTypes
  <2>2. reported' = [reported EXCEPT ![r] = reported[r] + 1] BY DEF Report
  <2> QED BY <1>1, <2>1, <2>2
<1>5. \A q \in Requests : InBatch(q)' <=> InBatch(q) /\ q # r
  BY <1>1 DEF InBatch
<1>6. QueueTypes' BY <1>1, <1>4 DEF QueueTypes
<1>7. ProgressTypes'
  <2>1. reported' \in [Requests -> Nat] BY <1>r
  <2>2. status' \in [Requests ->
          {"new", "rejected", "waiting", "running", "finished", "aborted"}]
    BY DEF ProgressTypes
  <2> QED BY <1>1, <1>2, <2>1, <2>2 DEF ProgressTypes
<1>8. NoDuplicates' BY <1>1, <1>4, InQueue DEF NoDuplicates
<1>9. QueueOfStatus'
  <2>1. pc # "decode" OBVIOUS
  <2>2. \A q \in Requests : Contains(waiting', q) <=> status'[q] = "waiting"
    BY <1>3 DEF QueueOfStatus
  <2>3. \A q \in Requests : Runs(q)' <=> status'[q] = "running"
    BY <1>3, <1>4, <2>1 DEF QueueOfStatus, Runs
  <2>4. \A q \in Requests : Contains(prefillBatch', q) => Live(q)'
    BY <1>1, <1>3 DEF QueueOfStatus, Live
  <2>5. \A q \in Requests : Contains(decodeBatch', q) => status'[q] = "running"
    BY <1>1, <1>3 DEF QueueOfStatus
  <2> QED BY <2>1, <2>2, <2>3, <2>4, <2>5 DEF QueueOfStatus
<1>10. ScheduledInBatch'
  <2>1. \A q \in Requests : q # r => numCached'[q] + numScheduled'[q] < NumTokens(q)'
                                     <=> numCached[q] + numScheduled[q] < NumTokens(q)
    BY <1>2
  <2> QED BY <1>1, <1>2, <1>3, <1>5, <2>1 DEF ScheduledInBatch, Live
<1>11. CallOutsideBatch'
  BY <1>1, <1>5 DEF CallOutsideBatch, NoCall
<1>12. TokensLeft'
  <2>1. numSwapped'[r] < NumTokens(r)'
    <3>1. numSwapped'[r] < NumTokens(r) /\ numSwapped'[r] \in Nat
      BY <1>1 DEF TokensLeft, ProgressTypes
    <3>2. NumTokens(r) \in Nat /\ NumTokens(r)' \in Nat /\ NumTokens(r) <= NumTokens(r)'
      BY <1>1, <1>2
    <3> QED BY <3>1, <3>2
  <2>2. ASSUME NEW q \in Requests, q # r
        PROVE  /\ numCached'[q] < NumTokens(q)' /\ numSwapped'[q] < NumTokens(q)'
               /\ numCached'[q] + numScheduled'[q] <= NumTokens(q)'
    <3>1. /\ numCached[q] < NumTokens(q) /\ numSwapped[q] < NumTokens(q)
          /\ numCached[q] + numScheduled[q] <= NumTokens(q)
      BY DEF TokensLeft
    <3>2. /\ numCached'[q] = numCached[q] /\ numScheduled'[q] = numScheduled[q]
          /\ NumTokens(q)' = NumTokens(q) /\ numSwapped'[q] = numSwapped[q]
      BY <1>2, <2>2
    <3> QED BY <3>1, <3>2
  <2> QED BY <1>2, <2>1, <2>2 DEF TokensLeft
<1>13. LengthBounds'
  <2>1. numPrompt[r] <= NumTokens(r) /\ numPrompt[r] \in Nat
    BY <1>1 DEF LengthBounds, ProgressTypes
  <2>b. NumTokens(r) \in Nat /\ NumTokens(r)' \in Nat /\ NumTokens(r) <= NumTokens(r)'
    BY <1>1, <1>2
  <2>2. numPrompt'[r] <= NumTokens(r)' BY <2>1, <2>b
  <2>3. ASSUME NEW q \in Requests
        PROVE  /\ numPrompt'[q] <= NumTokens(q)'
               /\ status'[q] = "new" => numPrompt'[q] = NumTokens(q)'
               /\ Live(q)' => NumTokens(q)' - numPrompt'[q] < MaxTokens
                              /\ numPrompt'[q] <= MaxModelLen
    <3>1. CASE q = r BY <1>3, <2>2, <3>1 DEF Live
    <3>2. CASE q # r
      <4>1. /\ numPrompt'[q] = numPrompt[q] /\ NumTokens(q)' = NumTokens(q)
            /\ status'[q] = status[q]
        BY <1>2, <1>3, <3>2
      <4> QED BY <4>1 DEF LengthBounds, Live
    <3> QED BY <3>1, <3>2
  <2> QED BY <2>3 DEF LengthBounds
<1>14. Reports'
  <2>1. reported[r] \in Nat BY <1>1 DEF ProgressTypes
  <2>a. reported'[r] = reported[r] + 1 BY <1>1, <1>r
  <2>2. reported'[r] > 0 BY <2>1, <2>a
  <2>3. ~Contains(pendingAborts, r) BY <1>1 DEF Reports, Live
  <2>4. Ended(r)' /\ (Contains(pendingAborts', r) => status'[r] = "aborted")
    BY <1>1, <1>3, <2>3 DEF Ended
  <2>5. ASSUME NEW q \in Requests, q # r
        PROVE  /\ reported'[q] > 0 => Ended(q)'
               /\ Contains(pendingAborts', q) => status'[q] = "aborted"
               /\ Ended(q)' => reported'[q] > 0
    <3>1. status'[q] = status[q] /\ reported'[q] = reported[q] BY <1>3, <1>r, <2>5
    <3>2. /\ reported[q] > 0 => Ended(q)
          /\ Contains(pendingAborts, q) => status[q] = "aborted"
          /\ Ended(q) => reported[q] > 0
      BY DEF Reports
    <3> QED BY <2>5, <3>1, <3>2 DEF Ended
  <2> QED BY <1>1, <2>2, <2>4, <2>5 DEF Reports
<1> QED BY <1>1, <1>6, <1>7, <1>8, <1>9, <1>10, <1>11, <1>12, <1>13, <1>14

\* postprocess, for the next request of a batch.
LEMMA PostprocessNextStep ==
  ASSUME QueueInv, Idle, NEW prefill \in BOOLEAN,
         ~prefill => pc = "postDecode", prefill => pc = "postPrefill",
         PostprocessNext(prefill, IF prefill THEN prefillBatch ELSE decodeBatch)
  PROVE  QueueInv'
<1> DEFINE batch == IF prefill THEN prefillBatch ELSE decodeBatch
           r == Head(batch)
<1>0. /\ batch # << >> /\ TakeFromBatch(prefill)
      /\ UNCHANGED <<numPrompt, numSwapped, waiting, pendingAborts, pc, stepMode>>
  BY DEF PostprocessNext, swapVars
<1>1. /\ r \in Requests /\ Live(r)
      /\ status[r] = "waiting" => prefill /\ HasTokensLeft(r)
  BY <1>0, TakenFromBatch DEF HasTokensLeft
<1>2. CASE prefill /\ PostprocessChunk(r) /\ UNCHANGED reported
  <2> HIDE DEF r
  <2>1. /\ Commit(r) /\ HasTokensLeft(r)
        /\ UNCHANGED <<tokenIds, status, running, call, reported>>
    BY <1>2 DEF PostprocessChunk
  <2> QED BY <1>0, <2>1, PostprocessGoesOn DEF r
<1>3. ASSUME NEW token \in Token, PostprocessToken(r, token) /\ UNCHANGED reported
      PROVE  QueueInv'
  <2> HIDE DEF r
  <2>1. /\ Commit(r) /\ ~EndsRequest(r, token) /\ AppendToken(r, token)
        /\ UNCHANGED <<status, running, call, reported>>
    BY <1>3 DEF PostprocessToken
  <2> QED BY <1>0, <2>1, PostprocessGoesOn DEF r
<1>4. ASSUME NEW token \in Token, PostprocessLast(r, token) /\ Report(r),
             prefill => ~HasTokensLeft(r)
      PROVE  QueueInv'
  <2> HIDE DEF r
  <2>1. /\ Commit(r) /\ AppendToken(r, token) /\ Report(r)
        /\ status' = [status EXCEPT ![r] = "finished"]
        /\ running' = RemoveFirst(running, r)
        /\ call' = [op |-> "deallocate", seq |-> r]
    BY <1>4 DEF PostprocessLast, Deallocate
  <2>2. call'.op = "deallocate" /\ call'.seq = r BY <2>1
  <2>3. status[r] # "waiting" BY <1>1, <1>4
  <2>4. /\ waiting' \in Seq(Requests) /\ IsInjective(waiting')
        /\ \A q \in Requests : Contains(waiting', q) <=> Contains(waiting, q) /\ q # r
    BY <1>0, <1>1, <2>3 DEF QueueInv, QueueTypes, NoDuplicates, QueueOfStatus
  <2>5. pendingAborts' \in Seq(Requests)
    BY <1>0 DEF QueueInv, QueueTypes
  <2> QED BY <1>0, <2>1, <2>2, <2>4, <2>5, BatchEndsRequest DEF r
<1> QED BY <1>2, <1>3, <1>4 DEF PostprocessNext

\* abort_batch, for the next request of a batch whose forward pass ran out of memory.
LEMMA AbortNextStep ==
  ASSUME QueueInv, Idle, NEW prefill \in BOOLEAN,
         ~prefill => pc = "oomDecode", prefill => pc = "oomPrefill",
         AbortNext(prefill, IF prefill THEN prefillBatch ELSE decodeBatch)
  PROVE  QueueInv'
<1> DEFINE batch == IF prefill THEN prefillBatch ELSE decodeBatch
           r == Head(batch)
<1>0. /\ batch # << >> /\ TakeFromBatch(prefill)
      /\ Abort(r) /\ running' = RemoveFirst(running, r) /\ Report(r)
      /\ UNCHANGED <<tokenIds, numCached, numScheduled, numPrompt, numSwapped, pc, stepMode>>
  BY DEF AbortNext, swapVars
<1>1. r \in Requests BY <1>0, TakenFromBatch
<1>2. ~Contains(waiting, r) \/ status[r] = "waiting"
  BY <1>1 DEF QueueInv, QueueOfStatus
<1> HIDE DEF r
<1>3. /\ status' = [status EXCEPT ![r] = "aborted"]
      /\ call' = NoCall \/ (call'.op = "deallocate" /\ call'.seq = r)
      /\ waiting' \in Seq(Requests) /\ IsInjective(waiting')
      /\ \A q : Contains(waiting', q) <=> Contains(waiting, q) /\ q # r
      /\ pendingAborts' \in Seq(Requests)
      /\ \A q : Contains(pendingAborts', q) <=> Contains(pendingAborts, q) \/ q = r
  BY <1>0, <1>1, <1>2, AbortEffect
<1>4. "aborted" \in {"finished", "aborted"} OBVIOUS
<1> QED BY <1>0, <1>3, <1>4, BatchEndsRequest DEF r

\* Every step keeps the invariant.
LEMMA NextQueueInv == QueueInv /\ [Next]_vars => QueueInv'
<1> SUFFICES ASSUME QueueInv, [Next]_vars PROVE QueueInv'
  OBVIOUS
<1>1. CASE \E r \in Requests : AddRequest(r) BY <1>1, AddRequestStep
<1>2. CASE StartStep BY <1>2, StartStepStep
<1>3. CASE ScheduleStep
  <2>1. UNCHANGED <<reported, stepMode>> BY <1>3 DEF ScheduleStep
  <2> QED
    BY <1>3, <2>1, SwapInStep, SwapInDoneStep, PrefillAllocateStep, PrefillScheduleStep,
       PrefillDoneStep, DecodeAdmitStep, DecodePreemptLastStep, DecodeAbortStep,
       DecodePreemptSelfStep, DecodeDoneStep DEF ScheduleStep
<1>4. CASE BlockManagerStep BY <1>4, BlockManagerStepStep
<1>5. CASE CopyOut \/ CopyIn BY <1>5, CopyStep
<1>6. CASE DrainAborts BY <1>6, DrainAbortsStep
<1>7. CASE RunPrefill \/ RunDecode BY <1>7, RunStep
<1>8. CASE EndBatch BY <1>8, EndBatchStep
<1>9. CASE BatchStep
  <2>1. CASE At("postPrefill") /\ PostprocessNext(TRUE, prefillBatch)
    BY <2>1, PostprocessNextStep DEF At
  <2>2. CASE At("postDecode") /\ PostprocessNext(FALSE, decodeBatch)
    BY <2>2, PostprocessNextStep DEF At
  <2>3. CASE At("oomPrefill") /\ AbortNext(TRUE, prefillBatch)
    BY <2>3, AbortNextStep DEF At
  <2>4. CASE At("oomDecode") /\ AbortNext(FALSE, decodeBatch)
    BY <2>4, AbortNextStep DEF At
  <2> QED BY <1>9, <2>1, <2>2, <2>3, <2>4 DEF BatchStep
<1>10. CASE UNCHANGED vars
  <2>1. UNCHANGED <<waiting, running, prefillBatch, decodeBatch, numBatchTokens, pendingAborts,
                    stepMode, status, tokenIds, numCached, numScheduled, numSwapped, numPrompt,
                    reported, call, pc>>
    BY <1>10 DEF vars, requestVars, batchVars, bmVars, swapVars
  <2>2. QueueTypes' BY <2>1 DEF QueueInv, QueueTypes
  <2>3. ProgressTypes' BY <2>1 DEF QueueInv, ProgressTypes
  <2>4. NoDuplicates' BY <2>1 DEF QueueInv, NoDuplicates
  <2>5. QueueOfStatus' BY <2>1 DEF QueueInv, QueueOfStatus, Runs, Live
  <2>6. BatchesInPhase' BY <2>1 DEF QueueInv, BatchesInPhase
  <2>7. ScheduledInBatch' BY <2>1 DEF QueueInv, ScheduledInBatch, InBatch, Live, NumTokens
  <2>8. CallOutsideBatch' BY <2>1 DEF QueueInv, CallOutsideBatch, InBatch, Live, NumTokens
  <2>9. TokensLeft' BY <2>1 DEF QueueInv, TokensLeft, NumTokens
  <2>10. LengthBounds' BY <2>1 DEF QueueInv, LengthBounds, Live, NumTokens
  <2>11. Reports' BY <2>1 DEF QueueInv, Reports, Ended
  <2> QED BY <2>2, <2>3, <2>4, <2>5, <2>6, <2>7, <2>8, <2>9, <2>10, <2>11 DEF QueueInv
<1> QED BY <1>1, <1>2, <1>3, <1>4, <1>5, <1>6, <1>7, <1>8, <1>9, <1>10 DEF Next, EngineStep

----------------------------------------------------------------------------
(***************************************************************************)
(* The theorems.                                                           *)
(***************************************************************************)

\* The invariant above holds in every reachable state, in every configuration.
THEOREM QueueInvariance == Spec => []QueueInv
<1>1. Init => QueueInv BY InitQueueInv
<1>2. QueueInv /\ [Next]_vars => QueueInv' BY NextQueueInv
<1> QED BY <1>1, <1>2, PTL DEF Spec

\* Between steps every live request is in exactly one queue, once, and in the one
\* its status names: no early return of the decode loop orphans a request
\* (scheduler.py:253-257).
THEOREM RequestsInOneQueue == Spec => []OneQueue
<1>1. QueueInv => OneQueue
  <2> SUFFICES ASSUME QueueInv, At("idle"), NEW r \in Requests
               PROVE  /\ status[r] = "waiting" => OccursOnce(r, waiting)
                      /\ status[r] = "running" => OccursOnce(r, running)
                      /\ Contains(waiting, r) => status[r] = "waiting"
                      /\ Contains(running, r) => status[r] = "running"
    BY DEF OneQueue
  <2>1. ASSUME NEW s \in Seq(Requests), IsInjective(s), Contains(s, r)
        PROVE  OccursOnce(r, s)
    <3>1. PICK k \in 1 .. Len(s) : s[k] = r BY <2>1 DEF Contains
    <3>2. DOMAIN s = 1 .. Len(s) OBVIOUS
    <3>3. {i \in DOMAIN s : s[i] = r} = {k} BY <2>1, <3>1, <3>2 DEF IsInjective
    <3>4. Cardinality({k}) = 1 BY FS_Singleton
    <3> QED BY <3>3, <3>4 DEF OccursOnce
  <2>2. pc = "idle" BY DEF At
  <2>3. /\ Contains(waiting, r) <=> status[r] = "waiting"
        /\ Contains(running, r) <=> status[r] = "running"
    BY <2>2 DEF QueueInv, QueueOfStatus, Runs
  <2> QED BY <2>1, <2>3 DEF QueueInv, QueueTypes, NoDuplicates
<1> QED BY <1>1, QueueInvariance, PTL

\* Between steps the requests reported to the caller are exactly those that have
\* ended, also after forward passes that ran out of memory (llm_engine.py:83-101).
THEOREM EndsAreReported == Spec => []EndedIsReported
<1>1. QueueInv => EndedIsReported
  BY DEF QueueInv, EndedIsReported, Reports, At
<1> QED BY <1>1, QueueInvariance, PTL

----------------------------------------------------------------------------
(***************************************************************************)
(* Engine implements Generation.                                           *)
(***************************************************************************)

\* A token appended to a request leaves its prompt alone and extends its completion.
LEMMA CompletionGrows ==
  ASSUME NEW s \in Seq(Token), NEW p \in 0 .. Len(s), NEW token \in Token
  PROVE  /\ SubSeq(Append(s, token), 1, p) = SubSeq(s, 1, p)
         /\ SubSeq(Append(s, token), p + 1, Len(s) + 1) = Append(SubSeq(s, p + 1, Len(s)), token)
<1> DEFINE t == Append(s, token)
           u == SubSeq(t, p + 1, Len(s) + 1)
           c == SubSeq(s, p + 1, Len(s))
           v == Append(c, token)
<1>1. t \in Seq(Token) /\ Len(t) = Len(s) + 1 /\ Len(s) \in Nat
      /\ (\A i \in 1 .. Len(s) : t[i] = s[i]) /\ t[Len(s) + 1] = token
  OBVIOUS
<1> HIDE DEF t
<1>2. SubSeq(t, 1, p) = SubSeq(s, 1, p)
  <2> DEFINE a == SubSeq(t, 1, p)
             b == SubSeq(s, 1, p)
  <2>1. a \in Seq(Token) /\ Len(a) = p /\ \A i \in 1 .. p : a[i] = t[i] BY <1>1
  <2>2. b \in Seq(Token) /\ Len(b) = p /\ \A i \in 1 .. p : b[i] = s[i] BY <1>1
  <2> HIDE DEF a, b
  <2>3. \A i \in 1 .. p : a[i] = b[i] BY <1>1, <2>1, <2>2
  <2>4. a = b BY <2>1, <2>2, <2>3
  <2> QED BY <2>4 DEF a, b
<1>3. u \in Seq(Token) /\ Len(u) = Len(s) + 1 - p
      /\ \A i \in 1 .. Len(s) + 1 - p : u[i] = t[p + i]
  <2>1. p \in Nat /\ p <= Len(s) BY <1>1
  <2>2. u \in Seq(Token) BY <1>1, <2>1
  <2>3. Len(u) = Len(s) + 1 - p BY <1>1, <2>1
  <2>4. ASSUME NEW i \in 1 .. Len(s) + 1 - p PROVE u[i] = t[p + i]
    <3>1. u[i] = t[p + 1 + i - 1] BY <1>1, <2>1
    <3>2. p + 1 + i - 1 = p + i BY <1>1, <2>1
    <3> QED BY <3>1, <3>2
  <2> QED BY <2>2, <2>3, <2>4
<1>4. c \in Seq(Token) /\ Len(c) = Len(s) - p /\ \A i \in 1 .. Len(s) - p : c[i] = s[p + i]
  OBVIOUS
<1> HIDE DEF c, u
<1>5. v \in Seq(Token) /\ Len(v) = Len(c) + 1 /\ (\A i \in 1 .. Len(c) : v[i] = c[i])
      /\ v[Len(c) + 1] = token
  BY <1>4
<1> HIDE DEF v
<1>6. Len(u) = Len(v) BY <1>1, <1>3, <1>4, <1>5
<1>7. ASSUME NEW i \in 1 .. Len(u) PROVE u[i] = v[i]
  <2>1. CASE i <= Len(s) - p
    <3>1. u[i] = t[p + i] /\ v[i] = c[i] /\ c[i] = s[p + i] /\ p + i \in 1 .. Len(s)
      BY <1>1, <1>3, <1>4, <1>5, <2>1
    <3> QED BY <1>1, <3>1
  <2>2. CASE i > Len(s) - p
    <3>1. i = Len(s) + 1 - p
      <4>1. Len(u) = Len(s) + 1 - p /\ Len(s) \in Int /\ p \in Int BY <1>1, <1>3
      <4>2. i \in Int /\ i <= Len(u) BY <4>1
      <4> QED BY <4>1, <4>2, <2>2
    <3>2. u[i] = t[Len(s) + 1] /\ v[i] = token BY <1>1, <1>3, <1>4, <1>5, <3>1
    <3> QED BY <1>1, <3>2
  <2> QED BY <1>1, <2>1, <2>2
<1>8. u = v BY <1>3, <1>5, <1>6, <1>7
<1> QED BY <1>1, <1>2, <1>8 DEF u, v, c, t

\* Between waiting and running the caller sees no difference.
LEMMA ServiceStutter ==
  ASSUME UNCHANGED <<tokenIds, numPrompt>>,
         \A r \in Requests : status'[r] = status[r] \/ (Live(r) /\ Live(r)')
  PROVE  UNCHANGED <<promptOf, completionOf, outcomeOf>>
<1>1. promptOf' = promptOf /\ completionOf' = completionOf
  BY DEF promptOf, completionOf, NumTokens
<1>2. outcomeOf' = outcomeOf BY DEF outcomeOf, Live
<1> QED BY <1>1, <1>2

\* An aborted request is aborted for the caller.
LEMMA ServiceAbort ==
  ASSUME NEW r \in Requests, Live(r), UNCHANGED <<tokenIds, numPrompt>>,
         status \in [Requests ->
           {"new", "rejected", "waiting", "running", "finished", "aborted"}],
         status' = [status EXCEPT ![r] = "aborted"]
  PROVE  Service!Next
<1>1. promptOf' = promptOf /\ completionOf' = completionOf
  BY DEF promptOf, completionOf, NumTokens
<1>2. outcomeOf[r] = "accepted" BY DEF outcomeOf, Live
<1>3. outcomeOf' = [outcomeOf EXCEPT ![r] = "aborted"] BY DEF outcomeOf
<1> QED BY <1>1, <1>2, <1>3 DEF Service!Next, Service!Abort

\* A sampled token is generated for the caller, and ends the request when it says so.
LEMMA ServiceGenerate ==
  ASSUME QueueInv, NEW r \in Requests, Live(r), NEW token \in Token, AppendToken(r, token),
         numPrompt' = numPrompt,
         status' = IF EndsRequest(r, token)
                   THEN [status EXCEPT ![r] = "finished"] ELSE status
  PROVE  Service!Next
<1> DEFINE s == tokenIds[r]
           p == numPrompt[r]
<1>1. s \in Seq(Token) /\ p \in 0 .. Len(s) /\ NumTokens(r) = Len(s)
      /\ tokenIds \in [Requests -> Seq(Token)]
      /\ status \in [Requests ->
           {"new", "rejected", "waiting", "running", "finished", "aborted"}]
  BY DEF QueueInv, ProgressTypes, LengthBounds, NumTokens
<1>2. tokenIds' = [tokenIds EXCEPT ![r] = Append(s, token)]
  BY DEF AppendToken
<1>3. /\ SubSeq(Append(s, token), 1, p) = SubSeq(s, 1, p)
      /\ SubSeq(Append(s, token), p + 1, Len(s) + 1) = Append(SubSeq(s, p + 1, Len(s)), token)
      /\ Len(Append(s, token)) = Len(s) + 1
  <2>1. Len(Append(s, token)) = Len(s) + 1 BY <1>1
  <2> HIDE DEF s, p
  <2> QED BY <1>1, <2>1, CompletionGrows
<1>4. promptOf' = promptOf
  <2>1. \A q \in Requests :
            SubSeq(tokenIds'[q], 1, numPrompt'[q]) = SubSeq(tokenIds[q], 1, numPrompt[q])
    BY <1>1, <1>2, <1>3
  <2> QED BY <2>1 DEF promptOf
<1>5. completionOf' = [completionOf EXCEPT ![r] = Append(@, token)]
  <2>1. \A q \in Requests :
          SubSeq(tokenIds'[q], numPrompt'[q] + 1, Len(tokenIds'[q]))
          = IF q = r THEN Append(SubSeq(s, p + 1, Len(s)), token)
            ELSE SubSeq(tokenIds[q], numPrompt[q] + 1, Len(tokenIds[q]))
    BY <1>1, <1>2, <1>3
  <2> QED BY <2>1 DEF completionOf, NumTokens
<1>6. /\ completionOf'[r] = Append(completionOf[r], token)
      /\ completionOf[r] \in Seq(Token) /\ Len(completionOf[r]) = Len(s) - p
  <2>1. completionOf[r] = SubSeq(s, p + 1, Len(s)) BY DEF completionOf, NumTokens
  <2>2. SubSeq(s, p + 1, Len(s)) \in Seq(Token) /\ Len(SubSeq(s, p + 1, Len(s))) = Len(s) - p
    BY <1>1
  <2>3. completionOf'[r] = Append(completionOf[r], token)
    BY <1>5 DEF completionOf
  <2> QED BY <2>1, <2>2, <2>3
<1>7. Service!IsComplete(completionOf'[r]) <=> EndsRequest(r, token)
  <2>1. Len(completionOf'[r]) = Len(s) - p + 1 /\ completionOf'[r] # << >>
        /\ completionOf'[r][Len(completionOf'[r])] = token
    BY <1>6
  <2>2. Len(s) - p + 1 = NumTokens(r) + 1 - numPrompt[r] BY <1>1
  <2> QED BY <2>1, <2>2 DEF Service!IsComplete, EndsRequest
<1>8. outcomeOf[r] = "accepted" BY DEF outcomeOf, Live
<1>9. outcomeOf' = IF Service!IsComplete(completionOf'[r])
                   THEN [outcomeOf EXCEPT ![r] = "finished"] ELSE outcomeOf
  BY <1>1, <1>7 DEF outcomeOf
<1>10. Service!Generate(r, token) BY <1>4, <1>5, <1>8, <1>9 DEF Service!Generate
<1> QED BY <1>10 DEF Service!Next

\* The engine starts where the service starts.
LEMMA ServiceInit == Init => Service!Init
<1> SUFFICES ASSUME Init PROVE Service!Init
  OBVIOUS
<1>1. \A r \in Requests : tokenIds[r] \in Seq(Token) /\ numPrompt[r] = Len(tokenIds[r])
  BY EngineAssumption DEF Init, SchedulerInit, EngineAssumption, NumTokens
<1>2. \A r \in Requests : SubSeq(tokenIds[r], 1, numPrompt[r]) \in Seq(Token)
  BY <1>1
<1>3. \A r \in Requests : SubSeq(tokenIds[r], numPrompt[r] + 1, NumTokens(r)) = << >>
  BY <1>1 DEF NumTokens
<1>4. promptOf \in [Requests -> Seq(Token)] BY <1>2 DEF promptOf
<1>5. completionOf = [r \in Requests |-> << >>] BY <1>3 DEF completionOf
<1>6. outcomeOf = [r \in Requests |-> "new"] BY DEF outcomeOf, Init, SchedulerInit
<1> QED BY <1>4, <1>5, <1>6 DEF Service!Init

\* The next request of a batch: a chunk shows nothing, a token is generated.
LEMMA ServicePostprocess ==
  ASSUME QueueInv, NEW prefill \in BOOLEAN,
         ~prefill => pc = "postDecode", prefill => pc = "postPrefill",
         PostprocessNext(prefill, IF prefill THEN prefillBatch ELSE decodeBatch)
  PROVE  Service!Next \/ UNCHANGED <<promptOf, completionOf, outcomeOf>>
<1> DEFINE batch == IF prefill THEN prefillBatch ELSE decodeBatch
           r == Head(batch)
<1>0. batch # << >> /\ TakeFromBatch(prefill) /\ UNCHANGED <<numPrompt, pc, stepMode>>
  BY DEF PostprocessNext
<1>1. r \in Requests /\ Live(r)
  BY <1>0, TakenFromBatch
<1>2. CASE prefill /\ PostprocessChunk(r) /\ UNCHANGED reported
  BY <1>0, <1>2, ServiceStutter DEF PostprocessChunk
<1>3. ASSUME NEW token \in Token, PostprocessToken(r, token) \/ PostprocessLast(r, token)
      PROVE  Service!Next
  <2> HIDE DEF r
  <2>1. /\ AppendToken(r, token)
        /\ status' = IF EndsRequest(r, token)
                     THEN [status EXCEPT ![r] = "finished"] ELSE status
    BY <1>3 DEF PostprocessToken, PostprocessLast
  <2> QED BY <1>0, <1>1, <2>1, ServiceGenerate
<1> QED BY <1>2, <1>3 DEF PostprocessNext

\* Every step of the engine is a step of the service, or nothing to its caller.
LEMMA ServiceNext == QueueInv /\ [Next]_vars => [Service!Next]_<<promptOf, completionOf, outcomeOf>>
<1> SUFFICES ASSUME QueueInv, [Next]_vars
             PROVE  Service!Next \/ UNCHANGED <<promptOf, completionOf, outcomeOf>>
  OBVIOUS
<1>t. status \in [Requests ->
        {"new", "rejected", "waiting", "running", "finished", "aborted"}]
  BY DEF QueueInv, ProgressTypes
<1>1. ASSUME NEW r \in Requests, AddRequest(r) PROVE Service!Next
  <2>1. /\ status[r] = "new" /\ UNCHANGED <<tokenIds, numPrompt>>
        /\ \/ status' = [status EXCEPT ![r] = "rejected"]
           \/ status' = [status EXCEPT ![r] = "waiting"]
    BY <1>1 DEF AddRequest, Add
  <2>2. promptOf' = promptOf /\ completionOf' = completionOf
    BY <2>1 DEF promptOf, completionOf, NumTokens
  <2>3. outcomeOf[r] = "new" BY <2>1 DEF outcomeOf
  <2>4. \/ outcomeOf' = [outcomeOf EXCEPT ![r] = "rejected"]
        \/ outcomeOf' = [outcomeOf EXCEPT ![r] = "accepted"]
    BY <1>t, <2>1 DEF outcomeOf
  <2>5. Service!Submit(r) BY <2>2, <2>3, <2>4 DEF Service!Submit
  <2> QED BY <2>5 DEF Service!Next
<1>2. CASE UNCHANGED <<tokenIds, numPrompt, status>>
  BY <1>2, ServiceStutter
<1>3. CASE ScheduleStep
  <2>1. CASE UNCHANGED status
    <3>1. UNCHANGED <<tokenIds, numPrompt>>
      BY <1>3 DEF ScheduleStep, SwapInNext, SwapInDone, PrefillAllocate, PrefillSchedule,
         PrefillDone, DecodeAdmit, DecodePreemptLast, DecodeAbort, DecodePreemptSelf, DecodeDone
    <3> QED BY <2>1, <3>1, <1>2
  <2>2. CASE SwapInNext
    <3>1. PICK k \in 1 .. Len(waiting) : SwapIn(waiting[k]) BY <2>2 DEF SwapInNext
    <3>2. /\ waiting[k] \in Requests /\ status[waiting[k]] = "waiting"
          /\ status' = [status EXCEPT ![waiting[k]] = "running"]
      BY <3>1, InQueue DEF SwapIn, QueueInv, QueueTypes, QueueOfStatus
    <3> HIDE <1>3
    <3> QED BY <2>2, <3>2, <1>t, ServiceStutter DEF SwapInNext, Live
  <2>3. CASE PrefillSchedule
    <3>1. PICK r \in Requests : Candidate(r) /\ ScheduleChunk(r, Todo(r, numCached[r]))
      BY <2>3 DEF PrefillSchedule
    <3>2. status[r] = "waiting" BY <2>3, <3>1, CandidateIsWaiting DEF PrefillSchedule, At
    <3>3. status' = [status EXCEPT ![r] = "running"] \/ status' = status
      BY <3>1 DEF ScheduleChunk
    <3> QED BY <2>3, <3>2, <3>3, <1>t, ServiceStutter DEF PrefillSchedule, Live
  <2>4. CASE DecodePreemptLast
    <3>1. /\ pc = "decode" /\ running # << >> /\ Preempt(Last(running))
          /\ UNCHANGED <<tokenIds, numPrompt>>
      BY <2>4 DEF DecodePreemptLast, NeedsVictim, MoreDecode, At
    <3>2. Last(running) \in Requests /\ status[Last(running)] = "running"
      BY <3>1, PoppedLast DEF QueueInv, QueueTypes, NoDuplicates, QueueOfStatus, Runs
    <3>3. status' = [status EXCEPT ![Last(running)] = "waiting"] BY <3>1 DEF Preempt
    <3> QED BY <3>1, <3>2, <3>3, <1>t, ServiceStutter DEF Live
  <2>5. CASE DecodePreemptSelf(AfterDecode) \/ DecodeAbort(AfterDecode)
    <3>1. Len(running) = 1 /\ UNCHANGED <<tokenIds, numPrompt>> /\ pc = "decode"
      BY <2>5 DEF DecodePreemptSelf, DecodeAbort, NeedsVictim, At
    <3>2. running[1] \in Requests /\ status[running[1]] = "running"
      BY <3>1, OnlyOneRuns DEF QueueInv, QueueOfStatus, Runs
    <3>3. \/ status' = [status EXCEPT ![running[1]] = "waiting"]
          \/ status' = [status EXCEPT ![running[1]] = "aborted"]
      BY <2>5 DEF DecodePreemptSelf, DecodeAbort, Preempt, Abort
    <3>4. CASE status' = [status EXCEPT ![running[1]] = "waiting"]
      BY <3>1, <3>2, <3>4, <1>t, ServiceStutter DEF Live
    <3>5. CASE status' = [status EXCEPT ![running[1]] = "aborted"]
      BY <3>1, <3>2, <3>5, <1>t, ServiceAbort DEF Live
    <3> QED BY <3>3, <3>4, <3>5
  <2> QED
    BY <1>3, <2>1, <2>2, <2>3, <2>4, <2>5
    DEF ScheduleStep, SwapInDone, PrefillAllocate, PrefillDone, DecodeAdmit, DecodeDone
<1>4. CASE BatchStep
  <2>1. CASE At("postPrefill") /\ PostprocessNext(TRUE, prefillBatch)
    BY <2>1, ServicePostprocess DEF At
  <2>2. CASE At("postDecode") /\ PostprocessNext(FALSE, decodeBatch)
    BY <2>2, ServicePostprocess DEF At
  <2>3. ASSUME NEW prefill \in BOOLEAN,
               prefill => At("oomPrefill"), ~prefill => At("oomDecode"),
               AbortNext(prefill, IF prefill THEN prefillBatch ELSE decodeBatch)
        PROVE  Service!Next
    <3> DEFINE batch == IF prefill THEN prefillBatch ELSE decodeBatch
               r == Head(batch)
    <3>1. /\ batch # << >> /\ TakeFromBatch(prefill) /\ Abort(r)
          /\ UNCHANGED <<tokenIds, numPrompt, pc, stepMode>>
      BY <2>3 DEF AbortNext
    <3>2. r \in Requests /\ Live(r)
      BY <2>3, <3>1, TakenFromBatch DEF At
    <3> HIDE DEF r
    <3>3. status' = [status EXCEPT ![r] = "aborted"] BY <3>1 DEF Abort
    <3> QED BY <3>1, <3>2, <3>3, <1>t, ServiceAbort
  <2>4. CASE At("oomPrefill") /\ AbortNext(TRUE, prefillBatch)
    BY <2>3, <2>4
  <2>5. CASE At("oomDecode") /\ AbortNext(FALSE, decodeBatch)
    BY <2>3, <2>5
  <2> QED BY <1>4, <2>1, <2>2, <2>4, <2>5 DEF BatchStep
<1>5. CASE \/ StartStep \/ BlockManagerStep \/ CopyOut \/ CopyIn \/ DrainAborts
           \/ RunPrefill \/ RunDecode \/ EndBatch \/ UNCHANGED vars
  <2>1. UNCHANGED <<tokenIds, numPrompt, status>>
    BY <1>5 DEF StartStep, BlockManagerStep, CallStep, CopyOut, CopyIn, DrainAborts, RunPrefill,
       RunDecode, Run, EndBatch, vars, requestVars
  <2> QED BY <1>2, <2>1
<1> QED BY <1>1, <1>3, <1>4, <1>5 DEF Next, EngineStep

\* The engine implements what Generation promises its caller: preemption,
\* recomputation and swapping never lose, repeat or add a token of a request, nor
\* revive one that has ended (sequence.py:40, scheduler.py:453).
THEOREM PromisesKept == Spec => KeepsPromises
<1>1. Init => Service!Init BY ServiceInit
<1>2. QueueInv /\ [Next]_vars => [Service!Next]_<<promptOf, completionOf, outcomeOf>>
  BY ServiceNext
<1> QED BY <1>1, <1>2, QueueInvariance, PTL DEF Spec, KeepsPromises, Service!Spec, Service!vars

============================================================================
