--------------------------- MODULE TPChannel_proofs ---------------------------
(***************************************************************************)
(* Theorems about TPChannel, for any number of workers, of collectives in  *)
(* a forward pass, and of calls.                                           *)
(*                                                                         *)
(* Nothing acknowledges a call: rank 0 writes the next one as soon as it   *)
(* has finished its own forward pass.  What keeps the ranks together is    *)
(* that a forward pass ends in a collective which every rank has to join,  *)
(* so the argument is about counts: where each worker is when rank 0 is    *)
(* at a given place, and how many collectives a rank has joined by then.   *)
(***************************************************************************)
EXTENDS TPChannel, TLAPS

-----------------------------------------------------------------------------
(***************************************************************************)
(* The types of the variables.                                             *)
(***************************************************************************)
PcLabels ==
  {"init", "initBarrier", "idle", "length", "data", "dataEnd", "signal", "wait", "read",
   "clear", "execute", "sample", "exitBarrier", "join", "stopped", "dead"}

\* The calls, the shared segment and the events.
ChannelTypes ==
  /\ calls \in Seq(Methods \cup {"exit"}) /\ oom \in BOOLEAN
  /\ shmExists \in BOOLEAN /\ shmOpen \subseteq Ranks
  /\ shmLength \in 0 .. Len(calls) /\ shmData \in 0 .. Len(calls)
  /\ event \in [Workers -> BOOLEAN]
  /\ signalled \in 0 .. NumWorkers
  /\ pc[0] = "signal" => signalled < NumWorkers
  /\ pc[0] \in {"length", "data", "dataEnd", "signal"} => calls # << >>

\* Where each rank is.
PcTypes ==
  /\ pc \in [Ranks -> PcLabels]
  /\ \A w \in Workers : pc[w] = "clear" => current[w] > 0
  /\ \A r \in Ranks : pc[r] \in {"init", "execute"} => joined[r] < NumCollectives

\* What each rank has read, executed and joined.
RankTypes ==
  /\ readLength \in [Workers -> 0 .. Len(calls)]
  /\ current \in [Ranks -> 0 .. Len(calls)]
  /\ executed \in [Ranks -> Seq(1 .. Len(calls))]
  /\ joined \in [Ranks -> 0 .. NumCollectives]
  /\ entered \in [Ranks -> Seq(Nat \X (1 .. NumCollectives))]

-----------------------------------------------------------------------------
(***************************************************************************)
(* The invariant that keeps the ranks together, as long as nothing disturbs *)
(* them: no rank runs out of memory and no swap method is called.          *)
(***************************************************************************)
\* The calls made so far.
K == Len(calls)
\* The calls rank r has taken up.
Count(r) == Len(executed[r])
\* The collectives joined before call k + 1: the first barrier and those of k passes.
Before(k) == 1 + NumCollectives * k

\* A rank between two calls, whatever it does there.
AtRest == {"idle", "length", "data", "dataEnd", "signal", "wait", "read", "clear", "sample"}
\* A rank on its way out of the exit call.
Leaving == {"exitBarrier", "join", "stopped"}

TypeInv == ChannelTypes /\ PcTypes /\ RankTypes

\* The i-th collective of a rank can only be this one.
Place(entry, i) ==
  \/ i = 1 /\ entry = <<0, 1>>
  \/ entry[1] > 0 /\ i = Before(entry[1] - 1) + entry[2]

\* A rank has executed the calls in order, joined all collectives of those it finished
\* and the first joined[r] of the one it is in.
RankOk(r) ==
  /\ \A i \in DOMAIN executed[r] : executed[r][i] = i
  /\ \A i \in DOMAIN entered[r] : Place(entered[r][i], i)
  /\ pc[r] \in {"init", "initBarrier"} =>
       /\ Count(r) = 0 /\ current[r] = 0 /\ joined[r] = 0
       /\ Len(entered[r]) = IF pc[r] = "init" THEN 0 ELSE 1
  /\ pc[r] \in AtRest =>
       /\ Len(entered[r]) = Before(Count(r))
       /\ Count(r) > 0 => calls[Count(r)] = "run"
  /\ pc[r] = "execute" =>
       /\ Count(r) > 0 /\ current[r] = Count(r)
       /\ Len(entered[r]) = Before(Count(r) - 1) + joined[r]
       /\ calls[Count(r)] = "exit" => joined[r] = 0
  /\ pc[r] \in Leaving =>
       /\ Count(r) > 0 /\ calls[Count(r)] = "exit"
       /\ Len(entered[r]) = Before(Count(r) - 1) + 1

\* Only the last call may be the exit.
CallsOk ==
  /\ \A i \in 1 .. K : calls[i] \in {"run", "exit"}
  /\ \A i \in 1 .. K - 1 : calls[i] = "run"

\* Worker w has taken up n calls and waits for the next.
Waits(w, n) == ~event[w] /\ Count(w) = n /\ pc[w] \in {"initBarrier", "wait"}

\* Worker w has been signalled the last call and has not taken it up yet.
Takes(w) ==
  /\ event[w] /\ Count(w) = K - 1
  /\ pc[w] \in {"initBarrier", "wait", "read", "clear"}
  /\ pc[w] = "read" => readLength[w] = K
  /\ pc[w] = "clear" => current[w] = K

\* Worker w has taken up the last call: it executes it, or is done with it.
HasTaken(w) ==
  /\ ~event[w] /\ Count(w) = K
  /\ pc[w] \in {"execute", "wait", "exitBarrier", "stopped"}

Engaged(w) == Takes(w) \/ HasTaken(w)

\* Where the workers are while rank 0 starts up, ...
Starting ==
  /\ pc[0] \in {"init", "initBarrier"} => K = 0
  /\ pc[0] = "init" => \A w \in Workers : ~event[w] /\ pc[w] \in {"init", "initBarrier"}
  /\ pc[0] = "initBarrier" =>
       \A w \in Workers : ~event[w] /\ Count(w) = 0 /\ pc[w] \in {"init", "initBarrier", "wait"}

\* ... while it is idle or writes a call, ...
Writing ==
  /\ pc[0] = "idle" => K = Count(0)
  /\ pc[0] \in {"length", "data", "dataEnd"} => K = Count(0) + 1
  /\ pc[0] \in {"data", "dataEnd"} => shmLength = K
  /\ pc[0] \in {"idle", "length", "data", "dataEnd"} =>
       \A w \in Workers : Waits(w, Count(0))

\* ... while it sets the events one by one, ...
Signalling ==
  pc[0] = "signal" =>
    /\ K = Count(0) + 1 /\ shmLength = K /\ shmData = K
    /\ \A w \in Workers : IF w <= signalled THEN Engaged(w) ELSE Waits(w, K - 1)

\* ... while it executes the call or leaves, ...
Working ==
  pc[0] \in {"execute", "sample"} \cup Leaving =>
    /\ K = Count(0) /\ shmLength = K /\ shmData = K
    /\ \A w \in Workers : Engaged(w)

\* ... and once it has passed the barrier of the exit.
Ending ==
  pc[0] \in {"join", "stopped"} => \A w \in Workers : pc[w] \in {"exitBarrier", "stopped"}

\* Which ranks have the segment mapped.
Segment ==
  /\ shmExists <=> pc[0] \notin {"init", "join", "stopped"}
  /\ 0 \in shmOpen <=> pc[0] \notin {"init"} \cup Leaving
  /\ \A w \in Workers : w \in shmOpen <=> pc[w] \in {"wait", "read", "clear", "execute"}

\* The places of rank 0, which never waits for an event.
MainLabels ==
  pc[0] \in {"init", "initBarrier", "idle", "length", "data", "dataEnd", "signal", "execute",
            "sample"} \cup Leaving

Together ==
  /\ MainLabels
  /\ \A r \in Ranks : RankOk(r)
  /\ CallsOk /\ Starting /\ Writing /\ Signalling /\ Working /\ Ending /\ Segment

(***************************************************************************)
(* Types.  What a rank keeps of its own is typed by RankTypes.             *)
(***************************************************************************)
LEMMA RanksAndWorkers ==
  /\ NumWorkers \in Nat \ {0} /\ NumCollectives \in Nat \ {0}
  /\ Workers \subseteq Ranks /\ 0 \in Ranks /\ 0 \notin Workers
  /\ Ranks \subseteq Int
  /\ \A r \in Ranks : r # 0 => r \in Workers
BY ChannelAssumption DEF Workers, Ranks

LEMMA TypeInvTypeOK == TypeInv => TypeOK
<1>1. ChannelTypes /\ PcTypes /\ RankTypes => TypeOK
  BY DEF TypeOK, ChannelTypes, PcTypes, PcLabels, RankTypes
<1>2. QED
  BY <1>1 DEF TypeInv

LEMMA InitTypeInv == Init => TypeInv
<1> SUFFICES ASSUME Init PROVE TypeInv
  OBVIOUS
<1> USE RanksAndWorkers DEF Init
<1>1. ChannelTypes
  BY DEF ChannelTypes, Torn
<1>2. PcTypes /\ RankTypes
  BY DEF PcTypes, PcLabels, RankTypes
<1>3. QED
  BY <1>1, <1>2 DEF TypeInv

\* A rank that enters a collective of its current call.
LEMMA EnterTypes ==
  ASSUME TypeInv, NEW r \in Ranks, Enter(r), joined[r] < NumCollectives
  PROVE  entered' \in [Ranks -> Seq(Nat \X (1 .. NumCollectives))]
<1> DEFINE entry == <<current[r], joined[r] + 1>>
<1>1. entry \in Nat \X (1 .. NumCollectives)
  BY RanksAndWorkers DEF TypeInv, RankTypes
<1>2. entered \in [Ranks -> Seq(Nat \X (1 .. NumCollectives))]
  BY DEF TypeInv, RankTypes
<1>3. entered' = [entered EXCEPT ![r] = Append(@, entry)]
  BY DEF Enter
<1> HIDE DEF entry
<1>4. QED
  BY <1>1, <1>2, <1>3

\* A rank that begins to execute a call.
LEMMA BeginTypes ==
  ASSUME TypeInv, NEW r \in Ranks, NEW call \in 1 .. Len(calls), Begin(r, call),
         UNCHANGED <<calls, entered, readLength>>
  PROVE  RankTypes' /\ PcTypes'
<1>1. executed' \in [Ranks -> Seq(1 .. Len(calls))]
  BY DEF TypeInv, RankTypes, Begin
<1>2. current' \in [Ranks -> 0 .. Len(calls)] /\ joined' \in [Ranks -> 0 .. NumCollectives]
  BY RanksAndWorkers DEF TypeInv, RankTypes, Begin
<1>3. RankTypes'
  BY <1>1, <1>2 DEF TypeInv, RankTypes
<1>4. PcTypes'
  BY <1>2, RanksAndWorkers DEF TypeInv, RankTypes, PcTypes, PcLabels, Begin, Goto
<1>5. QED
  BY <1>3, <1>4

LEMMA StartTypes ==
  ASSUME TypeInv, NEW r \in Ranks, Start(r) PROVE TypeInv'
<1>1. joined[r] < NumCollectives
  BY DEF TypeInv, PcTypes, Start
<1>2. entered' \in [Ranks -> Seq(Nat \X (1 .. NumCollectives))]
  BY <1>1, EnterTypes DEF Start
<1>3. RankTypes'
  BY <1>2 DEF TypeInv, RankTypes, Start
<1>4. PcTypes'
  BY RanksAndWorkers DEF TypeInv, PcTypes, PcLabels, Start, Goto
<1>5. ChannelTypes'
  BY RanksAndWorkers DEF TypeInv, ChannelTypes, PcTypes, Start, Goto
<1>6. QED
  BY <1>3, <1>4, <1>5 DEF TypeInv

LEMMA LeaveInitBarrierTypes ==
  ASSUME TypeInv, NEW r \in Ranks, LeaveInitBarrier(r) PROVE TypeInv'
<1>1. ChannelTypes'
  BY RanksAndWorkers
  DEF TypeInv, ChannelTypes, PcTypes, PcLabels, RankTypes, LeaveInitBarrier, Goto, rankVars
<1>2. PcTypes'
  BY RanksAndWorkers
  DEF TypeInv, ChannelTypes, PcTypes, PcLabels, RankTypes, LeaveInitBarrier, Goto, rankVars
<1>3. RankTypes'
  BY RanksAndWorkers
  DEF TypeInv, ChannelTypes, PcTypes, PcLabels, RankTypes, LeaveInitBarrier, Goto, rankVars
<1>4. QED
  BY <1>1, <1>2, <1>3 DEF TypeInv

LEMMA CallTypes ==
  ASSUME TypeInv, NEW m \in Methods \cup {"exit"}, Call(m) PROVE TypeInv'
<1>1. calls \in Seq(Methods \cup {"exit"})
  BY DEF TypeInv, ChannelTypes
<1>2. /\ calls' \in Seq(Methods \cup {"exit"})
      /\ Len(calls) \in Nat /\ Len(calls') = Len(calls) + 1
  BY <1>1 DEF Call
<1>3. /\ 0 .. Len(calls) \subseteq 0 .. Len(calls')
      /\ Seq(1 .. Len(calls)) \subseteq Seq(1 .. Len(calls'))
  <2>1. 1 .. Len(calls) \subseteq 1 .. Len(calls')
    BY <1>2
  <2>2. QED
    BY <1>2, <2>1
<1>4. calls' # << >>
  BY <1>2
<1>5. ChannelTypes'
  BY <1>2, <1>3, <1>4 DEF TypeInv, ChannelTypes, PcTypes, Call, Goto, shmVars
<1>6. PcTypes'
  BY RanksAndWorkers DEF TypeInv, PcTypes, PcLabels, Call, Goto, rankVars
<1>7. RankTypes'
  BY <1>3 DEF TypeInv, RankTypes, Call, rankVars
<1>8. QED
  BY <1>5, <1>6, <1>7 DEF TypeInv

LEMMA WriteLengthTypes ==
  ASSUME TypeInv, WriteLength PROVE TypeInv'
<1>1. Len(calls) \in Nat
  BY DEF TypeInv, ChannelTypes
<1>2. ChannelTypes'
  BY <1>1, RanksAndWorkers DEF TypeInv, ChannelTypes, PcTypes, WriteLength, Goto, rankVars
<1>3. PcTypes'
  BY RanksAndWorkers DEF TypeInv, PcTypes, PcLabels, WriteLength, Goto, rankVars
<1>4. RankTypes'
  BY DEF TypeInv, RankTypes, WriteLength, Goto, rankVars
<1>5. QED
  BY <1>2, <1>3, <1>4 DEF TypeInv

LEMMA BeginDataTypes ==
  ASSUME TypeInv, BeginData PROVE TypeInv'
<1>1. Len(calls) \in Nat
  BY DEF TypeInv, ChannelTypes
<1>2. ChannelTypes'
  BY <1>1, RanksAndWorkers DEF TypeInv, ChannelTypes, PcTypes, BeginData, Goto, rankVars, Torn
<1>3. PcTypes'
  BY RanksAndWorkers DEF TypeInv, PcTypes, PcLabels, BeginData, Goto, rankVars, Torn
<1>4. RankTypes'
  BY DEF TypeInv, RankTypes, BeginData, Goto, rankVars, Torn
<1>5. QED
  BY <1>2, <1>3, <1>4 DEF TypeInv

LEMMA EndDataTypes ==
  ASSUME TypeInv, EndData PROVE TypeInv'
<1>1. Len(calls) \in Nat
  BY DEF TypeInv, ChannelTypes
<1>2. ChannelTypes'
  BY <1>1, RanksAndWorkers DEF TypeInv, ChannelTypes, PcTypes, EndData, Goto, rankVars
<1>3. PcTypes'
  BY RanksAndWorkers DEF TypeInv, PcTypes, PcLabels, EndData, Goto, rankVars
<1>4. RankTypes'
  BY DEF TypeInv, RankTypes, EndData, Goto, rankVars
<1>5. QED
  BY <1>2, <1>3, <1>4 DEF TypeInv

LEMMA SignalTypes ==
  ASSUME TypeInv, Signal PROVE TypeInv'
<1>1. Len(calls) \in 1 .. Len(calls) /\ signalled + 1 \in Workers
  BY RanksAndWorkers DEF TypeInv, ChannelTypes, Signal, Workers
<1>2. pc' = pc \/ pc'[0] = "execute"
  BY RanksAndWorkers DEF TypeInv, PcTypes, Signal, Begin, Goto
<1>3. signalled + 1 # NumWorkers => signalled' < NumWorkers
  BY <1>1, RanksAndWorkers DEF Signal, Workers
<1>4. signalled + 1 = NumWorkers => pc'[0] = "execute"
  BY RanksAndWorkers DEF TypeInv, PcTypes, Signal, Begin, Goto
<1>5. ChannelTypes'
  <2>1. event' \in [Workers -> BOOLEAN] /\ signalled' \in 0 .. NumWorkers
    BY <1>1, RanksAndWorkers DEF TypeInv, ChannelTypes, Signal, Workers
  <2>2. QED
    BY <1>2, <1>3, <1>4, <2>1 DEF TypeInv, ChannelTypes, Signal, shmVars
<1>6. CASE signalled + 1 = NumWorkers
  <2>1. Begin(0, Len(calls))
    BY <1>6 DEF Signal
  <2>2. RankTypes' /\ PcTypes'
    BY <1>1, <2>1, BeginTypes, RanksAndWorkers DEF Signal
  <2>3. QED
    BY <1>5, <2>2 DEF TypeInv
<1>7. CASE signalled + 1 # NumWorkers
  <2>1. RankTypes' /\ PcTypes'
    BY <1>7 DEF TypeInv, RankTypes, PcTypes, PcLabels, Signal
  <2>2. QED
    BY <1>5, <2>1 DEF TypeInv
<1>8. QED
  BY <1>6, <1>7

LEMMA ReadLengthTypes ==
  ASSUME TypeInv, NEW w \in Workers, ReadLength(w) PROVE TypeInv'
<1>1. ChannelTypes'
  BY RanksAndWorkers
  DEF TypeInv, ChannelTypes, PcTypes, PcLabels, RankTypes, ReadLength, Goto, shmVars
<1>2. PcTypes'
  BY RanksAndWorkers
  DEF TypeInv, ChannelTypes, PcTypes, PcLabels, RankTypes, ReadLength, Goto, shmVars
<1>3. RankTypes'
  BY RanksAndWorkers
  DEF TypeInv, ChannelTypes, PcTypes, PcLabels, RankTypes, ReadLength, Goto, shmVars
<1>4. QED
  BY <1>1, <1>2, <1>3 DEF TypeInv

LEMMA ReadDataTypes ==
  ASSUME TypeInv, NEW w \in Workers, ReadData(w) PROVE TypeInv'
<1>1. ChannelTypes'
  BY RanksAndWorkers
  DEF TypeInv, ChannelTypes, PcTypes, PcLabels, RankTypes, ReadData, Goto, shmVars, Torn
<1>2. \/ /\ current' = [current EXCEPT ![w] = shmData] /\ shmData # 0
         /\ pc' = [pc EXCEPT ![w] = "clear"]
      \/ current' = current /\ pc' = [pc EXCEPT ![w] = "dead"]
  BY DEF ReadData, Goto, Torn
<1>3. current' \in [Ranks -> 0 .. Len(calls)]
  BY <1>2, RanksAndWorkers DEF TypeInv, RankTypes, ChannelTypes
<1>4. RankTypes'
  BY <1>3 DEF TypeInv, RankTypes, ReadData
<1>5. PcTypes'
  <2>1. shmData # 0 => shmData > 0
    BY DEF TypeInv, ChannelTypes
  <2>2. PcTypes /\ current \in [Ranks -> 0 .. Len(calls)] /\ UNCHANGED joined /\ w # 0
    BY RanksAndWorkers DEF TypeInv, RankTypes, ReadData
  <2>3. QED
    BY <1>2, <2>1, <2>2, RanksAndWorkers DEF PcTypes, PcLabels
<1>6. QED
  BY <1>1, <1>4, <1>5 DEF TypeInv

LEMMA ClearEventTypes ==
  ASSUME TypeInv, NEW w \in Workers, ClearEvent(w) PROVE TypeInv'
<1>1. ChannelTypes'
  BY RanksAndWorkers DEF TypeInv, ChannelTypes, PcTypes, ClearEvent, Begin, Goto, shmVars
<1>2. current[w] \in 1 .. Len(calls)
  BY RanksAndWorkers DEF TypeInv, PcTypes, RankTypes, ClearEvent
<1>3. RankTypes' /\ PcTypes'
  BY <1>2, BeginTypes, RanksAndWorkers DEF ClearEvent
<1>4. QED
  BY <1>1, <1>3 DEF TypeInv

LEMMA EnterCollectiveTypes ==
  ASSUME TypeInv, NEW r \in Ranks, EnterCollective(r) PROVE TypeInv'
<1>1. joined[r] < NumCollectives /\ joined[r] \in Nat
  BY DEF TypeInv, PcTypes, RankTypes, EnterCollective, Executes
<1>2. entered' \in [Ranks -> Seq(Nat \X (1 .. NumCollectives))]
  BY <1>1, EnterTypes DEF EnterCollective
<1>3. joined' \in [Ranks -> 0 .. NumCollectives]
  BY <1>1, RanksAndWorkers DEF TypeInv, RankTypes, EnterCollective
<1>4. RankTypes'
  BY <1>2, <1>3 DEF TypeInv, RankTypes, EnterCollective
<1>5. \/ pc' = pc /\ joined[r] + 1 < NumCollectives
      \/ \E label \in {"sample", "idle", "wait"} : pc' = [pc EXCEPT ![r] = label]
  BY DEF EnterCollective, Return, Goto
<1>6. PcTypes'
  BY <1>1, <1>5, RanksAndWorkers
  DEF TypeInv, RankTypes, PcTypes, PcLabels, EnterCollective
<1>7. ChannelTypes'
  BY <1>5, RanksAndWorkers DEF TypeInv, ChannelTypes, PcTypes, EnterCollective, shmVars
<1>8. QED
  BY <1>4, <1>6, <1>7 DEF TypeInv

LEMMA FetchTokensTypes ==
  ASSUME TypeInv, FetchTokens PROVE TypeInv'
<1>1. ChannelTypes'
  BY RanksAndWorkers
  DEF TypeInv, ChannelTypes, PcTypes, PcLabels, RankTypes, FetchTokens, Return, Goto,
      shmVars, rankVars
<1>2. PcTypes'
  BY RanksAndWorkers
  DEF TypeInv, ChannelTypes, PcTypes, PcLabels, RankTypes, FetchTokens, Return, Goto,
      shmVars, rankVars
<1>3. RankTypes'
  BY RanksAndWorkers
  DEF TypeInv, ChannelTypes, PcTypes, PcLabels, RankTypes, FetchTokens, Return, Goto,
      shmVars, rankVars
<1>4. QED
  BY <1>1, <1>2, <1>3 DEF TypeInv

LEMMA CopyTypes ==
  ASSUME TypeInv, NEW r \in Ranks, Copy(r) PROVE TypeInv'
<1>1. ChannelTypes'
  BY RanksAndWorkers
  DEF TypeInv, ChannelTypes, PcTypes, PcLabels, RankTypes, Copy, Executes, Return, Goto,
      shmVars, rankVars
<1>2. PcTypes'
  BY RanksAndWorkers
  DEF TypeInv, ChannelTypes, PcTypes, PcLabels, RankTypes, Copy, Executes, Return, Goto,
      shmVars, rankVars
<1>3. RankTypes'
  BY RanksAndWorkers
  DEF TypeInv, ChannelTypes, PcTypes, PcLabels, RankTypes, Copy, Executes, Return, Goto,
      shmVars, rankVars
<1>4. QED
  BY <1>1, <1>2, <1>3 DEF TypeInv

LEMMA BeginExitTypes ==
  ASSUME TypeInv, NEW r \in Ranks, BeginExit(r) PROVE TypeInv'
<1>1. joined[r] < NumCollectives
  BY DEF TypeInv, PcTypes, BeginExit, Executes
<1>2. entered' \in [Ranks -> Seq(Nat \X (1 .. NumCollectives))]
  BY <1>1, EnterTypes DEF BeginExit
<1>3. RankTypes'
  BY <1>2 DEF TypeInv, RankTypes, BeginExit
<1>4. PcTypes'
  BY RanksAndWorkers DEF TypeInv, PcTypes, PcLabels, BeginExit, Executes, Goto
<1>5. ChannelTypes'
  BY RanksAndWorkers DEF TypeInv, ChannelTypes, PcTypes, BeginExit, Executes, Goto
<1>6. QED
  BY <1>3, <1>4, <1>5 DEF TypeInv

LEMMA EndExitTypes ==
  ASSUME TypeInv, NEW r \in Ranks, EndExit(r) PROVE TypeInv'
<1>1. ChannelTypes'
  BY RanksAndWorkers
  DEF TypeInv, ChannelTypes, PcTypes, PcLabels, RankTypes, EndExit, Goto, rankVars
<1>2. PcTypes'
  BY RanksAndWorkers
  DEF TypeInv, ChannelTypes, PcTypes, PcLabels, RankTypes, EndExit, Goto, rankVars
<1>3. RankTypes'
  BY RanksAndWorkers
  DEF TypeInv, ChannelTypes, PcTypes, PcLabels, RankTypes, EndExit, Goto, rankVars
<1>4. QED
  BY <1>1, <1>2, <1>3 DEF TypeInv

LEMMA JoinTypes ==
  ASSUME TypeInv, Join PROVE TypeInv'
<1>1. ChannelTypes'
  BY RanksAndWorkers
  DEF TypeInv, ChannelTypes, PcTypes, PcLabels, RankTypes, Join, Goto, shmVars, rankVars
<1>2. PcTypes'
  BY RanksAndWorkers
  DEF TypeInv, ChannelTypes, PcTypes, PcLabels, RankTypes, Join, Goto, shmVars, rankVars
<1>3. RankTypes'
  BY RanksAndWorkers
  DEF TypeInv, ChannelTypes, PcTypes, PcLabels, RankTypes, Join, Goto, shmVars, rankVars
<1>4. QED
  BY <1>1, <1>2, <1>3 DEF TypeInv

LEMMA OutOfMemoryTypes ==
  ASSUME TypeInv, NEW r \in Ranks, OutOfMemory(r) PROVE TypeInv'
<1>1. ChannelTypes'
  BY RanksAndWorkers
  DEF TypeInv, ChannelTypes, PcTypes, PcLabels, RankTypes, OutOfMemory, Executes, Goto,
      shmVars, rankVars
<1>2. PcTypes'
  BY RanksAndWorkers
  DEF TypeInv, ChannelTypes, PcTypes, PcLabels, RankTypes, OutOfMemory, Executes, Goto,
      shmVars, rankVars
<1>3. RankTypes'
  BY RanksAndWorkers
  DEF TypeInv, ChannelTypes, PcTypes, PcLabels, RankTypes, OutOfMemory, Executes, Goto,
      shmVars, rankVars
<1>4. QED
  BY <1>1, <1>2, <1>3 DEF TypeInv

LEMMA UnchangedTypes == TypeInv /\ UNCHANGED vars => TypeInv'
BY DEF vars, shmVars, rankVars, TypeInv, ChannelTypes, PcTypes, RankTypes

LEMMA NextTypeInv == TypeInv /\ [Next]_vars => TypeInv'
<1> SUFFICES ASSUME TypeInv, Next PROVE TypeInv'
  BY UnchangedTypes
<1>1. CASE Rank0Step
  BY <1>1, RanksAndWorkers, StartTypes, LeaveInitBarrierTypes, WriteLengthTypes, BeginDataTypes,
     EndDataTypes, SignalTypes, EnterCollectiveTypes, CopyTypes, BeginExitTypes, EndExitTypes,
     FetchTokensTypes, JoinTypes
  DEF Rank0Step, Execute
<1>2. ASSUME NEW w \in Workers, WorkerStep(w) PROVE TypeInv'
  BY <1>2, RanksAndWorkers, StartTypes, LeaveInitBarrierTypes, ReadLengthTypes, ReadDataTypes,
     ClearEventTypes, EnterCollectiveTypes, CopyTypes, BeginExitTypes, EndExitTypes
  DEF WorkerStep, Execute
<1>3. QED
  BY <1>1, <1>2, CallTypes, OutOfMemoryTypes DEF Next

\* Every variable has its type, whatever is called and whoever runs out of memory.
THEOREM TypeCorrect == Spec => []TypeOK
<1>1. Spec => []TypeInv
  BY InitTypeInv, NextTypeInv, PTL DEF Spec
<1>2. QED
  BY <1>1, TypeInvTypeOK, PTL

(***************************************************************************)
(* Arithmetic of collectives: those of call k come after Before(k - 1).    *)
(***************************************************************************)
LEMMA BeforeNext ==
  /\ Before(0) = 1
  /\ \A k \in Nat : Before(k) \in Nat /\ Before(k) >= 1
  /\ \A k \in Nat : Before(k + 1) = Before(k) + NumCollectives
<1>1. NumCollectives \in Nat
  BY RanksAndWorkers
<1>2. \A k \in Nat : NumCollectives * k \in Nat
  BY <1>1
<1>3. \A k \in Nat : NumCollectives * (k + 1) = NumCollectives * k + NumCollectives
  BY <1>1
<1>4. NumCollectives * 0 = 0
  BY <1>1
<1>5. QED
  BY <1>1, <1>2, <1>3, <1>4 DEF Before

LEMMA BeforePrevious ==
  ASSUME NEW k \in Nat, k > 0
  PROVE  /\ k - 1 \in Nat /\ (k - 1) + 1 = k
         /\ Before(k - 1) \in Nat /\ Before(k - 1) >= 1
         /\ Before(k) = Before(k - 1) + NumCollectives
<1>1. k - 1 \in Nat /\ (k - 1) + 1 = k
  OBVIOUS
<1>2. Before(k - 1) \in Nat /\ Before(k - 1) >= 1
  BY <1>1, BeforeNext
<1>3. Before((k - 1) + 1) = Before(k - 1) + NumCollectives
  BY <1>1, BeforeNext
<1>4. QED
  BY <1>1, <1>2, <1>3

LEMMA BeforeMonotone ==
  ASSUME NEW j \in Nat, NEW k \in Nat, j < k
  PROVE  Before(j) + NumCollectives <= Before(k)
<1>1. PICK d \in Nat : k = (j + 1) + d
  <2>1. k - (j + 1) \in Nat /\ k = (j + 1) + (k - (j + 1))
    OBVIOUS
  <2>2. QED
    BY <2>1
<1>2. NumCollectives \in Nat /\ NumCollectives * d \in Nat
  BY RanksAndWorkers
<1>3. NumCollectives * ((j + 1) + d) = NumCollectives * (j + 1) + NumCollectives * d
  BY <1>2
<1>4. NumCollectives * (j + 1) = NumCollectives * j + NumCollectives
  BY <1>2
<1>5. NumCollectives * j \in Nat
  BY <1>2
<1>6. QED
  BY <1>1, <1>2, <1>3, <1>4, <1>5 DEF Before

\* The place of a collective in the sequence tells which one it is.
LEMMA PlaceUnique ==
  ASSUME NEW x \in Nat \X (1 .. NumCollectives), NEW y \in Nat \X (1 .. NumCollectives),
         NEW i \in Nat, Place(x, i), Place(y, i)
  PROVE  x = y
<1> DEFINE a == x[1] - 1  b == y[1] - 1
<1>1. CASE i = 1
  <2>1. ASSUME NEW e \in Nat \X (1 .. NumCollectives), e[1] > 0 PROVE Before(e[1] - 1) + e[2] # 1
    <3>1. e[1] - 1 \in Nat /\ e[2] \in Nat /\ e[2] >= 1
      BY <2>1, RanksAndWorkers
    <3>2. Before(e[1] - 1) >= 1 /\ Before(e[1] - 1) \in Nat
      BY <3>1, BeforeNext
    <3>3. QED
      BY <3>1, <3>2
  <2>2. QED
    BY <1>1, <2>1 DEF Place
<1>2. CASE i # 1
  <2>1. /\ a \in Nat /\ b \in Nat
        /\ i = Before(a) + x[2] /\ i = Before(b) + y[2]
        /\ x[2] \in 1 .. NumCollectives /\ y[2] \in 1 .. NumCollectives
    BY <1>2 DEF Place
  <2>2. /\ Before(a) \in Nat /\ Before(b) \in Nat /\ NumCollectives \in Nat
        /\ a < b => Before(a) + NumCollectives <= Before(b)
        /\ b < a => Before(b) + NumCollectives <= Before(a)
    BY <2>1, BeforeNext, BeforeMonotone, RanksAndWorkers
  <2>3. a = b
    <3> HIDE DEF a, b
    <3>1. ~(a < b) /\ ~(b < a)
      BY <2>1, <2>2
    <3>2. QED
      BY <2>1, <3>1
  <2>4. x[2] = y[2]
    <3> HIDE DEF a, b
    <3>1. QED
      BY <2>1, <2>2, <2>3
  <2>5. x[1] = y[1]
    BY <2>1, <2>3
  <2>6. QED
    BY <2>4, <2>5
<1>3. QED
  BY <1>1, <1>2

(***************************************************************************)
(* What the steps of a rank do to RankOk of that rank, and of others.      *)
(***************************************************************************)
LEMMA RankKept ==
  ASSUME NEW r \in Ranks, RankOk(r),
         UNCHANGED <<pc[r], current[r], joined[r], executed[r], entered[r], calls>>
  PROVE  RankOk(r)' /\ Count(r)' = Count(r)
BY DEF RankOk, Count, AtRest, Leaving

LEMMA CountType ==
  ASSUME TypeInv, NEW r \in Ranks
  PROVE  /\ K \in Nat /\ Count(r) \in Nat
         /\ Count(r) = Len(executed[r]) /\ K = Len(calls)
         /\ executed[r] \in Seq(1 .. Len(calls)) /\ calls \in Seq(Methods \cup {"exit"})
         /\ entered[r] \in Seq(Nat \X (1 .. NumCollectives)) /\ Len(entered[r]) \in Nat
         /\ joined[r] \in Nat
BY RanksAndWorkers DEF TypeInv, ChannelTypes, RankTypes, K, Count

\* Moves that begin and enter nothing.
LEMMA RankMoves ==
  ASSUME NEW r \in Ranks, RankOk(r),
         \/ pc[r] \in AtRest /\ pc'[r] \in AtRest
         \/ pc[r] \in Leaving /\ pc'[r] \in Leaving,
         UNCHANGED <<executed[r], entered[r], calls>>
  PROVE  RankOk(r)' /\ Count(r)' = Count(r)
BY DEF RankOk, Count, AtRest, Leaving

LEMMA RankBegins ==
  ASSUME TypeInv, NEW r \in Ranks, RankOk(r), pc[r] \in AtRest,
         Count(r) < K, Begin(r, Count(r) + 1), UNCHANGED <<calls, entered>>
  PROVE  RankOk(r)' /\ Count(r)' = Count(r) + 1 /\ pc'[r] = "execute"
<1>1. /\ executed'[r] = Append(executed[r], Count(r) + 1) /\ current'[r] = Count(r) + 1
      /\ joined'[r] = 0 /\ pc'[r] = "execute"
  BY DEF Begin, Goto, TypeInv, RankTypes, PcTypes
<1>2. Count(r)' = Count(r) + 1 /\ Count(r) \in Nat
  BY <1>1, CountType DEF Count
<1>3. \A i \in DOMAIN executed'[r] : executed'[r][i] = i
  BY <1>1, CountType DEF RankOk
<1>4. Len(entered[r]) = Before(Count(r)) /\ Count(r)' - 1 = Count(r) /\ Before(Count(r)) \in Nat
  BY <1>2, BeforeNext DEF RankOk
<1>5. Len(entered[r]') = Before(Count(r)' - 1) + joined'[r]
  BY <1>1, <1>4
<1>6. QED
  BY <1>1, <1>2, <1>3, <1>5 DEF RankOk, AtRest, Leaving

\* What is appended to entered[r] stands in its place.
LEMMA PlacesKept ==
  ASSUME TypeInv, NEW r \in Ranks, RankOk(r), Enter(r),
         Place(<<current[r], joined[r] + 1>>, Len(entered[r]) + 1)
  PROVE  /\ \A i \in DOMAIN entered'[r] : Place(entered'[r][i], i)
         /\ Len(entered'[r]) = Len(entered[r]) + 1
<1> DEFINE entry == <<current[r], joined[r] + 1>>
<1>1. entered'[r] = Append(entered[r], entry)
  BY DEF Enter, TypeInv, RankTypes
<1>2. Place(entry, Len(entered[r]) + 1) /\ entered[r] \in Seq(Nat \X (1 .. NumCollectives))
  BY CountType
<1>3. \A i \in DOMAIN entered[r] : Place(entered[r][i], i)
  BY DEF RankOk
<1> HIDE DEF entry
<1>4. QED
  BY <1>1, <1>2, <1>3

LEMMA RankStarts ==
  ASSUME TypeInv, NEW r \in Ranks, RankOk(r), Start(r)
  PROVE  RankOk(r)' /\ Count(r)' = Count(r) /\ pc'[r] = "initBarrier"
<1>1. Len(entered[r]) = 0 /\ Count(r) = 0 /\ current[r] = 0 /\ joined[r] = 0
  BY DEF RankOk, Start
<1>2. Place(<<current[r], joined[r] + 1>>, Len(entered[r]) + 1)
  BY <1>1 DEF Place
<1>3. /\ \A i \in DOMAIN entered'[r] : Place(entered'[r][i], i)
      /\ Len(entered'[r]) = Len(entered[r]) + 1
  BY <1>2, PlacesKept DEF Start
<1>4. pc'[r] = "initBarrier" /\ UNCHANGED <<executed, current, joined>>
  BY DEF Start, Goto, TypeInv, PcTypes
<1>5. QED
  BY <1>1, <1>3, <1>4 DEF RankOk, Count, AtRest, Leaving

LEMMA RankOpens ==
  ASSUME NEW r \in Ranks, RankOk(r), pc[r] = "initBarrier", pc'[r] \in {"idle", "wait"},
         UNCHANGED <<executed, entered>>
  PROVE  RankOk(r)' /\ Count(r)' = Count(r)
<1>1. Len(entered[r]) = 1 /\ Count(r) = 0
  BY DEF RankOk
<1>2. Before(0) = 1
  BY BeforeNext
<1>3. /\ executed'[r] = executed[r] /\ entered'[r] = entered[r]
      /\ pc'[r] \in AtRest /\ pc'[r] \notin Leaving \cup {"init", "initBarrier", "execute"}
  BY DEF AtRest, Leaving
<1>4. Len(executed'[r]) = 0 /\ Len(entered'[r]) = Before(0)
  BY <1>1, <1>2, <1>3 DEF Count
<1>5. /\ \A i \in DOMAIN executed'[r] : executed'[r][i] = i
      /\ \A i \in DOMAIN entered'[r] : Place(entered'[r][i], i)
  BY <1>3 DEF RankOk
<1>6. Count(r)' = 0 /\ ~(Count(r)' > 0) /\ Len(entered'[r]) = Before(Count(r)')
  BY <1>4 DEF Count
<1>7. RankOk(r)'
  BY <1>3, <1>5, <1>6 DEF RankOk
<1>8. QED
  BY <1>1, <1>6, <1>7

LEMMA RankEnters ==
  ASSUME TypeInv, NEW r \in Ranks, RankOk(r), EnterCollective(r)
  PROVE  /\ RankOk(r)' /\ Count(r)' = Count(r)
         /\ pc'[r] \in {"execute", IF r = 0 THEN "sample" ELSE "wait"}
<1>1. /\ pc[r] = "execute" /\ calls[Count(r)] = "run" /\ current[r] = Count(r) /\ Count(r) > 0
      /\ Len(entered[r]) = Before(Count(r) - 1) + joined[r]
  BY DEF RankOk, EnterCollective, Executes
<1>2. Place(<<current[r], joined[r] + 1>>, Len(entered[r]) + 1)
  <2>1. /\ Count(r) - 1 \in Nat /\ Before(Count(r) - 1) \in Nat /\ joined[r] \in Nat
    BY <1>1, CountType, BeforePrevious
  <2>2. Len(entered[r]) + 1 = Before(Count(r) - 1) + (joined[r] + 1)
    BY <1>1, <2>1
  <2>3. QED
    BY <1>1, <2>2 DEF Place
<1>3. Before(Count(r) - 1) \in Nat
  BY <1>1, CountType, BeforePrevious
<1>4. /\ \A i \in DOMAIN entered'[r] : Place(entered'[r][i], i)
      /\ Len(entered'[r]) = Len(entered[r]) + 1
  BY <1>2, PlacesKept DEF EnterCollective
<1>5. /\ joined'[r] = joined[r] + 1 /\ joined[r] < NumCollectives
      /\ UNCHANGED <<executed, current, calls>>
  BY <1>1 DEF EnterCollective, TypeInv, RankTypes, PcTypes
<1>6. Count(r)' = Count(r)
  BY <1>5 DEF Count
<1>7. CASE joined[r] + 1 < NumCollectives
  <2>1. pc'[r] = "execute"
    BY <1>1, <1>7 DEF EnterCollective
  <2>2. Len(entered'[r]) = Before(Count(r) - 1) + joined'[r]
    BY <1>1, <1>3, <1>4, <1>5, CountType
  <2>3. QED
    BY <1>1, <1>4, <1>5, <1>6, <2>1, <2>2 DEF RankOk, AtRest, Leaving
<1>8. CASE ~(joined[r] + 1 < NumCollectives)
  <2>1. pc'[r] = IF r = 0 THEN "sample" ELSE "wait"
    BY <1>8 DEF EnterCollective, Return, Goto, TypeInv, PcTypes
  <2>2. joined[r] + 1 = NumCollectives
    BY <1>5, <1>8, CountType, RanksAndWorkers
  <2>3. Before(Count(r)) = Before(Count(r) - 1) + NumCollectives
    BY <1>1, CountType, BeforePrevious
  <2>4. Len(entered'[r]) = Before(Count(r))
    BY <1>1, <1>3, <1>4, <2>2, <2>3, CountType
  <2>5. QED
    BY <1>1, <1>4, <1>5, <1>6, <2>1, <2>4 DEF RankOk, AtRest, Leaving
<1>9. QED
  BY <1>7, <1>8

LEMMA RankExits ==
  ASSUME TypeInv, NEW r \in Ranks, RankOk(r), BeginExit(r)
  PROVE  RankOk(r)' /\ Count(r)' = Count(r) /\ pc'[r] = "exitBarrier"
<1>1. /\ pc[r] = "execute" /\ calls[Count(r)] = "exit" /\ current[r] = Count(r) /\ Count(r) > 0
      /\ joined[r] = 0 /\ Len(entered[r]) = Before(Count(r) - 1) + 0
  BY DEF RankOk, BeginExit, Executes
<1>2. Before(Count(r) - 1) \in Nat
  BY <1>1, CountType, BeforePrevious
<1>3. Place(<<current[r], joined[r] + 1>>, Len(entered[r]) + 1)
  BY <1>1, <1>2 DEF Place
<1>4. /\ \A i \in DOMAIN entered'[r] : Place(entered'[r][i], i)
      /\ Len(entered'[r]) = Before(Count(r) - 1) + 1
  BY <1>1, <1>2, <1>3, PlacesKept DEF BeginExit
<1>5. pc'[r] = "exitBarrier" /\ UNCHANGED <<executed, calls>>
  BY DEF BeginExit, Goto, TypeInv, PcTypes
<1>6. QED
  BY <1>1, <1>4, <1>5 DEF RankOk, Count, AtRest, Leaving

LEMMA RankCalled ==
  ASSUME TypeInv, NEW r \in Ranks, RankOk(r), Count(r) <= K, NEW m, Call(m),
         pc'[r] = pc[r] \/ (pc[r] \in AtRest /\ pc'[r] \in AtRest)
  PROVE  RankOk(r)' /\ Count(r)' = Count(r)
<1>1. calls' = Append(calls, m) /\ UNCHANGED <<executed, entered, current, joined>>
  BY DEF Call, rankVars
<1>2. Count(r) > 0 => calls'[Count(r)] = calls[Count(r)]
  BY <1>1, CountType
<1>3. QED
  BY <1>1, <1>2 DEF RankOk, Count, AtRest, Leaving

(***************************************************************************)
(* The steps of rank 0 keep the ranks together.                            *)
(***************************************************************************)
LEMMA WorkersDiffer == \A w \in Workers : w \in Ranks /\ w # 0 /\ w \in Nat /\ w > 0
BY RanksAndWorkers DEF Workers

\* When a worker has something to read, rank 0 has finished writing it.
LEMMA TakesWhatIsWritten ==
  ASSUME TypeInv, Together, NEW w \in Workers, event[w] \/ pc[w] \in {"read", "clear"}
  PROVE  /\ Takes(w) /\ shmLength = K /\ shmData = K
         /\ pc[0] \in {"signal", "execute", "sample"} \cup Leaving
<1>1. pc[0] \notin {"init", "initBarrier"}
  BY DEF Together, Starting
<1>2. pc[0] \notin {"idle", "length", "data", "dataEnd"}
  BY DEF Together, Writing, Waits
<1>3. pc[0] \in {"signal", "execute", "sample"} \cup Leaving
  BY <1>1, <1>2 DEF Together, MainLabels
<1>4. ASSUME pc[0] = "signal" PROVE Engaged(w) /\ shmLength = K /\ shmData = K
  BY <1>4 DEF Together, Signalling, Waits
<1>5. ASSUME pc[0] # "signal" PROVE Engaged(w) /\ shmLength = K /\ shmData = K
  BY <1>3, <1>5 DEF Together, Working
<1>6. QED
  BY <1>3, <1>4, <1>5 DEF Engaged, HasTaken

LEMMA WriteLengthTogether ==
  ASSUME TypeInv, Together, WriteLength
  PROVE  Together'
<1>1. /\ pc'[0] = "data"
      /\ \A w \in Workers : pc'[w] = pc[w]
      /\ UNCHANGED <<calls, executed, entered, event, readLength, current, joined>>
  BY RanksAndWorkers, WorkersDiffer DEF TypeInv, PcTypes, WriteLength, Goto, rankVars
<1>2. \A x \in Ranks : RankOk(x)'
  <2>1. ASSUME NEW x \in Ranks, x # 0 PROVE RankOk(x)'
    BY <1>1, <2>1, RankKept, RanksAndWorkers DEF Together
  <2>2. RankOk(0)'
    BY <1>1, RankMoves, RanksAndWorkers DEF Together, AtRest, WriteLength
  <2>3. QED
    BY <2>1, <2>2
<1>3. MainLabels'
  BY <1>1, WorkersDiffer DEF Together, MainLabels, Leaving, WriteLength
<1>4. CallsOk'
  BY <1>1, WorkersDiffer DEF Together, CallsOk, K, WriteLength
<1>5. Starting'
  BY <1>1, WorkersDiffer DEF Together, Starting, K, Count, WriteLength
<1>6. Writing'
  BY <1>1, WorkersDiffer DEF Together, Writing, Waits, K, Count, WriteLength
<1>7. Signalling'
  BY <1>1, WorkersDiffer
  DEF Together, Signalling, Engaged, Takes, HasTaken, Waits, K, Count, WriteLength
<1>8. Working'
  BY <1>1, WorkersDiffer
  DEF Together, Working, Engaged, Takes, HasTaken, K, Count, Leaving, WriteLength
<1>9. Ending'
  BY <1>1, WorkersDiffer DEF Together, Ending, Leaving, WriteLength
<1>10. Segment'
  BY <1>1, WorkersDiffer DEF Together, Segment, Leaving, WriteLength
<1>11. QED
  BY <1>2, <1>3, <1>4, <1>5, <1>6, <1>7, <1>8, <1>9, <1>10 DEF Together

LEMMA BeginDataTogether ==
  ASSUME TypeInv, Together, BeginData
  PROVE  Together'
<1>1. /\ pc'[0] = "dataEnd"
      /\ \A w \in Workers : pc'[w] = pc[w]
      /\ UNCHANGED <<calls, executed, entered, event, readLength, current, joined>>
  BY RanksAndWorkers, WorkersDiffer DEF TypeInv, PcTypes, BeginData, Goto, rankVars
<1>2. \A x \in Ranks : RankOk(x)'
  <2>1. ASSUME NEW x \in Ranks, x # 0 PROVE RankOk(x)'
    BY <1>1, <2>1, RankKept, RanksAndWorkers DEF Together
  <2>2. RankOk(0)'
    BY <1>1, RankMoves, RanksAndWorkers DEF Together, AtRest, BeginData
  <2>3. QED
    BY <2>1, <2>2
<1>3. MainLabels'
  BY <1>1, WorkersDiffer DEF Together, MainLabels, Leaving, BeginData
<1>4. CallsOk'
  BY <1>1, WorkersDiffer DEF Together, CallsOk, K, BeginData
<1>5. Starting'
  BY <1>1, WorkersDiffer DEF Together, Starting, K, Count, BeginData
<1>6. Writing'
  BY <1>1, WorkersDiffer DEF Together, Writing, Waits, K, Count, BeginData
<1>7. Signalling'
  BY <1>1, WorkersDiffer
  DEF Together, Signalling, Engaged, Takes, HasTaken, Waits, K, Count, BeginData
<1>8. Working'
  BY <1>1, WorkersDiffer
  DEF Together, Working, Engaged, Takes, HasTaken, K, Count, Leaving, BeginData
<1>9. Ending'
  BY <1>1, WorkersDiffer DEF Together, Ending, Leaving, BeginData
<1>10. Segment'
  BY <1>1, WorkersDiffer DEF Together, Segment, Leaving, BeginData
<1>11. QED
  BY <1>2, <1>3, <1>4, <1>5, <1>6, <1>7, <1>8, <1>9, <1>10 DEF Together

LEMMA EndDataTogether ==
  ASSUME TypeInv, Together, EndData
  PROVE  Together'
<1>1. /\ pc'[0] = "signal"
      /\ \A w \in Workers : pc'[w] = pc[w]
      /\ UNCHANGED <<calls, executed, entered, event, readLength, current, joined>>
  BY RanksAndWorkers, WorkersDiffer DEF TypeInv, PcTypes, EndData, Goto, rankVars
<1>2. K \in Nat /\ Count(0) \in Nat
  BY CountType, RanksAndWorkers
<1>3. \A x \in Ranks : RankOk(x)'
  <2>1. ASSUME NEW x \in Ranks, x # 0 PROVE RankOk(x)'
    BY <1>1, <2>1, RankKept, RanksAndWorkers DEF Together
  <2>2. RankOk(0)'
    BY <1>1, RankMoves, RanksAndWorkers DEF Together, AtRest, EndData
  <2>3. QED
    BY <2>1, <2>2
<1>4. MainLabels'
  BY <1>1, WorkersDiffer DEF Together, MainLabels, Leaving, EndData
<1>5. CallsOk'
  BY <1>1, WorkersDiffer DEF Together, CallsOk, K, EndData
<1>6. Starting'
  BY <1>1, WorkersDiffer DEF Together, Starting, K, Count, EndData
<1>7. Writing'
  BY <1>1, WorkersDiffer DEF Together, Writing, Waits, K, Count, EndData
<1>8. Signalling'
  <2>1. K = Count(0) + 1 /\ shmLength = K /\ \A w \in Workers : Waits(w, Count(0))
    BY DEF Together, Writing, EndData
  <2>2. K' = K /\ Count(0)' = Count(0) /\ shmLength' = K /\ shmData' = K /\ signalled' = 0
    BY <1>1, <2>1 DEF EndData, K, Count
  <2>3. \A w \in Workers : Waits(w, K - 1)'
    BY <1>1, <1>2, <2>1 DEF Waits, Count, K
  <2>4. QED
    BY <2>1, <2>2, <2>3, WorkersDiffer DEF Signalling
<1>9. Working'
  BY <1>1, WorkersDiffer
  DEF Together, Working, Engaged, Takes, HasTaken, K, Count, Leaving, EndData
<1>10. Ending'
  BY <1>1, WorkersDiffer DEF Together, Ending, Leaving, EndData
<1>11. Segment'
  BY <1>1, WorkersDiffer DEF Together, Segment, Leaving, EndData
<1>12. QED
  BY <1>3, <1>4, <1>5, <1>6, <1>7, <1>8, <1>9, <1>10, <1>11 DEF Together

LEMMA MainStartTogether ==
  ASSUME TypeInv, Together, Start(0)
  PROVE  Together'
<1>1. /\ pc[0] = "init" /\ pc'[0] = "initBarrier"
      /\ \A w \in Workers : pc'[w] = pc[w] /\ entered'[w] = entered[w]
      /\ UNCHANGED <<calls, executed, event, readLength, current, joined>>
  BY RanksAndWorkers, WorkersDiffer DEF TypeInv, PcTypes, RankTypes, Start, Enter, Goto
<1>2. K = 0 /\ \A w \in Workers : Count(w) = 0 /\ pc[w] \in {"init", "initBarrier"}
  BY <1>1, WorkersDiffer DEF Together, Starting, RankOk
<1>3. \A x \in Ranks : RankOk(x)'
  <2>1. ASSUME NEW x \in Ranks, x # 0 PROVE RankOk(x)'
    BY <1>1, <2>1, RankKept, RanksAndWorkers DEF Together
  <2>2. RankOk(0)'
    BY <1>1, RankStarts, RanksAndWorkers DEF Together
  <2>3. QED
    BY <2>1, <2>2
<1>4. MainLabels'
  BY <1>1, <1>2, WorkersDiffer DEF Together, MainLabels, Leaving, Start
<1>5. CallsOk'
  BY <1>1, <1>2, WorkersDiffer DEF Together, CallsOk, K, Start
<1>6. Starting'
  BY <1>1, <1>2, WorkersDiffer DEF Together, Starting, K, Count, Start
<1>7. Writing'
  BY <1>1, <1>2, WorkersDiffer DEF Together, Writing, Waits, K, Count, Start
<1>8. Signalling'
  BY <1>1, <1>2, WorkersDiffer
  DEF Together, Signalling, Engaged, Takes, HasTaken, Waits, K, Count, Start
<1>9. Working'
  BY <1>1, <1>2, WorkersDiffer
  DEF Together, Working, Engaged, Takes, HasTaken, K, Count, Leaving, Start
<1>10. Ending'
  BY <1>1, <1>2, WorkersDiffer DEF Together, Ending, Leaving, Start
<1>11. Segment'
  BY <1>1, <1>2, WorkersDiffer DEF Together, Segment, Leaving, Start
<1>12. QED
  BY <1>3, <1>4, <1>5, <1>6, <1>7, <1>8, <1>9, <1>10, <1>11 DEF Together

LEMMA MainLeaveTogether ==
  ASSUME TypeInv, Together, LeaveInitBarrier(0)
  PROVE  Together'
<1>1. /\ pc[0] = "initBarrier" /\ pc'[0] = "idle"
      /\ \A w \in Workers : pc'[w] = pc[w]
      /\ UNCHANGED <<calls, executed, entered, event, readLength, current, joined,
                      shmExists, shmOpen>>
  BY RanksAndWorkers, WorkersDiffer
  DEF TypeInv, PcTypes, LeaveInitBarrier, Goto, rankVars
<1>2. K = 0 /\ Count(0) = 0
  BY <1>1, RanksAndWorkers DEF Together, Starting, RankOk
<1>3. ASSUME NEW w \in Workers PROVE Waits(w, 0)
  <2>1. Len(entered[0]) = 1 /\ Len(entered[w]) >= Len(entered[0])
    BY <1>1, RanksAndWorkers, WorkersDiffer DEF Together, RankOk, LeaveInitBarrier, AllJoined
  <2>2. pc[w] # "init"
    BY <2>1, WorkersDiffer DEF Together, RankOk
  <2>3. QED
    BY <1>1, <2>2 DEF Together, Starting, Waits
<1>4. \A x \in Ranks : RankOk(x)'
  <2>1. ASSUME NEW x \in Ranks, x # 0 PROVE RankOk(x)'
    BY <1>1, <2>1, RankKept, RanksAndWorkers DEF Together
  <2>2. RankOk(0)'
    BY <1>1, RankOpens, RanksAndWorkers DEF Together
  <2>3. QED
    BY <2>1, <2>2
<1>5. MainLabels'
  BY <1>1, <1>2, <1>3, WorkersDiffer DEF Together, MainLabels, Leaving, LeaveInitBarrier
<1>6. CallsOk'
  BY <1>1, <1>2, <1>3, WorkersDiffer DEF Together, CallsOk, K, LeaveInitBarrier
<1>7. Starting'
  BY <1>1, <1>2, <1>3, WorkersDiffer DEF Together, Starting, K, Count, LeaveInitBarrier
<1>8. Writing'
  <2>1. K' = 0 /\ Count(0)' = 0
    BY <1>1, <1>2 DEF K, Count
  <2>2. \A w \in Workers : Waits(w, 0)'
    BY <1>1, <1>3 DEF Waits, Count
  <2>3. QED
    BY <1>1, <2>1, <2>2 DEF Writing
<1>9. Signalling'
  BY <1>1, <1>2, <1>3, WorkersDiffer
  DEF Together, Signalling, Engaged, Takes, HasTaken, Waits, K, Count, LeaveInitBarrier
<1>10. Working'
  BY <1>1, <1>2, <1>3, WorkersDiffer
  DEF Together, Working, Engaged, Takes, HasTaken, K, Count, Leaving, LeaveInitBarrier
<1>11. Ending'
  BY <1>1, <1>2, <1>3, WorkersDiffer DEF Together, Ending, Leaving, LeaveInitBarrier
<1>12. Segment'
  BY <1>1, <1>2, <1>3, WorkersDiffer DEF Together, Segment, Leaving, LeaveInitBarrier
<1>13. QED
  BY <1>4, <1>5, <1>6, <1>7, <1>8, <1>9, <1>10, <1>11, <1>12 DEF Together

LEMMA CallTogether ==
  ASSUME TypeInv, Together, NEW m \in Methods \cup {"exit"}, Call(m), Undisturbed'
  PROVE  Together'
<1>1. /\ pc[0] = "idle" /\ pc'[0] = "length"
      /\ \A w \in Workers : pc'[w] = pc[w]
      /\ calls' = Append(calls, m)
      /\ UNCHANGED <<executed, entered, event, readLength, current, joined, shmExists, shmOpen>>
  BY RanksAndWorkers, WorkersDiffer
  DEF TypeInv, PcTypes, Call, Goto, shmVars, rankVars
<1>2. K = Count(0) /\ \A w \in Workers : Waits(w, Count(0))
  BY <1>1 DEF Together, Writing
<1>3. /\ K \in Nat /\ K' = K + 1 /\ \A i \in 1 .. K : calls'[i] = calls[i]
      /\ calls'[K + 1] = m
  BY <1>1, CountType, RanksAndWorkers DEF K
<1>4. \A x \in Ranks : RankOk(x)'
  <2>1. ASSUME NEW x \in Ranks
               PROVE  /\ Count(x) <= K
                      /\ pc'[x] = pc[x] \/ (pc[x] \in AtRest /\ pc'[x] \in AtRest)
    <3>1. \A y \in Workers : Count(y) <= K /\ pc'[y] = pc[y]
      BY <1>1, <1>2, <1>3 DEF Waits
    <3>2. Count(0) <= K /\ pc[0] \in AtRest /\ pc'[0] \in AtRest
      BY <1>1, <1>2, <1>3 DEF AtRest
    <3>3. CASE x = 0
      BY <3>2, <3>3
    <3>4. CASE x # 0
      <4>1. x \in Workers
        BY <3>4, RanksAndWorkers
      <4>2. QED
        BY <3>1, <4>1
    <3>5. QED
      BY <3>3, <3>4
  <2>2. QED
    BY <2>1, RankCalled DEF Together
<1>5. MainLabels'
  BY <1>1, <1>2, <1>3, WorkersDiffer DEF Together, MainLabels, Leaving
<1>6. CallsOk'
  <2>1. m \in {"run", "exit"}
    <3>1. calls'[K + 1] \notin SwapMethods /\ K + 1 \in 1 .. Len(calls')
      BY <1>1, <1>3 DEF Undisturbed, K
    <3>2. QED
      BY <1>3, <3>1, ChannelAssumption DEF SwapMethods
  <2>2. \A i \in 1 .. K : calls[i] = "run"
    <3>1. K > 0 => calls[K] = "run"
      BY <1>1, <1>2, RanksAndWorkers DEF Together, RankOk, AtRest
    <3>2. QED
      BY <1>3, <3>1 DEF Together, CallsOk
  <2>3. \A i \in 1 .. K + 1 : calls'[i] \in {"run", "exit"}
    BY <1>3, <2>1, <2>2
  <2>4. \A i \in 1 .. K : calls'[i] = "run"
    BY <1>3, <2>2
  <2>5. K' - 1 = K
    BY <1>3
  <2>6. QED
    BY <1>3, <2>3, <2>4, <2>5 DEF CallsOk
<1>7. Starting'
  BY <1>1, <1>2, <1>3, WorkersDiffer DEF Together, Starting, K, Count
<1>8. Writing'
  <2>1. Count(0)' = Count(0) /\ \A w \in Workers : Waits(w, Count(0))'
    BY <1>1, <1>2 DEF Waits, Count
  <2>2. QED
    BY <1>1, <1>2, <1>3, <2>1 DEF Writing
<1>9. Signalling'
  BY <1>1, <1>2, <1>3, WorkersDiffer
  DEF Together, Signalling, Engaged, Takes, HasTaken, Waits, K, Count
<1>10. Working'
  BY <1>1, <1>2, <1>3, WorkersDiffer
  DEF Together, Working, Engaged, Takes, HasTaken, K, Count, Leaving
<1>11. Ending'
  BY <1>1, <1>2, <1>3, WorkersDiffer DEF Together, Ending, Leaving
<1>12. Segment'
  BY <1>1, <1>2, <1>3, WorkersDiffer DEF Together, Segment, Leaving
<1>13. QED
  BY <1>4, <1>5, <1>6, <1>7, <1>8, <1>9, <1>10, <1>11, <1>12 DEF Together

LEMMA SignalTogether ==
  ASSUME TypeInv, Together, Signal
  PROVE  Together'
<1> DEFINE told == signalled + 1
<1>1. /\ pc[0] = "signal" /\ told \in Workers /\ signalled \in Nat /\ signalled' = told
      /\ event' = [event EXCEPT ![told] = TRUE]
      /\ UNCHANGED <<calls, entered, readLength, shmExists, shmOpen, shmLength, shmData>>
  BY RanksAndWorkers DEF TypeInv, ChannelTypes, Signal, Workers, shmVars
<1>2. /\ \A w \in Workers : pc'[w] = pc[w] /\ executed'[w] = executed[w] /\ current'[w] = current[w]
      /\ \A w \in Workers : joined'[w] = joined[w]
  BY RanksAndWorkers, WorkersDiffer DEF TypeInv, PcTypes, RankTypes, Signal, Begin, Goto
<1>3. /\ K = Count(0) + 1 /\ K \in Nat /\ Count(0) \in Nat /\ shmLength = K /\ shmData = K /\ K' = K
      /\ \A w \in Workers : IF w <= signalled THEN Engaged(w) ELSE Waits(w, K - 1)
  BY <1>1, CountType, RanksAndWorkers DEF Together, Signalling, K
<1>4. ASSUME NEW w \in Workers PROVE IF w <= told THEN Engaged(w)' ELSE Waits(w, K - 1)'
  <2>1. CASE w = told
    <3>1. Waits(w, K - 1)
      BY <1>1, <1>3, <2>1
    <3>2. Takes(w)'
      BY <1>1, <1>2, <1>3, <2>1, <3>1 DEF Waits, Takes, Count, TypeInv, ChannelTypes
    <3>3. QED
      BY <1>1, <2>1, <3>2 DEF Engaged
  <2>2. CASE w # told
    <3>1. event'[w] = event[w] /\ (w <= told <=> w <= signalled)
      BY <1>1, <2>2, WorkersDiffer DEF TypeInv, ChannelTypes
    <3>2. Waits(w, K - 1) => Waits(w, K - 1)'
      BY <1>2, <1>3, <3>1 DEF Waits, Count
    <3>3. Engaged(w) => Engaged(w)'
      BY <1>1, <1>2, <1>3, <3>1 DEF Engaged, Takes, HasTaken, Count
    <3>4. QED
      BY <1>3, <3>1, <3>2, <3>3
  <2>3. QED
    BY <2>1, <2>2
<1>5. ASSUME NEW x \in Ranks, x # 0 PROVE RankOk(x)'
  BY <1>1, <1>2, <1>5, RankKept, RanksAndWorkers DEF Together
<1>6. CallsOk'
  BY <1>1 DEF Together, CallsOk, K
<1>7. CASE told = NumWorkers
  <2>1. Begin(0, Count(0) + 1)
    BY <1>1, <1>3, <1>7 DEF Signal, K
  <2>2. RankOk(0)' /\ Count(0)' = K /\ pc'[0] = "execute"
    BY <1>1, <1>3, <2>1, RankBegins, RanksAndWorkers DEF Together, AtRest
  <2>3. \A w \in Workers : Engaged(w)'
    BY <1>4, <1>7, RanksAndWorkers DEF Workers
  <2>4. Working'
    BY <1>1, <1>3, <2>2, <2>3 DEF Working
  <2>5. MainLabels' /\ Starting' /\ Writing' /\ Signalling' /\ Ending'
    BY <2>2 DEF MainLabels, Starting, Writing, Signalling, Ending
  <2>6. Segment'
    BY <1>1, <1>2, <2>2 DEF Together, Segment, Leaving
  <2>7. QED
    BY <1>5, <1>6, <2>2, <2>4, <2>5, <2>6 DEF Together
<1>8. CASE told # NumWorkers
  <2>1. UNCHANGED <<pc, current, executed, joined>>
    BY <1>8 DEF Signal
  <2>2. RankOk(0)' /\ Count(0)' = Count(0)
    BY <1>1, <2>1, RankKept, RanksAndWorkers DEF Together
  <2>3. Signalling'
    <3>1. \A w \in Workers : IF w <= signalled' THEN Engaged(w)' ELSE Waits(w, K - 1)'
      BY <1>1, <1>4
    <3>2. QED
      BY <1>1, <1>3, <2>2, <3>1 DEF Signalling
  <2>4. MainLabels' /\ Starting' /\ Writing' /\ Working' /\ Ending'
    BY <1>1, <2>1 DEF MainLabels, Starting, Writing, Working, Ending, Leaving
  <2>5. Segment'
    BY <1>1, <2>1 DEF Together, Segment
  <2>6. QED
    BY <1>5, <1>6, <2>2, <2>3, <2>4, <2>5 DEF Together
<1>9. QED
  BY <1>7, <1>8

LEMMA MainEnterTogether ==
  ASSUME TypeInv, Together, EnterCollective(0)
  PROVE  Together'
<1>1. /\ pc[0] = "execute" /\ pc'[0] \in {"execute", "sample"}
      /\ \A w \in Workers : /\ pc'[w] = pc[w] /\ executed'[w] = executed[w]
                            /\ entered'[w] = entered[w] /\ current'[w] = current[w]
                            /\ joined'[w] = joined[w]
      /\ UNCHANGED <<calls, event, readLength, shmLength, shmData, executed, shmExists, shmOpen>>
  BY RanksAndWorkers, WorkersDiffer
  DEF TypeInv, PcTypes, RankTypes, EnterCollective, Executes, Enter, Return, Goto, shmVars
<1>2. K = Count(0) /\ shmLength = K /\ shmData = K /\ \A w \in Workers : Engaged(w)
  BY <1>1 DEF Together, Working, Leaving
<1>3. \A x \in Ranks : RankOk(x)'
  <2>1. ASSUME NEW x \in Ranks, x # 0 PROVE RankOk(x)'
    BY <1>1, <2>1, RankKept, RanksAndWorkers DEF Together
  <2>2. RankOk(0)'
    BY <1>1, RankEnters, RanksAndWorkers DEF Together
  <2>3. QED
    BY <2>1, <2>2
<1>4. MainLabels'
  BY <1>1, <1>2, WorkersDiffer DEF Together, MainLabels, Leaving
<1>5. CallsOk'
  BY <1>1, <1>2, WorkersDiffer DEF Together, CallsOk, K
<1>6. Starting'
  BY <1>1, <1>2, WorkersDiffer DEF Together, Starting, K, Count
<1>7. Writing'
  BY <1>1, <1>2, WorkersDiffer DEF Together, Writing, Waits, K, Count
<1>8. Signalling'
  BY <1>1, <1>2, WorkersDiffer
  DEF Together, Signalling, Engaged, Takes, HasTaken, Waits, K, Count
<1>9. Working'
  <2>1. K' = K /\ Count(0)' = Count(0)
    BY <1>1, <1>2 DEF K, Count
  <2>2. \A w \in Workers : Engaged(w)'
    BY <1>1, <1>2, <2>1 DEF Engaged, Takes, HasTaken, Count
  <2>3. QED
    BY <1>1, <1>2, <2>1, <2>2 DEF Working
<1>10. Ending'
  BY <1>1, <1>2, WorkersDiffer DEF Together, Ending, Leaving
<1>11. Segment'
  BY <1>1, <1>2, WorkersDiffer DEF Together, Segment, Leaving
<1>12. QED
  BY <1>3, <1>4, <1>5, <1>6, <1>7, <1>8, <1>9, <1>10, <1>11 DEF Together

LEMMA MainBeginExitTogether ==
  ASSUME TypeInv, Together, BeginExit(0)
  PROVE  Together'
<1>1. /\ pc[0] = "execute" /\ pc'[0] = "exitBarrier" /\ shmOpen' = shmOpen \ {0}
      /\ \A w \in Workers : /\ pc'[w] = pc[w] /\ executed'[w] = executed[w]
                            /\ entered'[w] = entered[w] /\ current'[w] = current[w]
                            /\ joined'[w] = joined[w]
      /\ UNCHANGED <<calls, event, readLength, shmLength, shmData, executed, shmExists>>
  BY RanksAndWorkers, WorkersDiffer
  DEF TypeInv, PcTypes, RankTypes, BeginExit, Executes, Enter, Goto
<1>2. K = Count(0) /\ shmLength = K /\ shmData = K /\ \A w \in Workers : Engaged(w)
  BY <1>1 DEF Together, Working, Leaving
<1>3. \A x \in Ranks : RankOk(x)'
  <2>1. ASSUME NEW x \in Ranks, x # 0 PROVE RankOk(x)'
    BY <1>1, <2>1, RankKept, RanksAndWorkers DEF Together
  <2>2. RankOk(0)'
    BY <1>1, RankExits, RanksAndWorkers DEF Together
  <2>3. QED
    BY <2>1, <2>2
<1>4. MainLabels'
  BY <1>1, <1>2, WorkersDiffer DEF Together, MainLabels, Leaving
<1>5. CallsOk'
  BY <1>1, <1>2, WorkersDiffer DEF Together, CallsOk, K
<1>6. Starting'
  BY <1>1, <1>2, WorkersDiffer DEF Together, Starting, K, Count
<1>7. Writing'
  BY <1>1, <1>2, WorkersDiffer DEF Together, Writing, Waits, K, Count
<1>8. Signalling'
  BY <1>1, <1>2, WorkersDiffer
  DEF Together, Signalling, Engaged, Takes, HasTaken, Waits, K, Count
<1>9. Working'
  <2>1. K' = K /\ Count(0)' = Count(0)
    BY <1>1, <1>2 DEF K, Count
  <2>2. \A w \in Workers : Engaged(w)'
    BY <1>1, <1>2, <2>1 DEF Engaged, Takes, HasTaken, Count
  <2>3. QED
    BY <1>1, <1>2, <2>1, <2>2 DEF Working, Leaving
<1>10. Ending'
  BY <1>1, <1>2, WorkersDiffer DEF Together, Ending, Leaving
<1>11. Segment'
  BY <1>1, <1>2, WorkersDiffer DEF Together, Segment, Leaving
<1>12. QED
  BY <1>3, <1>4, <1>5, <1>6, <1>7, <1>8, <1>9, <1>10, <1>11 DEF Together

LEMMA MainEndExitTogether ==
  ASSUME TypeInv, Together, EndExit(0)
  PROVE  Together'
<1>1. /\ pc[0] = "exitBarrier" /\ pc'[0] = "join" /\ shmExists' = FALSE
      /\ \A w \in Workers : /\ pc'[w] = pc[w] /\ executed'[w] = executed[w]
                            /\ entered'[w] = entered[w] /\ current'[w] = current[w]
                            /\ joined'[w] = joined[w]
      /\ UNCHANGED <<calls, event, readLength, shmLength, shmData, executed, shmOpen, entered>>
  BY RanksAndWorkers, WorkersDiffer
  DEF TypeInv, PcTypes, RankTypes, EndExit, Goto, rankVars
<1>2. K = Count(0) /\ shmLength = K /\ shmData = K /\ \A w \in Workers : Engaged(w)
  BY <1>1 DEF Together, Working, Leaving
<1>3. ASSUME NEW w \in Workers PROVE pc[w] \in {"exitBarrier", "stopped"}
  <2>1. /\ K > 0 /\ K \in Nat /\ calls[K] = "exit" /\ Len(entered[w]) >= Before(K - 1) + 1
        /\ Before(K - 1) \in Nat
    BY <1>1, <1>2, CountType, BeforePrevious, RanksAndWorkers, WorkersDiffer
    DEF Together, RankOk, Leaving, EndExit, AllJoined
  <2>2. ~Takes(w)
    <3>1. Takes(w) => Len(entered[w]) = Before(K - 1)
      <4>1. CASE pc[w] = "initBarrier"
        BY <2>1, <4>1, BeforeNext, WorkersDiffer DEF Takes, Together, RankOk
      <4>2. CASE pc[w] # "initBarrier"
        BY <4>2, WorkersDiffer DEF Takes, Together, RankOk, AtRest
      <4>3. QED
        BY <4>1, <4>2
    <3>2. QED
      BY <2>1, <3>1
  <2>3. HasTaken(w)
    BY <1>2, <2>2 DEF Engaged
  <2>4. pc[w] # "execute"
    BY <2>1, <2>3, WorkersDiffer DEF HasTaken, Together, RankOk
  <2>5. pc[w] # "wait"
    BY <2>1, <2>3, WorkersDiffer DEF HasTaken, Together, RankOk, AtRest
  <2>6. QED
    BY <2>3, <2>4, <2>5 DEF HasTaken
<1>4. \A x \in Ranks : RankOk(x)'
  <2>1. ASSUME NEW x \in Ranks, x # 0 PROVE RankOk(x)'
    BY <1>1, <2>1, RankKept, RanksAndWorkers DEF Together
  <2>2. RankOk(0)'
    BY <1>1, RankMoves, RanksAndWorkers DEF Together, Leaving
  <2>3. QED
    BY <2>1, <2>2
<1>5. MainLabels'
  BY <1>1, <1>2, <1>3, WorkersDiffer DEF Together, MainLabels, Leaving
<1>6. CallsOk'
  BY <1>1, <1>2, <1>3, WorkersDiffer DEF Together, CallsOk, K
<1>7. Starting'
  BY <1>1, <1>2, <1>3, WorkersDiffer DEF Together, Starting, K, Count
<1>8. Writing'
  BY <1>1, <1>2, <1>3, WorkersDiffer DEF Together, Writing, Waits, K, Count
<1>9. Signalling'
  BY <1>1, <1>2, <1>3, WorkersDiffer
  DEF Together, Signalling, Engaged, Takes, HasTaken, Waits, K, Count
<1>10. Working'
  <2>1. K' = K /\ Count(0)' = Count(0)
    BY <1>1, <1>2 DEF K, Count
  <2>2. \A w \in Workers : Engaged(w)'
    BY <1>1, <1>2, <2>1 DEF Engaged, Takes, HasTaken, Count
  <2>3. QED
    BY <1>1, <1>2, <2>1, <2>2 DEF Working, Leaving
<1>11. Ending'
  BY <1>1, <1>2, <1>3, WorkersDiffer DEF Together, Ending, Leaving
<1>12. Segment'
  BY <1>1, <1>2, <1>3, WorkersDiffer DEF Together, Segment, Leaving
<1>13. QED
  BY <1>4, <1>5, <1>6, <1>7, <1>8, <1>9, <1>10, <1>11, <1>12 DEF Together

LEMMA JoinTogether ==
  ASSUME TypeInv, Together, Join
  PROVE  Together'
<1>1. /\ pc[0] = "join" /\ pc'[0] = "stopped"
      /\ \A w \in Workers : /\ pc'[w] = pc[w] /\ executed'[w] = executed[w]
                            /\ entered'[w] = entered[w] /\ current'[w] = current[w]
                            /\ joined'[w] = joined[w]
      /\ UNCHANGED <<calls, event, readLength, shmLength, shmData, executed,
                      shmExists, shmOpen, entered>>
  BY RanksAndWorkers, WorkersDiffer
  DEF TypeInv, PcTypes, RankTypes, Join, Goto, shmVars, rankVars
<1>2. K = Count(0) /\ shmLength = K /\ shmData = K /\ \A w \in Workers : Engaged(w)
  BY <1>1 DEF Together, Working, Leaving
<1>3. \A x \in Ranks : RankOk(x)'
  <2>1. ASSUME NEW x \in Ranks, x # 0 PROVE RankOk(x)'
    BY <1>1, <2>1, RankKept, RanksAndWorkers DEF Together
  <2>2. RankOk(0)'
    BY <1>1, RankMoves, RanksAndWorkers DEF Together, Leaving
  <2>3. QED
    BY <2>1, <2>2
<1>4. MainLabels'
  BY <1>1, <1>2, WorkersDiffer DEF Together, MainLabels, Leaving
<1>5. CallsOk'
  BY <1>1, <1>2, WorkersDiffer DEF Together, CallsOk, K
<1>6. Starting'
  BY <1>1, <1>2, WorkersDiffer DEF Together, Starting, K, Count
<1>7. Writing'
  BY <1>1, <1>2, WorkersDiffer DEF Together, Writing, Waits, K, Count
<1>8. Signalling'
  BY <1>1, <1>2, WorkersDiffer
  DEF Together, Signalling, Engaged, Takes, HasTaken, Waits, K, Count
<1>9. Working'
  <2>1. K' = K /\ Count(0)' = Count(0)
    BY <1>1, <1>2 DEF K, Count
  <2>2. \A w \in Workers : Engaged(w)'
    BY <1>1, <1>2, <2>1 DEF Engaged, Takes, HasTaken, Count
  <2>3. QED
    BY <1>1, <1>2, <2>1, <2>2 DEF Working, Leaving
<1>10. Ending'
  BY <1>1, <1>2, WorkersDiffer DEF Together, Ending, Leaving
<1>11. Segment'
  BY <1>1, <1>2, WorkersDiffer DEF Together, Segment, Leaving
<1>12. QED
  BY <1>3, <1>4, <1>5, <1>6, <1>7, <1>8, <1>9, <1>10, <1>11 DEF Together

LEMMA FetchTokensTogether ==
  ASSUME TypeInv, Together, FetchTokens
  PROVE  Together'
<1>1. /\ pc[0] = "sample" /\ pc'[0] = "idle"
      /\ \A w \in Workers : /\ pc'[w] = pc[w] /\ executed'[w] = executed[w]
                            /\ entered'[w] = entered[w] /\ current'[w] = current[w]
                            /\ joined'[w] = joined[w]
      /\ UNCHANGED <<calls, event, readLength, shmLength, shmData, executed,
                      shmExists, shmOpen, entered>>
  BY RanksAndWorkers, WorkersDiffer
  DEF TypeInv, PcTypes, RankTypes, FetchTokens, Return, Goto, shmVars, rankVars
<1>2. K = Count(0) /\ shmLength = K /\ shmData = K /\ \A w \in Workers : Engaged(w)
  BY <1>1 DEF Together, Working, Leaving
<1>3. ASSUME NEW w \in Workers PROVE Waits(w, Count(0))
  <2>1. /\ K \in Nat /\ Len(entered[w]) >= Before(K) /\ (K > 0 => calls[K] = "run")
        /\ Before(K) \in Nat
    BY <1>1, <1>2, CountType, BeforeNext, RanksAndWorkers, WorkersDiffer
    DEF Together, RankOk, AtRest, FetchTokens, AllJoined
  <2>2. K > 0 => /\ K - 1 \in Nat /\ Before(K - 1) \in Nat
                 /\ Before(K) = Before(K - 1) + NumCollectives
    BY <2>1, BeforePrevious
  <2>3. Count(w) \in Nat /\ NumCollectives \in Nat \ {0} /\ joined[w] \in Nat
    BY CountType, RanksAndWorkers, WorkersDiffer
  <2>4. ~Takes(w)
    <3>1. Takes(w) => Len(entered[w]) = Before(K - 1)
      <4>1. CASE pc[w] = "initBarrier"
        BY <2>1, <4>1, BeforeNext, WorkersDiffer DEF Takes, Together, RankOk
      <4>2. CASE pc[w] # "initBarrier"
        BY <4>2, WorkersDiffer DEF Takes, Together, RankOk, AtRest
      <4>3. QED
        BY <4>1, <4>2
    <3>2. Takes(w) => K > 0
      BY <2>1, <2>3 DEF Takes
    <3>3. QED
      BY <2>1, <2>2, <2>3, <3>1, <3>2
  <2>5. HasTaken(w)
    BY <1>2, <2>4 DEF Engaged
  <2>6. pc[w] # "execute"
    <3>1. pc[w] = "execute" => /\ K > 0 /\ Len(entered[w]) = Before(K - 1) + joined[w]
                               /\ joined[w] < NumCollectives
      BY <2>5, WorkersDiffer DEF HasTaken, Together, RankOk, TypeInv, PcTypes
    <3>2. QED
      BY <2>1, <2>2, <2>3, <3>1
  <2>7. pc[w] \notin {"exitBarrier", "stopped"}
    BY <2>1, <2>5, WorkersDiffer DEF HasTaken, Together, RankOk, Leaving
  <2>8. QED
    BY <1>2, <2>5, <2>6, <2>7 DEF HasTaken, Waits
<1>4. \A x \in Ranks : RankOk(x)'
  <2>1. ASSUME NEW x \in Ranks, x # 0 PROVE RankOk(x)'
    BY <1>1, <2>1, RankKept, RanksAndWorkers DEF Together
  <2>2. RankOk(0)'
    BY <1>1, RankMoves, RanksAndWorkers DEF Together, AtRest
  <2>3. QED
    BY <2>1, <2>2
<1>5. MainLabels'
  BY <1>1, <1>2, <1>3, WorkersDiffer DEF Together, MainLabels, Leaving
<1>6. CallsOk'
  BY <1>1, <1>2, <1>3, WorkersDiffer DEF Together, CallsOk, K
<1>7. Starting'
  BY <1>1, <1>2, <1>3, WorkersDiffer DEF Together, Starting, K, Count
<1>8. Writing'
  BY <1>1, <1>2, <1>3, WorkersDiffer DEF Together, Writing, Waits, K, Count
<1>9. Signalling'
  BY <1>1, <1>2, <1>3, WorkersDiffer
  DEF Together, Signalling, Engaged, Takes, HasTaken, Waits, K, Count
<1>10. Working'
  BY <1>1, <1>2, <1>3, WorkersDiffer
  DEF Together, Working, Engaged, Takes, HasTaken, K, Count, Leaving
<1>11. Ending'
  BY <1>1, <1>2, <1>3, WorkersDiffer DEF Together, Ending, Leaving
<1>12. Segment'
  BY <1>1, <1>2, <1>3, WorkersDiffer DEF Together, Segment, Leaving
<1>13. QED
  BY <1>4, <1>5, <1>6, <1>7, <1>8, <1>9, <1>10, <1>11, <1>12 DEF Together


(***************************************************************************)
(* The steps of a worker keep the ranks together.                          *)
(***************************************************************************)
OnlyMoves(w) ==
  /\ \A x \in Ranks : x # w => UNCHANGED <<pc[x], executed[x], entered[x], current[x], joined[x]>>
  /\ \A x \in Workers : x # w => UNCHANGED <<event[x], readLength[x]>>
  /\ UNCHANGED <<calls, shmExists, shmLength, shmData, signalled>>
  /\ shmOpen' \ {w} = shmOpen \ {w}

LEMMA WorkerMoves ==
  ASSUME TypeInv, Together, NEW w \in Workers, OnlyMoves(w), RankOk(w)',
         \A n : Waits(w, n) => ~event'[w] /\ Count(w)' = n /\ pc'[w] \in {"initBarrier", "wait"},
         Engaged(w) => Engaged(w)',
         pc[0] = "init" => ~event'[w] /\ pc'[w] \in {"init", "initBarrier"},
         pc[0] = "initBarrier" =>
           ~event'[w] /\ Count(w)' = 0 /\ pc'[w] \in {"init", "initBarrier", "wait"},
         pc[0] \in {"join", "stopped"} => pc'[w] \in {"exitBarrier", "stopped"},
         w \in shmOpen' <=> pc'[w] \in {"wait", "read", "clear", "execute"}
  PROVE  Together'
<1>1. /\ pc'[0] = pc[0] /\ K' = K /\ Count(0)' = Count(0) /\ calls' = calls
      /\ shmExists' = shmExists /\ shmLength' = shmLength /\ shmData' = shmData
      /\ signalled' = signalled
  BY RanksAndWorkers, WorkersDiffer DEF OnlyMoves, K, Count
<1>2. \A n : \A y \in Workers : Waits(y, n) =>
        ~event'[y] /\ Count(y)' = n /\ pc'[y] \in {"initBarrier", "wait"}
  BY WorkersDiffer DEF OnlyMoves, Waits, Count
<1>3. \A y \in Workers : Engaged(y) => Engaged(y)'
  BY <1>1, WorkersDiffer DEF OnlyMoves, Engaged, Takes, HasTaken, Count
<1>4. \A x \in Ranks : RankOk(x)'
  <2>1. ASSUME NEW x \in Ranks, x # w PROVE RankOk(x)'
    BY <2>1, RankKept DEF Together, OnlyMoves
  <2>2. QED
    BY <2>1
<1>5. MainLabels' /\ CallsOk'
  BY <1>1 DEF Together, MainLabels, CallsOk, K
<1>6. Starting'
  BY <1>1, WorkersDiffer DEF Together, Starting, OnlyMoves, Count
<1>7. Writing'
  BY <1>1, <1>2 DEF Together, Writing, Waits
<1>8. Signalling'
  BY <1>1, <1>2, <1>3 DEF Together, Signalling, Waits
<1>9. Working'
  BY <1>1, <1>3 DEF Together, Working
<1>10. Ending'
  BY <1>1, WorkersDiffer DEF Together, Ending, OnlyMoves
<1>11. Segment'
  <2>1. \A y \in Workers : y \in shmOpen' <=> pc'[y] \in {"wait", "read", "clear", "execute"}
    <3>1. ASSUME NEW y \in Workers, y # w
          PROVE (y \in shmOpen' <=> y \in shmOpen) /\ pc'[y] = pc[y]
      BY <3>1, WorkersDiffer DEF OnlyMoves
    <3>2. QED
      BY <3>1 DEF Together, Segment
  <2>2. 0 \in shmOpen' <=> 0 \in shmOpen
    BY WorkersDiffer DEF OnlyMoves
  <2>3. QED
    BY <1>1, <2>1, <2>2 DEF Together, Segment
<1>12. QED
  BY <1>4, <1>5, <1>6, <1>7, <1>8, <1>9, <1>10, <1>11 DEF Together

LEMMA WorkerStartTogether ==
  ASSUME TypeInv, Together, NEW w \in Workers, Start(w)
  PROVE  Together'
<1>1. pc[w] = "init" /\ pc'[w] = "initBarrier" /\ event'[w] = event[w] /\ shmOpen' = shmOpen
  BY WorkersDiffer DEF Start, Goto, TypeInv, PcTypes
<1>2. OnlyMoves(w)
  BY WorkersDiffer DEF OnlyMoves, Start, Goto, Enter, TypeInv, PcTypes, RankTypes
<1>3. RankOk(w)' /\ Count(w)' = Count(w) /\ Count(w) = 0
  BY <1>1, RankStarts, WorkersDiffer DEF Together, RankOk
<1>4. ~Engaged(w) /\ \A n : ~Waits(w, n)
  BY <1>1 DEF Engaged, Takes, HasTaken, Waits
<1>5. pc[0] \notin {"join", "stopped"}
  BY <1>1 DEF Together, Ending
<1>6. pc[0] \in {"init", "initBarrier"} => ~event[w]
  BY DEF Together, Starting
<1>7. w \notin shmOpen
  BY <1>1 DEF Together, Segment
<1>8. QED
  BY <1>1, <1>2, <1>3, <1>4, <1>5, <1>6, <1>7, WorkerMoves

LEMMA WorkerLeaveTogether ==
  ASSUME TypeInv, Together, NEW w \in Workers, LeaveInitBarrier(w)
  PROVE  Together'
<1>1. pc[0] # "init"
  <2>1. Len(entered[w]) = 1 /\ Len(entered[0]) >= Len(entered[w])
    BY RanksAndWorkers, WorkersDiffer DEF Together, RankOk, LeaveInitBarrier, AllJoined
  <2>2. QED
    BY <2>1, RanksAndWorkers DEF Together, RankOk
<1>2. pc[w] = "initBarrier" /\ pc[0] \notin {"join", "stopped"}
  BY DEF LeaveInitBarrier, Together, Ending
<1>3. shmExists
  BY <1>1, <1>2 DEF Together, Segment
<1>4. /\ pc'[w] = "wait" /\ shmOpen' = shmOpen \cup {w}
      /\ UNCHANGED <<executed, entered, event, readLength, calls, current>>
  BY <1>3, WorkersDiffer DEF LeaveInitBarrier, Goto, TypeInv, PcTypes, rankVars
<1>5. OnlyMoves(w)
  BY <1>4, WorkersDiffer DEF OnlyMoves, LeaveInitBarrier, Goto, TypeInv, PcTypes, rankVars
<1>6. RankOk(w)' /\ Count(w)' = Count(w)
  BY <1>2, <1>4, RankOpens, WorkersDiffer DEF Together
<1>7. \A n : Waits(w, n) => ~event'[w] /\ Count(w)' = n
  BY <1>4, <1>6 DEF Waits
<1>8. Engaged(w) => Engaged(w)'
  BY <1>2, <1>4, <1>6 DEF Engaged, Takes, HasTaken, K
<1>9. pc[0] = "initBarrier" => ~event'[w] /\ Count(w)' = 0
  BY <1>4, <1>6 DEF Together, Starting
<1>10. QED
  BY <1>1, <1>2, <1>4, <1>5, <1>6, <1>7, <1>8, <1>9, WorkerMoves

LEMMA ReadLengthTogether ==
  ASSUME TypeInv, Together, NEW w \in Workers, ReadLength(w)
  PROVE  Together'
<1>1. Takes(w) /\ shmLength = K /\ pc[0] \in {"signal", "execute", "sample"} \cup Leaving
  BY TakesWhatIsWritten DEF ReadLength
<1>2. /\ pc[w] = "wait" /\ pc'[w] = "read" /\ readLength'[w] = shmLength
      /\ UNCHANGED <<executed, entered, event, calls, current, shmOpen>>
  BY WorkersDiffer DEF ReadLength, Goto, TypeInv, PcTypes, RankTypes, shmVars
<1>3. OnlyMoves(w)
  BY WorkersDiffer DEF OnlyMoves, ReadLength, Goto, TypeInv, PcTypes, RankTypes, shmVars
<1>4. RankOk(w)' /\ Count(w)' = Count(w)
  BY <1>2, RankMoves, WorkersDiffer DEF Together, AtRest
<1>5. Engaged(w)' /\ \A n : ~Waits(w, n)
  BY <1>1, <1>2, <1>4 DEF Engaged, Takes, Waits, K
<1>6. pc[0] \notin {"init", "initBarrier", "join", "stopped"}
  BY <1>1, <1>2 DEF Together, Ending, Leaving
<1>7. w \in shmOpen'
  BY <1>2 DEF Together, Segment
<1>8. QED
  BY <1>2, <1>3, <1>4, <1>5, <1>6, <1>7, WorkerMoves

LEMMA ReadDataTogether ==
  ASSUME TypeInv, Together, NEW w \in Workers, ReadData(w)
  PROVE  Together'
<1>1. /\ Takes(w) /\ shmData = K /\ readLength[w] = K
      /\ pc[0] \in {"signal", "execute", "sample"} \cup Leaving
  BY TakesWhatIsWritten DEF ReadData, Takes
<1>2. /\ pc[w] = "read" /\ pc'[w] = "clear" /\ current' = [current EXCEPT ![w] = shmData]
      /\ UNCHANGED <<executed, entered, event, readLength, joined, calls, shmOpen>>
  BY <1>1, WorkersDiffer DEF ReadData, Goto, TypeInv, PcTypes, shmVars
<1>3. OnlyMoves(w)
  BY <1>1, <1>2, WorkersDiffer
  DEF OnlyMoves, ReadData, Goto, TypeInv, PcTypes, RankTypes, shmVars
<1>4. RankOk(w)' /\ Count(w)' = Count(w)
  BY <1>2, RankMoves, WorkersDiffer DEF Together, AtRest
<1>5. current'[w] = K
  BY <1>1, <1>2, WorkersDiffer DEF TypeInv, RankTypes
<1>6. Engaged(w)' /\ \A n : ~Waits(w, n)
  BY <1>1, <1>2, <1>4, <1>5 DEF Engaged, Takes, Waits, K
<1>7. pc[0] \notin {"init", "initBarrier", "join", "stopped"}
  BY <1>1, <1>2 DEF Together, Ending, Leaving
<1>8. w \in shmOpen'
  BY <1>2 DEF Together, Segment
<1>9. QED
  BY <1>2, <1>3, <1>4, <1>6, <1>7, <1>8, WorkerMoves

LEMMA ClearEventTogether ==
  ASSUME TypeInv, Together, NEW w \in Workers, ClearEvent(w)
  PROVE  Together'
<1>1. Takes(w) /\ pc[0] \in {"signal", "execute", "sample"} \cup Leaving
  BY TakesWhatIsWritten DEF ClearEvent
<1>2. /\ pc[w] = "clear" /\ current[w] = K /\ Count(w) = K - 1 /\ K \in Nat /\ Count(w) \in Nat
      /\ Count(w) + 1 = K
  BY <1>1, CountType, WorkersDiffer DEF ClearEvent, Takes
<1>3. /\ Begin(w, Count(w) + 1) /\ event'[w] = FALSE
      /\ UNCHANGED <<entered, readLength, calls, shmOpen>>
  BY <1>2 DEF ClearEvent, TypeInv, ChannelTypes, shmVars
<1>4. OnlyMoves(w)
  BY WorkersDiffer
  DEF OnlyMoves, ClearEvent, Begin, Goto, TypeInv, ChannelTypes, PcTypes, RankTypes, shmVars
<1>5. RankOk(w)' /\ Count(w)' = Count(w) + 1 /\ pc'[w] = "execute"
  BY <1>2, <1>3, RankBegins, WorkersDiffer DEF Together, AtRest
<1>6. HasTaken(w)' /\ \A n : ~Waits(w, n)
  BY <1>2, <1>3, <1>5 DEF HasTaken, Waits, K
<1>7. pc[0] \notin {"init", "initBarrier", "join", "stopped"}
  BY <1>1, <1>2 DEF Together, Ending, Leaving
<1>8. w \in shmOpen'
  BY <1>2, <1>3 DEF Together, Segment
<1>9. QED
  BY <1>3, <1>4, <1>5, <1>6, <1>7, <1>8, WorkerMoves DEF Engaged

LEMMA WorkerEnterTogether ==
  ASSUME TypeInv, Together, NEW w \in Workers, EnterCollective(w)
  PROVE  Together'
<1>1. /\ pc[w] = "execute" /\ pc'[w] \in {"execute", "wait"} /\ shmOpen' = shmOpen
      /\ UNCHANGED <<executed, event, readLength, calls>>
  BY WorkersDiffer
  DEF EnterCollective, Executes, Enter, Return, Goto, TypeInv, PcTypes, RankTypes, shmVars
<1>2. OnlyMoves(w)
  BY <1>1, WorkersDiffer
  DEF OnlyMoves, EnterCollective, Executes, Enter, Return, Goto, TypeInv, PcTypes, RankTypes, shmVars
<1>3. RankOk(w)' /\ Count(w)' = Count(w)
  BY <1>1, RankEnters, WorkersDiffer DEF Together
<1>4. ~Takes(w) /\ \A n : ~Waits(w, n)
  BY <1>1 DEF Takes, Waits
<1>5. HasTaken(w) => HasTaken(w)'
  BY <1>1, <1>3 DEF HasTaken, K
<1>6. pc[0] \notin {"init", "initBarrier", "join", "stopped"}
  BY <1>1 DEF Together, Starting, Ending
<1>7. QED
  BY <1>1, <1>2, <1>3, <1>4, <1>5, <1>6, WorkerMoves DEF Engaged, Together, Segment

LEMMA WorkerBeginExitTogether ==
  ASSUME TypeInv, Together, NEW w \in Workers, BeginExit(w)
  PROVE  Together'
<1>1. /\ pc[w] = "execute" /\ pc'[w] \in {"exitBarrier"} /\ shmOpen' = shmOpen \ {w}
      /\ UNCHANGED <<executed, event, readLength, calls>>
  BY WorkersDiffer
  DEF BeginExit, Executes, Enter, Goto, TypeInv, PcTypes, RankTypes
<1>2. OnlyMoves(w)
  BY <1>1, WorkersDiffer
  DEF OnlyMoves, BeginExit, Executes, Enter, Goto, TypeInv, PcTypes, RankTypes
<1>3. RankOk(w)' /\ Count(w)' = Count(w)
  BY <1>1, RankExits, WorkersDiffer DEF Together
<1>4. ~Takes(w) /\ \A n : ~Waits(w, n)
  BY <1>1 DEF Takes, Waits
<1>5. HasTaken(w) => HasTaken(w)'
  BY <1>1, <1>3 DEF HasTaken, K
<1>6. pc[0] \notin {"init", "initBarrier", "join", "stopped"}
  BY <1>1 DEF Together, Starting, Ending
<1>7. QED
  BY <1>1, <1>2, <1>3, <1>4, <1>5, <1>6, WorkerMoves DEF Engaged, Together, Segment

LEMMA WorkerEndExitTogether ==
  ASSUME TypeInv, Together, NEW w \in Workers, EndExit(w)
  PROVE  Together'
<1>1. /\ pc[w] = "exitBarrier" /\ pc'[w] \in {"stopped"} /\ shmOpen' = shmOpen
      /\ UNCHANGED <<executed, event, readLength, calls>>
  BY WorkersDiffer
  DEF EndExit, Goto, TypeInv, PcTypes, RankTypes, rankVars
<1>2. OnlyMoves(w)
  BY <1>1, WorkersDiffer
  DEF OnlyMoves, EndExit, Goto, TypeInv, PcTypes, RankTypes, rankVars
<1>3. RankOk(w)' /\ Count(w)' = Count(w)
  BY <1>1, RankMoves, WorkersDiffer DEF Together, Leaving, EndExit, rankVars
<1>4. ~Takes(w) /\ \A n : ~Waits(w, n)
  BY <1>1 DEF Takes, Waits
<1>5. HasTaken(w) => HasTaken(w)'
  BY <1>1, <1>3 DEF HasTaken, K
<1>6. pc[0] \notin {"init", "initBarrier"}
  BY <1>1 DEF Together, Starting, Ending
<1>7. QED
  BY <1>1, <1>2, <1>3, <1>4, <1>5, <1>6, WorkerMoves DEF Engaged, Together, Segment

(***************************************************************************)
(* The invariant.                                                          *)
(***************************************************************************)
LEMMA InitTogether == Init => Together
<1> SUFFICES ASSUME Init PROVE Together
  OBVIOUS
<1>1. calls = << >> /\ Len(calls) = 0 /\ 0 \in Ranks
  BY RanksAndWorkers DEF Init
<1>2. \A r \in Ranks : RankOk(r)
  BY DEF Init, RankOk, Count, AtRest, Leaving
<1>3. MainLabels /\ CallsOk /\ Starting /\ Writing /\ Signalling /\ Working /\ Ending
  BY <1>1, WorkersDiffer
  DEF Init, MainLabels, CallsOk, Starting, Writing, Signalling, Working, Ending, Leaving, K
<1>4. Segment
  BY <1>1, WorkersDiffer DEF Init, Segment, Leaving
<1>5. QED
  BY <1>2, <1>3, <1>4 DEF Together

LEMMA UnchangedTogether == Together /\ UNCHANGED vars => Together'
BY DEF vars, shmVars, rankVars, Together, MainLabels, RankOk, CallsOk, Starting, Writing, Signalling,
       Working, Ending, Segment, Engaged, Takes, HasTaken, Waits, K, Count, AtRest, Leaving

\* What has once disturbed the ranks is not forgotten.
LEMMA UndisturbedBefore == TypeInv /\ [Next]_vars /\ Undisturbed' => Undisturbed
<1> SUFFICES ASSUME TypeInv, [Next]_vars, Undisturbed' PROVE Undisturbed
  OBVIOUS
<1>1. oom => oom'
  BY DEF Next, Rank0Step, WorkerStep, Execute, Start, LeaveInitBarrier, Call, WriteLength, BeginData,
         EndData, Signal, ReadLength, ReadData, ClearEvent, EnterCollective, FetchTokens, OutOfMemory,
         Copy, BeginExit, EndExit, Join, vars
<1>2. calls' = calls \/ \E m : calls' = Append(calls, m)
  BY DEF Next, Rank0Step, WorkerStep, Execute, Start, LeaveInitBarrier, Call, WriteLength, BeginData,
         EndData, Signal, ReadLength, ReadData, ClearEvent, EnterCollective, FetchTokens, OutOfMemory,
         Copy, BeginExit, EndExit, Join, vars
<1>3. ASSUME NEW i \in 1 .. Len(calls) PROVE i \in 1 .. Len(calls') /\ calls'[i] = calls[i]
  BY <1>2 DEF TypeInv, ChannelTypes
<1>4. QED
  BY <1>1, <1>3 DEF Undisturbed

LEMMA CopyDisturbs ==
  ASSUME TypeInv, NEW r \in Ranks, Copy(r)
  PROVE  ~Undisturbed \/ ~RankOk(r)
<1>1. pc[r] = "execute" /\ calls[current[r]] \in SwapMethods
  BY DEF Copy, Executes
<1>2. ASSUME RankOk(r) PROVE current[r] \in 1 .. Len(calls)
  BY <1>1, <1>2, CountType DEF RankOk, TypeInv, RankTypes
<1>3. QED
  BY <1>1, <1>2 DEF Undisturbed

LEMMA NextTogether ==
  ASSUME TypeInv, Together, [Next]_vars, Undisturbed'
  PROVE  Together'
<1>1. Undisturbed
  BY UndisturbedBefore
<1>2. ASSUME NEW r \in Ranks PROVE ~Copy(r) /\ ~OutOfMemory(r)
  BY <1>1, CopyDisturbs DEF Together, OutOfMemory, Undisturbed
<1>3. CASE UNCHANGED vars
  BY <1>3, UnchangedTogether
<1>4. CASE Rank0Step
  BY <1>2, <1>4, RanksAndWorkers, MainStartTogether, MainLeaveTogether, WriteLengthTogether,
     BeginDataTogether, EndDataTogether, SignalTogether, MainEnterTogether, MainBeginExitTogether,
     MainEndExitTogether, FetchTokensTogether, JoinTogether
  DEF Rank0Step, Execute
<1>5. ASSUME NEW w \in Workers, WorkerStep(w) PROVE Together'
  BY <1>2, <1>5, WorkersDiffer, WorkerStartTogether, WorkerLeaveTogether, ReadLengthTogether,
     ReadDataTogether, ClearEventTogether, WorkerEnterTogether, WorkerBeginExitTogether,
     WorkerEndExitTogether
  DEF WorkerStep, Execute
<1>6. ASSUME NEW m \in Methods \cup {"exit"}, Call(m) PROVE Together'
  BY <1>6, CallTogether
<1>7. QED
  BY <1>2, <1>3, <1>4, <1>5, <1>6 DEF Next

\* As long as the engine makes only calls with collectives and no rank runs out of
\* memory, the ranks stay together.
THEOREM RanksTogether == Spec => [](TypeInv /\ (Undisturbed => Together))
<1> DEFINE Inv == TypeInv /\ (Undisturbed => Together)
<1>1. Init => Inv
  BY InitTypeInv, InitTogether
<1>2. Inv /\ [Next]_vars => Inv'
  BY NextTypeInv, UndisturbedBefore, NextTogether
<1> HIDE DEF Inv
<1>3. Spec => []Inv
  BY <1>1, <1>2, PTL DEF Spec
<1>4. QED
  BY <1>3 DEF Inv

\* Every rank executes exactly the calls of rank 0, in order: none is lost, repeated
\* or overtaken by the next (model_runner.py:77-106).
THEOREM CallsAgree == Spec => []SameCallsUndisturbed
<1>1. TypeInv /\ (Undisturbed => Together) => SameCallsUndisturbed
  BY DEF SameCallsUndisturbed, SameCalls, Together, RankOk
<1>2. QED
  BY <1>1, RanksTogether, PTL

\* Rank 0 never writes into shared memory what a worker has yet to read, is reading,
\* or has yet to acknowledge by clearing its event (model_runner.py:88-96).
THEOREM NoOverwriting == Spec => []WritesAlone
<1>1. TypeInv /\ (Undisturbed => Together) => WritesAlone
  BY DEF WritesAlone, Together, Writing, Waits
<1>2. QED
  BY <1>1, RanksTogether, PTL

\* Whatever the number of workers, calls and collectives: two ranks that join in a
\* collective join in the same one of the same call, so none waits for ever on a
\* partner that is in another (model_runner.py:279, linear.py, embed_head.py).
THEOREM CollectivesAgree == Spec => []CollectivesMatch
<1>1. TypeInv /\ (Undisturbed => Together) => CollectivesMatch
  <2> SUFFICES ASSUME TypeInv, Together, NEW r \in Ranks, NEW other \in Ranks,
                      NEW i \in DOMAIN entered[r] \cap DOMAIN entered[other]
               PROVE  entered[r][i] = entered[other][i]
    BY DEF CollectivesMatch
  <2>1. /\ i \in Nat /\ entered[r][i] \in Nat \X (1 .. NumCollectives)
        /\ entered[other][i] \in Nat \X (1 .. NumCollectives)
    <3>1. /\ entered[r] \in Seq(Nat \X (1 .. NumCollectives))
          /\ entered[other] \in Seq(Nat \X (1 .. NumCollectives))
      BY DEF TypeInv, RankTypes
    <3>2. i \in DOMAIN entered[r] /\ i \in DOMAIN entered[other]
      OBVIOUS
    <3>3. ASSUME NEW S, NEW q \in Seq(S), i \in DOMAIN q PROVE i \in Nat /\ q[i] \in S
      BY <3>3
    <3>4. QED
      BY <3>1, <3>2, <3>3
  <2>2. Place(entered[r][i], i) /\ Place(entered[other][i], i)
    BY DEF Together, RankOk
  <2>3. QED
    BY <2>1, <2>2, PlaceUnique
<1>2. QED
  BY <1>1, RanksTogether, PTL

\* The segment exists as long as a rank has it mapped, and a worker that waits, reads
\* or executes has it mapped (model_runner.py:53-67).
THEOREM SegmentLives == Spec => []ShmLifetime
<1>1. TypeInv /\ (Undisturbed => Together) => ShmLifetime
  <2> SUFFICES ASSUME TypeInv, Together
               PROVE  /\ ~shmExists => shmOpen = {}
                      /\ \A w \in Workers :
                           pc[w] \in {"wait", "read", "clear", "execute", "dead"} => w \in shmOpen
    BY DEF ShmLifetime
  <2>1. ASSUME ~shmExists PROVE shmOpen = {}
    <3>1. pc[0] \in {"init", "join", "stopped"}
      BY <2>1 DEF Together, Segment
    <3>2. 0 \notin shmOpen
      BY <3>1 DEF Together, Segment, Leaving
    <3>3. \A w \in Workers : w \notin shmOpen
      BY <3>1 DEF Together, Segment, Starting, Ending
    <3>4. QED
      BY <3>2, <3>3, RanksAndWorkers DEF TypeInv, ChannelTypes
  <2>2. ASSUME NEW w \in Workers PROVE pc[w] # "dead"
    <3>1. Engaged(w) => pc[w] # "dead"
      BY DEF Engaged, Takes, HasTaken
    <3>2. \A n : Waits(w, n) => pc[w] # "dead"
      BY DEF Waits
    <3>3. pc[0] \in {"init", "initBarrier"} => pc[w] # "dead"
      BY DEF Together, Starting
    <3>4. QED
      BY <3>1, <3>2, <3>3 DEF Together, MainLabels, Writing, Signalling, Working
  <2>3. QED
    BY <2>1, <2>2 DEF Together, Segment
<1>2. QED
  BY <1>1, RanksTogether, PTL
=============================================================================
