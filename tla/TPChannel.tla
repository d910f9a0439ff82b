------------------------------ MODULE TPChannel ------------------------------
(***************************************************************************)
(* nanovllm/engine/model_runner.py with tensor parallelism: rank 0 writes  *)
(* every call of the engine into shared memory and sets one event per      *)
(* worker; a worker waits for its event, reads the call, clears the event  *)
(* and executes the call.  Nothing tells rank 0 that a worker has read.    *)
(* What keeps them together is in the calls themselves: a forward pass     *)
(* contains collectives, and rank 0 ends it by fetching the sampled tokens *)
(* from the device, which waits for the last of them.  swap_out and        *)
(* swap_in contain no collective.                                          *)
(*                                                                         *)
(* Collectives are queued on the device: a worker enters them and goes on. *)
(* The i-th collective of a rank joins with the i-th of every other.       *)
(***************************************************************************)
EXTENDS Integers, Sequences, FiniteSets

CONSTANTS
  NumWorkers,      \* tensor_parallel_size - 1
  Methods,         \* what the engine calls besides exit
  NumCollectives,  \* collectives of one forward pass, the gather of logits included
  MaxCalls         \* bound of the model: calls before exit

ASSUME ChannelAssumption ==
  /\ NumWorkers \in Nat \ {0}
  /\ NumCollectives \in Nat \ {0}
  /\ Methods \subseteq {"run", "swap_out", "swap_in"}
  /\ MaxCalls \in Nat

Workers == 1 .. NumWorkers
Ranks == 0 .. NumWorkers
SwapMethods == {"swap_out", "swap_in"}

VARIABLES
  calls,      \* the methods rank 0 has called, the last one maybe still being written
  shmExists,  \* there is a shared memory segment of that name
  shmOpen,    \* the ranks that have it mapped
  shmLength,  \* buf[0:4]: the length of which call
  shmData,    \* buf[4:]: which call, or Torn while it is being written
  event,      \* the event of every worker
  signalled,  \* how many events write_shm has set
  pc,         \* where every rank is
  readLength, \* n in read_shm: the length of which call
  current,    \* the call a rank executes
  executed,   \* the calls a rank has begun to execute, in order
  joined,     \* collectives of the current call that a rank has entered
  entered,    \* all collectives a rank has entered, in order
  oom         \* a forward pass has run out of memory on some rank

shmVars == <<shmExists, shmOpen, shmLength, shmData>>
rankVars == <<readLength, current, executed, joined, entered>>
vars == <<calls, shmVars, event, signalled, pc, rankVars, oom>>

Torn == 0   \* no call: calls are numbered from 1

Init ==
  /\ calls = << >>
  /\ shmExists = FALSE /\ shmOpen = {} /\ shmLength = Torn /\ shmData = Torn
  /\ event = [w \in Workers |-> FALSE]
  /\ signalled = 0
  /\ pc = [r \in Ranks |-> "init"]
  /\ readLength = [w \in Workers |-> 0]
  /\ current = [r \in Ranks |-> 0]
  /\ executed = [r \in Ranks |-> << >>]
  /\ joined = [r \in Ranks |-> 0]
  /\ entered = [r \in Ranks |-> << >>]
  /\ oom = FALSE

Goto(r, label) == pc' = [pc EXCEPT ![r] = label]

\* Bug: tolist() does not wait for the workers.
AllJoinedByNone(r) == TRUE

\* Every other rank has entered the collectives that r has entered.
AllJoined(r) == \A other \in Ranks : Len(entered[other]) >= Len(entered[r])

\* The collective r enters next belongs to its current call; call 0 is __init__.
Enter(r) == entered' = [entered EXCEPT ![r] = Append(@, <<current[r], joined[r] + 1>>)]

(***************************************************************************)
(* __init__: rank 0 creates the segment, all meet at the barrier, and the  *)
(* workers open it.                                                        *)
(***************************************************************************)
Start(r) ==
  /\ pc[r] = "init"
  /\ IF r = 0 THEN shmExists' = TRUE /\ shmOpen' = {0}
              ELSE UNCHANGED <<shmExists, shmOpen>>
  /\ Enter(r)
  /\ Goto(r, "initBarrier")
  /\ UNCHANGED <<calls, shmLength, shmData, event, signalled, readLength, current, executed,
                 joined, oom>>

LeaveInitBarrier(r) ==
  /\ pc[r] = "initBarrier"
  /\ AllJoined(r)
  /\ IF r = 0 THEN Goto(r, "idle") /\ UNCHANGED shmOpen
     ELSE IF shmExists THEN Goto(r, "wait") /\ shmOpen' = shmOpen \cup {r}
     ELSE Goto(r, "dead") /\ UNCHANGED shmOpen
  /\ UNCHANGED <<calls, shmExists, shmLength, shmData, event, signalled, rankVars, oom>>

(***************************************************************************)
(* call and write_shm on rank 0.                                           *)
(***************************************************************************)
Call(method) ==
  /\ pc[0] = "idle"
  /\ Len(calls) < MaxCalls \/ method = "exit"
  /\ calls' = Append(calls, method)
  /\ Goto(0, "length")
  /\ UNCHANGED <<shmVars, event, signalled, rankVars, oom>>

WriteLength ==
  /\ pc[0] = "length"
  /\ shmLength' = Len(calls)
  /\ Goto(0, "data")
  /\ UNCHANGED <<calls, shmExists, shmOpen, shmData, event, signalled, rankVars, oom>>

BeginData ==
  /\ pc[0] = "data"
  /\ shmData' = Torn
  /\ Goto(0, "dataEnd")
  /\ UNCHANGED <<calls, shmExists, shmOpen, shmLength, event, signalled, rankVars, oom>>

EndData ==
  /\ pc[0] = "dataEnd"
  /\ shmData' = Len(calls)
  /\ signalled' = 0
  /\ Goto(0, "signal")
  /\ UNCHANGED <<calls, shmExists, shmOpen, shmLength, event, rankVars, oom>>

\* Bug: the collectives of the call before are still counted.
BeginKeepsCount(r, call) ==
  /\ current' = [current EXCEPT ![r] = call]
  /\ executed' = [executed EXCEPT ![r] = Append(@, call)]
  /\ Goto(r, "execute")
  /\ UNCHANGED joined

Begin(r, call) ==
  /\ current' = [current EXCEPT ![r] = call]
  /\ executed' = [executed EXCEPT ![r] = Append(@, call)]
  /\ joined' = [joined EXCEPT ![r] = 0]
  /\ Goto(r, "execute")

Signal ==
  /\ pc[0] = "signal"
  /\ event' = [event EXCEPT ![signalled + 1] = TRUE]
  /\ signalled' = signalled + 1
  /\ IF signalled + 1 = NumWorkers THEN Begin(0, Len(calls))
                                   ELSE UNCHANGED <<pc, current, executed, joined>>
  /\ UNCHANGED <<calls, shmVars, readLength, entered, oom>>

(***************************************************************************)
(* loop and read_shm on a worker.  Data that is torn, or longer than the   *)
(* length read before, does not unpickle: the worker ends by an exception. *)
(***************************************************************************)
ReadLength(w) ==
  /\ pc[w] = "wait"
  /\ event[w]
  /\ readLength' = [readLength EXCEPT ![w] = shmLength]
  /\ Goto(w, "read")
  /\ UNCHANGED <<calls, shmVars, event, signalled, current, executed, joined, entered, oom>>

ReadData(w) ==
  /\ pc[w] = "read"
  /\ \/ /\ shmData # Torn
        /\ current' = [current EXCEPT ![w] = shmData]
        /\ Goto(w, "clear")
     \/ /\ readLength[w] # shmData
        /\ Goto(w, "dead")
        /\ UNCHANGED current
  /\ UNCHANGED <<calls, shmVars, event, signalled, readLength, executed, joined, entered, oom>>

\* Bug: the event is not cleared, and wakes the worker for the same call again.
KeepEvent(w) ==
  /\ pc[w] = "clear"
  /\ Begin(w, current[w])
  /\ UNCHANGED <<calls, shmVars, event, signalled, readLength, entered, oom>>

ClearEvent(w) ==
  /\ pc[w] = "clear"
  /\ event' = [event EXCEPT ![w] = FALSE]
  /\ Begin(w, current[w])
  /\ UNCHANGED <<calls, shmVars, signalled, readLength, entered, oom>>

(***************************************************************************)
(* The methods, on every rank.                                             *)
(***************************************************************************)
Executes(r, methods) == pc[r] = "execute" /\ calls[current[r]] \in methods

Return(r) == Goto(r, IF r = 0 THEN "idle" ELSE "wait")

\* Bug: only rank 0 takes part in the last collective, the gather of the logits.
EnterCollectiveNoGather(r) ==
  /\ Executes(r, {"run"})
  /\ Enter(r)
  /\ joined' = [joined EXCEPT ![r] = @ + 1]
  /\ IF r = 0
     THEN IF joined[0] + 1 < NumCollectives THEN UNCHANGED pc ELSE Goto(0, "sample")
     ELSE IF joined[r] + 2 < NumCollectives THEN UNCHANGED pc ELSE Return(r)
  /\ UNCHANGED <<calls, shmVars, event, signalled, readLength, current, executed, oom>>

EnterCollective(r) ==
  /\ Executes(r, {"run"})
  /\ Enter(r)
  /\ joined' = [joined EXCEPT ![r] = @ + 1]
  /\ IF joined[r] + 1 < NumCollectives THEN UNCHANGED pc
     ELSE IF r = 0 THEN Goto(0, "sample") ELSE Return(r)
  /\ UNCHANGED <<calls, shmVars, event, signalled, readLength, current, executed, oom>>

\* sampler(...).tolist()
FetchTokens ==
  /\ pc[0] = "sample"
  /\ AllJoined(0)
  /\ Return(0)
  /\ UNCHANGED <<calls, shmVars, event, signalled, rankVars, oom>>

\* EngineOOMError: the engine aborts the batch on rank 0 and goes on; a worker
\* leaves its loop by the exception.
OutOfMemory(r) ==
  /\ Executes(r, {"run"})
  /\ oom' = TRUE
  /\ Goto(r, IF r = 0 THEN "idle" ELSE "dead")
  /\ UNCHANGED <<calls, shmVars, event, signalled, rankVars>>

\* swap_out, swap_in: the copies, and a wait for this rank's own device.
Copy(r) ==
  /\ Executes(r, SwapMethods)
  /\ AllJoined(r)
  /\ Return(r)
  /\ UNCHANGED <<calls, shmVars, event, signalled, rankVars, oom>>

BeginExit(r) ==
  /\ Executes(r, {"exit"})
  /\ shmOpen' = shmOpen \ {r}
  /\ Enter(r)
  /\ Goto(r, "exitBarrier")
  /\ UNCHANGED <<calls, shmExists, shmLength, shmData, event, signalled, readLength, current,
                 executed, joined, oom>>

\* Bug: rank 0 unlinks and goes on without the barrier; so do the workers.
EndExitAtOnce(r) ==
  /\ pc[r] = "exitBarrier"
  /\ shmExists' = IF r = 0 THEN FALSE ELSE shmExists
  /\ Goto(r, IF r = 0 THEN "join" ELSE "stopped")
  /\ UNCHANGED <<calls, shmOpen, shmLength, shmData, event, signalled, rankVars, oom>>

EndExit(r) ==
  /\ pc[r] = "exitBarrier"
  /\ AllJoined(r)
  /\ shmExists' = IF r = 0 THEN FALSE ELSE shmExists
  /\ Goto(r, IF r = 0 THEN "join" ELSE "stopped")
  /\ UNCHANGED <<calls, shmOpen, shmLength, shmData, event, signalled, rankVars, oom>>

\* LLMEngine.exit waits for the worker processes.
Join ==
  /\ pc[0] = "join"
  /\ \A w \in Workers : pc[w] \in {"stopped", "dead"}
  /\ Goto(0, "stopped")
  /\ UNCHANGED <<calls, shmVars, event, signalled, rankVars, oom>>

----------------------------------------------------------------------------
Execute(r) == EnterCollective(r) \/ Copy(r) \/ BeginExit(r) \/ EndExit(r)

Rank0Step ==
  \/ Start(0) \/ LeaveInitBarrier(0)
  \/ WriteLength \/ BeginData \/ EndData \/ Signal
  \/ Execute(0) \/ FetchTokens \/ Join

WorkerStep(w) ==
  \/ Start(w) \/ LeaveInitBarrier(w)
  \/ ReadLength(w) \/ ReadData(w) \/ ClearEvent(w)
  \/ Execute(w)

Next ==
  \/ Rank0Step
  \/ \E w \in Workers : WorkerStep(w)
  \/ \E method \in Methods \cup {"exit"} : Call(method)
  \/ \E r \in Ranks : OutOfMemory(r)

\* Every rank is a process that keeps running.  Which calls the engine makes, and
\* whether a rank runs out of memory, is open.
Spec ==
  /\ Init /\ [][Next]_vars
  /\ WF_vars(Rank0Step)
  /\ \A w \in Workers : WF_vars(WorkerStep(w))

----------------------------------------------------------------------------
(***************************************************************************)
(* Properties.                                                             *)
(***************************************************************************)
TypeOK ==
  /\ calls \in Seq(Methods \cup {"exit"})
  /\ shmExists \in BOOLEAN /\ shmOpen \subseteq Ranks
  /\ shmLength \in 0 .. Len(calls) /\ shmData \in 0 .. Len(calls)
  /\ event \in [Workers -> BOOLEAN]
  /\ signalled \in 0 .. NumWorkers
  /\ pc \in [Ranks -> {"init", "initBarrier", "idle", "length", "data", "dataEnd", "signal",
                       "wait", "read", "clear", "execute", "sample", "exitBarrier", "join",
                       "stopped", "dead"}]
  /\ readLength \in [Workers -> 0 .. Len(calls)]
  /\ current \in [Ranks -> 0 .. Len(calls)]
  /\ executed \in [Ranks -> Seq(1 .. Len(calls))]
  /\ joined \in [Ranks -> 0 .. NumCollectives]
  /\ entered \in [Ranks -> Seq(Nat \X (1 .. NumCollectives))]
  /\ oom \in BOOLEAN

\* The engine has made no call without collectives and has not run out of memory.
\* Only then does the channel keep the ranks together.
Undisturbed == ~oom /\ \A i \in 1 .. Len(calls) : calls[i] \notin SwapMethods

\* Every rank executes the calls of rank 0, none lost, repeated or out of order
\* (docs/tutorial/11_tensor_parallelism.md:30).
SameCalls == \A r \in Ranks : \A i \in DOMAIN executed[r] : executed[r][i] = i

SameCallsUndisturbed == Undisturbed => SameCalls

\* Rank 0 never writes the buffer while a worker has yet to read the call before,
\* is reading it, or has yet to clear its event (model_runner.py:88-96).
WritesAlone ==
  Undisturbed /\ pc[0] \in {"length", "data", "dataEnd"} =>
    \A w \in Workers : ~event[w] /\ pc[w] \notin {"read", "clear", "dead"}

\* Ranks that join in a collective join in the same one of the same call.
CollectivesMatch ==
  Undisturbed =>
    \A r \in Ranks, other \in Ranks :
      \A i \in DOMAIN entered[r] \cap DOMAIN entered[other] :
        entered[r][i] = entered[other][i]

\* The segment is not unlinked while a rank has it mapped, and no worker looks for
\* it before it is there (model_runner.py:58-67).
ShmLifetime ==
  Undisturbed =>
    /\ ~shmExists => shmOpen = {}
    /\ \A w \in Workers :
         pc[w] \in {"wait", "read", "clear", "execute", "dead"} => w \in shmOpen

\* A forward pass ends on every rank, and exit stops every rank, as long as the
\* engine makes no call without collectives.
AllReturn ==
  []Undisturbed =>
    /\ pc[0] = "signal" ~> pc[0] \in {"idle", "stopped"}
    /\ \A w \in Workers : pc[w] = "read" ~> pc[w] \in {"wait", "stopped"}
============================================================================
