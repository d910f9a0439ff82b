------------------------- MODULE CourseTools_proofs -------------------------
(***************************************************************************)
(* Proofs about CourseTools: its type invariant, that a saved record is    *)
(* not lost, that only milestones whose tests have passed are recorded or  *)
(* reported complete, that a TODO is shown as complete only when its code  *)
(* is there, and that one that was cleaned stays complete without a        *)
(* record, however many tools run and are interrupted.                     *)
(***************************************************************************)
EXTENDS CourseTools, SequenceTheorems, FiniteSetTheorems, TLAPS

----------------------------------------------------------------------------
(***************************************************************************)
(* The inductive invariant.                                                *)
(***************************************************************************)

Fields == {"pc", "milestones", "left", "ids", "read", "pending", "status", "cleanup"}

\* A tool that goes through milestones is past the tests of the first of them when it
\* cleans or records it, and course_status has been through those that are not left.
Going(p) ==
  LET t == tool[p]
  IN  /\ DOMAIN t = Fields
      /\ t.pc \in {"test", "clean", "truncate", "write", "load", "save", "saving"}
      /\ t.milestones \in Seq(Numbers) /\ t.milestones # << >>
      /\ t.left \in Seq(Ids)
      /\ t.ids \subseteq Ids /\ (t.cleanup => t.ids \subseteq Todos)
      /\ t.status \in BOOLEAN /\ t.cleanup \in BOOLEAN /\ t.pending \in BOOLEAN
      /\ t.pc \in {"clean", "truncate", "write"} => t.cleanup
      /\ t.pc \in {"truncate", "write"} =>
           t.left # << >> /\ Head(t.left) \in Todos /\ FileOf[Head(t.left)] \in DOMAIN InitialSource
      /\ t.pc \in {"save", "saving"} =>
           /\ t.read \notin {NoFile, Cut} /\ IsProgress(t.read)
           /\ t.read.milestones_passed \subseteq tested
      /\ t.pc # "test" => Head(t.milestones) \in tested
      /\ t.status /\ ~t.pending => Numbers \subseteq tested \cup ToSet(t.milestones)

Reporting(p) ==
  /\ tool[p].pc = "report"
  /\ tool[p].pending \in BOOLEAN
  /\ ~tool[p].pending => Numbers \subseteq tested

ToolOK(p) == tool[p] = Idle \/ Reporting(p) \/ Going(p)

\* While the progress file is whole, one tool at most is saving it, and that tool has
\* read all that is recorded.
Recorded ==
  ProgressPath \notin damaged =>
    /\ progress # Cut => marked \subseteq LoadProgress(progress).milestones_passed
    /\ \A p \in Tools : At(p, "saving") =>
         /\ progress = Cut /\ marked \subseteq tool[p].read.milestones_passed
         /\ \A q \in Tools : At(q, "saving") => q = p

Kept ==
  /\ DOMAIN disk = DOMAIN InitialSource
  /\ progress \in {NoFile, Cut} \/ IsProgress(progress)
  /\ LoadProgress(progress).milestones_passed \subseteq tested
  /\ tested \subseteq Numbers /\ marked \subseteq Numbers /\ cleaned \subseteq Todos
  /\ told \in BOOLEAN /\ (told => tested = Numbers)
  /\ damaged \subseteq DOMAIN InitialSource \cup {ProgressPath}

ToolsOK == DOMAIN tool = Tools /\ \A p \in Tools : ToolOK(p)

CourseInv == Kept /\ Recorded /\ ToolsOK

----------------------------------------------------------------------------
(***************************************************************************)
(* Records of progress and lists of milestones and TODOs.                  *)
(***************************************************************************)

\* Milestones is a nonempty list of all the numbers, and a milestone lists ids.
LEMMA Lists ==
  /\ Milestones \in Seq(Numbers) /\ Milestones # << >> /\ ToSet(Milestones) = Numbers
  /\ \A m \in Numbers : TodoIds[m] \in Seq(Ids) /\ ToSet(TodoIds[m]) \subseteq Ids
<1>1. ASSUME NEW m \in Numbers
      PROVE  TodoIds[m] \in Seq(Ids) /\ ToSet(TodoIds[m]) \subseteq Ids
  <2>1. ToSet(TodoIds[m]) \subseteq Ids BY DEF Ids
  <2>2. TodoIds[m] \in Seq(ToSet(TodoIds[m])) BY CourseAssumption
  <2> QED BY <2>1, <2>2
<1> QED BY <1>1, CourseAssumption DEF Numbers

\* load_progress answers a record of progress, with the milestones that are recorded.
LEMMA Loaded ==
  ASSUME Kept
  PROVE  /\ LoadProgress(progress) \notin {NoFile, Cut}
         /\ IsProgress(LoadProgress(progress))
         /\ LoadProgress(progress).milestones_passed \subseteq tested
<1>1. NoProgress \notin {NoFile, Cut} BY CourseAssumption DEF NoProgress
<1>2. IsProgress(NoProgress) BY DEF NoProgress, IsProgress
<1> QED BY <1>1, <1>2 DEF Kept, LoadProgress

\* What mark_milestone_passed writes is a record that load_progress reads back.
LEMMA Marks ==
  ASSUME NEW data, IsProgress(data), NEW m \in Numbers, NEW ids \in SUBSET Ids
  PROVE  /\ IsProgress(Mark(data, m, ids))
         /\ LoadProgress(Mark(data, m, ids)) = Mark(data, m, ids)
         /\ Mark(data, m, ids).milestones_passed = data.milestones_passed \cup {m}
<1>1. Mark(data, m, ids) \notin {NoFile, Cut}
  BY CourseAssumption DEF Mark, IsProgress
<1>2. IsProgress(Mark(data, m, ids))
  BY DEF Mark, IsProgress, NoProgress
<1> QED BY <1>1, <1>2 DEF Mark, LoadProgress

\* The elements of a list of milestones are the first and those of the rest.
LEMMA FirstAndRest ==
  ASSUME NEW S, NEW s \in Seq(S), s # << >>
  PROVE  /\ Head(s) \in S /\ Tail(s) \in Seq(S)
         /\ ToSet(s) = {Head(s)} \cup ToSet(Tail(s))
         /\ Len(s) # 1 => Tail(s) # << >>
         /\ Len(s) = 1 => ToSet(s) \subseteq {Head(s)}
<1>1. Head(s) \in S /\ Tail(s) \in Seq(S) /\ Len(Tail(s)) = Len(s) - 1 /\ Len(s) \in Nat \ {0}
  OBVIOUS
<1>2. \A i \in 1 .. Len(Tail(s)) : Tail(s)[i] = s[i + 1] OBVIOUS
<1>d. DOMAIN s = 1 .. Len(s) /\ DOMAIN Tail(s) = 1 .. Len(Tail(s)) BY <1>1
<1>3. ToSet(s) = {Head(s)} \cup ToSet(Tail(s))
  <2>1. \A x \in ToSet(s) : x = Head(s) \/ x \in ToSet(Tail(s))
    <3> SUFFICES ASSUME NEW i \in 1 .. Len(s) PROVE s[i] = Head(s) \/ s[i] \in ToSet(Tail(s))
      BY <1>d DEF ToSet
    <3>1. CASE i = 1 BY <3>1
    <3>2. CASE i # 1
      <4>1. i - 1 \in 1 .. Len(Tail(s)) /\ Tail(s)[i - 1] = s[i] BY <3>2, <1>1, <1>2
      <4> QED BY <4>1, <1>d DEF ToSet
    <3> QED BY <3>1, <3>2
  <2>2. Head(s) \in ToSet(s) BY <1>1, <1>d DEF ToSet
  <2>3. \A i \in 1 .. Len(Tail(s)) : i + 1 \in 1 .. Len(s) BY <1>1
  <2>4. \A x \in ToSet(Tail(s)) : x \in ToSet(s) BY <2>3, <1>2, <1>d DEF ToSet
  <2>5. ToSet(s) \subseteq {Head(s)} \cup ToSet(Tail(s)) BY <2>1
  <2>6. {Head(s)} \cup ToSet(Tail(s)) \subseteq ToSet(s) BY <2>2, <2>4
  <2> QED BY <2>5, <2>6
<1>4. ASSUME Len(s) = 1 PROVE ToSet(s) \subseteq {Head(s)}
  <2>1. \A i \in DOMAIN s : s[i] = Head(s) BY <1>d, <1>4
  <2>2. \A x \in ToSet(s) : x = Head(s) BY <2>1 DEF ToSet
  <2> QED BY <2>2
<1>5. Tail(s) = << >> => Len(s) = 1
  <2>1. Len(<< >>) = 0 OBVIOUS
  <2>2. Tail(s) = << >> => Len(Tail(s)) = 0 BY <2>1, Zenon
  <2> QED BY <1>1, <2>2
<1> QED BY <1>1, <1>3, <1>4, <1>5

----------------------------------------------------------------------------
(***************************************************************************)
(* What a step leaves alone.                                               *)
(***************************************************************************)

\* A tool that does not move is as good as it was: no test is forgotten.
LEMMA Unmoved ==
  ASSUME NEW q, ToolOK(q), tool'[q] = tool[q], tested \subseteq tested'
  PROVE  ToolOK(q)'
BY DEF ToolOK, Reporting, Going

\* So only the tool that takes the step has to be looked at.
LEMMA OneMoves ==
  ASSUME ToolsOK, NEW p \in Tools, DOMAIN tool' = Tools, tested \subseteq tested',
         \A q \in Tools \ {p} : tool'[q] = tool[q],
         ToolOK(p)'
  PROVE  ToolsOK'
<1>1. \A q \in Tools \ {p} : ToolOK(q)' BY Unmoved DEF ToolsOK
<1> QED BY <1>1 DEF ToolsOK

\* While the progress file is left alone and nobody starts to save it, the record stays.
LEMMA RecordStays ==
  ASSUME Recorded, damaged \subseteq damaged', UNCHANGED <<progress, marked>>,
         \A q \in Tools : At(q, "saving")' => At(q, "saving") /\ tool'[q].read = tool[q].read
  PROVE  Recorded'
BY DEF Recorded, At, LoadProgress

\* A tool that moves keeps the others, and DOMAIN tool, as they were.
LEMMA Moved ==
  ASSUME ToolsOK, NEW p \in Tools, NEW new, tool' = [tool EXCEPT ![p] = new]
  PROVE  DOMAIN tool' = Tools /\ tool'[p] = new /\ \A q \in Tools \ {p} : tool'[q] = tool[q]
BY DEF ToolsOK

\* A tool at one of the steps between its tests and its report goes through milestones.
LEMMA AtStep ==
  ASSUME ToolsOK, NEW p \in Tools,
         tool[p].pc \in {"test", "clean", "truncate", "write", "load", "save", "saving"}
  PROVE  Going(p)
<1>1. tool[p] # Idle BY DEF Idle
<1>2. ~Reporting(p) BY DEF Reporting
<1> QED BY <1>1, <1>2 DEF ToolsOK, ToolOK

\* A tool that begins with a list of milestones that is all that is left.
LEMMA AtTestsIsGoing ==
  ASSUME NEW p, NEW ms \in Seq(Numbers), ms # << >>,
         NEW status \in BOOLEAN, NEW cleanup \in BOOLEAN, NEW pending \in BOOLEAN,
         tool'[p] = AtTests(ms, status, cleanup, pending),
         status /\ ~pending => Numbers \subseteq tested' \cup ToSet(ms)
  PROVE  Going(p)' /\ ~At(p, "saving")'
BY DEF Going, AtTests, At, Fields

----------------------------------------------------------------------------
(***************************************************************************)
(* Every step keeps the invariant.                                         *)
(***************************************************************************)

\* run_milestone and course_status --run-tests begin.
LEMMA StartingKeeps ==
  ASSUME CourseInv, NEW p \in Tools, NEW ms \in Seq(Numbers), ms # << >>,
         NEW status \in BOOLEAN, NEW cleanup \in BOOLEAN, status => ToSet(ms) = Numbers,
         Starting(p, ms, status, cleanup)
  PROVE  CourseInv'
<1> USE DEF CourseInv
<1> DEFINE new == AtTests(ms, status, cleanup, FALSE)
<1>1. tool' = [tool EXCEPT ![p] = new] BY DEF Starting
<1>2. UNCHANGED <<disk, progress, tested, marked, cleaned, told, damaged>>
  BY DEF Starting, files, history
<1> HIDE DEF new
<1>3. DOMAIN tool' = Tools /\ tool'[p] = new /\ \A q \in Tools \ {p} : tool'[q] = tool[q]
  BY <1>1, Moved
<1>4. Going(p)' /\ ~At(p, "saving")' BY <1>3, AtTestsIsGoing DEF new
<1>5. ToolsOK' BY <1>2, <1>3, <1>4, OneMoves DEF ToolOK
<1>6. Recorded' BY <1>2, <1>3, <1>4, RecordStays DEF At
<1>7. Kept' BY <1>2 DEF Kept, LoadProgress
<1> QED BY <1>5, <1>6, <1>7

\* course_status without --run-tests begins.
LEMMA StatusKeeps ==
  ASSUME CourseInv, NEW p \in Tools, Status(p)
  PROVE  CourseInv'
<1> USE DEF CourseInv
<1> DEFINE new == [pc |-> "report", pending |->
                     ToSet(Milestones) \ LoadProgress(progress).milestones_passed # {}]
<1>1. tool' = [tool EXCEPT ![p] = new] BY DEF Status
<1>2. UNCHANGED <<disk, progress, tested, marked, cleaned, told, damaged>>
  BY DEF Status, files, history
<1>a. new.pc = "report" /\ new.pending \in BOOLEAN
      /\ (~new.pending => Numbers \subseteq LoadProgress(progress).milestones_passed)
  BY DEF Numbers
<1> HIDE DEF new
<1>3. DOMAIN tool' = Tools /\ tool'[p] = new /\ \A q \in Tools \ {p} : tool'[q] = tool[q]
  BY <1>1, Moved
<1>4. Reporting(p)' /\ ~At(p, "saving")' BY <1>2, <1>3, <1>a, Loaded DEF Reporting, At
<1>5. ToolsOK' BY <1>2, <1>3, <1>4, OneMoves DEF ToolOK
<1>6. Recorded' BY <1>2, <1>3, <1>4, RecordStays DEF At
<1>7. Kept' BY <1>2 DEF Kept, LoadProgress
<1> QED BY <1>5, <1>6, <1>7

\* The next milestone, the report or the end: what the list still promises is tested.
LEMMA NextMilestoneIsOK ==
  ASSUME ToolsOK, NEW p \in Tools, Going(p), NEW failed \in BOOLEAN,
         ~failed => Milestone(p) \in tested, tested \subseteq tested',
         NextMilestone(p, failed)
  PROVE  /\ ToolOK(p)' /\ ~At(p, "saving")'
         /\ DOMAIN tool' = Tools /\ \A q \in Tools \ {p} : tool'[q] = tool[q]
<1> DEFINE t == tool[p]
           pending == t.pending \/ failed
<1>1. t.milestones \in Seq(Numbers) /\ t.milestones # << >> /\ t.cleanup \in BOOLEAN
      /\ t.status \in BOOLEAN /\ t.pending \in BOOLEAN
  BY DEF Going
<1>2. t.status /\ ~t.pending => Numbers \subseteq tested \cup ToSet(t.milestones)
  BY DEF Going
<1>3. Milestone(p) = Head(t.milestones) BY DEF Milestone
<1>4. CASE ~t.status
  <2>1. tool' = [tool EXCEPT ![p] = Idle] BY <1>4 DEF NextMilestone
  <2>2. DOMAIN tool' = Tools /\ tool'[p] = Idle /\ \A q \in Tools \ {p} : tool'[q] = tool[q]
    BY <2>1, Moved
  <2> QED BY <2>2 DEF ToolOK, At, Idle
<1>5. CASE t.status /\ Len(t.milestones) = 1
  <2>1. tool' = [tool EXCEPT ![p] = [pc |-> "report", pending |-> pending]]
    BY <1>5 DEF NextMilestone
  <2>2. /\ DOMAIN tool' = Tools /\ tool'[p] = [pc |-> "report", pending |-> pending]
        /\ \A q \in Tools \ {p} : tool'[q] = tool[q]
    BY <2>1, Moved
  <2>3. ToSet(t.milestones) \subseteq {Milestone(p)} BY <1>1, <1>3, <1>5, FirstAndRest
  <2>4. ~pending => Numbers \subseteq tested' BY <2>3, <1>1, <1>2, <1>5
  <2> QED BY <2>2, <2>4, <1>1 DEF ToolOK, Reporting, At
<1>6. CASE t.status /\ Len(t.milestones) # 1
  <2> DEFINE new == AtTests(Tail(t.milestones), TRUE, t.cleanup, pending)
  <2>1. tool' = [tool EXCEPT ![p] = new] BY <1>6 DEF NextMilestone
  <2>2. DOMAIN tool' = Tools /\ tool'[p] = new /\ \A q \in Tools \ {p} : tool'[q] = tool[q]
    BY <2>1, Moved
  <2>3. /\ Tail(t.milestones) \in Seq(Numbers) /\ Tail(t.milestones) # << >>
        /\ ToSet(t.milestones) = {Milestone(p)} \cup ToSet(Tail(t.milestones))
    BY <1>1, <1>3, <1>6, FirstAndRest
  <2>4. ~pending => Numbers \subseteq tested' \cup ToSet(Tail(t.milestones))
    BY <2>3, <1>1, <1>2, <1>6
  <2>5. pending \in BOOLEAN BY <1>1
  <2>6. Going(p)' /\ ~At(p, "saving")'
    BY <2>2, <2>3, <2>4, <2>5, <1>1, AtTestsIsGoing
  <2> QED BY <2>2, <2>6 DEF ToolOK
<1> QED BY <1>1, <1>4, <1>5, <1>6

\* The tests of a milestone pass, and it is cleaned or recorded; or they fail.
LEMMA TestsKeep ==
  ASSUME CourseInv, NEW p \in Tools, Tests(p)
  PROVE  CourseInv'
<1> USE DEF CourseInv
<1> DEFINE t == tool[p]
           m == Milestone(p)
<1>1. /\ t.pc = "test" /\ UNCHANGED <<disk, progress, marked, cleaned, told, damaged>>
      /\ \/ /\ tested' = tested \cup {m}
            /\ IF t.cleanup
               THEN tool' = [tool EXCEPT ![p].pc = "clean", ![p].left = TodoIds[m]]
               ELSE tool' = [tool EXCEPT ![p].pc = "load", ![p].ids = ToSet(TodoIds[m])]
         \/ NextMilestone(p, TRUE) /\ UNCHANGED tested
  BY DEF Tests, At, files
<1>2. Going(p) BY <1>1, AtStep
<1>3. t.milestones \in Seq(Numbers) /\ t.milestones # << >> /\ m = Head(t.milestones)
  BY <1>2 DEF Going, Milestone
<1>4. m \in Numbers /\ TodoIds[m] \in Seq(Ids) /\ ToSet(TodoIds[m]) \subseteq Ids
  BY <1>3, FirstAndRest, Lists
<1>5. tested \subseteq tested' /\ tested' \subseteq Numbers BY <1>1, <1>4 DEF Kept
<1>6. /\ ToolOK(p)' /\ ~At(p, "saving")'
      /\ DOMAIN tool' = Tools /\ \A q \in Tools \ {p} : tool'[q] = tool[q]
  <2>1. CASE tested' = tested \cup {m} /\ t.cleanup
             /\ tool' = [tool EXCEPT ![p].pc = "clean", ![p].left = TodoIds[m]]
    <3>1. /\ DOMAIN tool' = Tools /\ \A q \in Tools \ {p} : tool'[q] = tool[q]
          /\ tool'[p] = [t EXCEPT !.pc = "clean", !.left = TodoIds[m]]
      BY <2>1 DEF ToolsOK
    <3>2. Going(p)' BY <3>1, <2>1, <1>2, <1>3, <1>4, <1>5 DEF Going, Fields
    <3> QED BY <3>1, <3>2, <1>2 DEF ToolOK, At, Going, Fields
  <2>2. CASE tested' = tested \cup {m} /\ ~t.cleanup
             /\ tool' = [tool EXCEPT ![p].pc = "load", ![p].ids = ToSet(TodoIds[m])]
    <3>1. /\ DOMAIN tool' = Tools /\ \A q \in Tools \ {p} : tool'[q] = tool[q]
          /\ tool'[p] = [t EXCEPT !.pc = "load", !.ids = ToSet(TodoIds[m])]
      BY <2>2 DEF ToolsOK
    <3>2. Going(p)' BY <3>1, <2>2, <1>2, <1>3, <1>4, <1>5 DEF Going, Fields
    <3> QED BY <3>1, <3>2, <1>2 DEF ToolOK, At, Going, Fields
  <2>3. CASE NextMilestone(p, TRUE) BY <2>3, <1>2, <1>5, NextMilestoneIsOK
  <2> QED BY <1>1, <2>1, <2>2, <2>3
<1>7. ToolsOK' BY <1>5, <1>6, OneMoves
<1>8. Recorded' BY <1>1, <1>6, RecordStays DEF At
<1>9. Kept' BY <1>1, <1>5 DEF Kept, LoadProgress
<1> QED BY <1>7, <1>8, <1>9

\* The TODO at hand is done with: it is the next one's turn.
LEMMA TodoCleanedIsOK ==
  ASSUME ToolsOK, NEW p \in Tools, Going(p), tool[p].cleanup,
         tool[p].pc \in {"clean", "write"}, tool[p].left # << >>, Todo(p) \in Todos,
         tested \subseteq tested', TodoCleaned(p)
  PROVE  /\ ToolOK(p)' /\ ~At(p, "saving")'
         /\ DOMAIN tool' = Tools /\ \A q \in Tools \ {p} : tool'[q] = tool[q]
<1> DEFINE t == tool[p]
           rest == Tail(t.left)
<1>1. /\ DOMAIN tool' = Tools /\ \A q \in Tools \ {p} : tool'[q] = tool[q]
      /\ tool'[p] = [t EXCEPT !.pc = "clean", !.left = rest, !.read = NoFile,
                              !.ids = @ \cup {Todo(p)}]
  BY DEF ToolsOK, TodoCleaned
<1>2. Todo(p) \in Ids /\ rest \in Seq(Ids)
  <2>1. t.left \in Seq(Ids) /\ t.left # << >> BY DEF Going
  <2> QED BY <2>1, FirstAndRest DEF Todo
<1> HIDE DEF rest
<1>3. Going(p)'
  <2> DEFINE u == tool'[p]
  <2>1. /\ DOMAIN u = Fields /\ u.pc = "clean" /\ u.left = rest
        /\ u.ids = t.ids \cup {Todo(p)} /\ u.milestones = t.milestones
        /\ u.status = t.status /\ u.cleanup = t.cleanup /\ u.pending = t.pending
    <3>1. DOMAIN t = Fields BY DEF Going
    <3> HIDE DEF t
    <3> QED BY <3>1, <1>1 DEF Fields
  <2>2. /\ u.ids \subseteq Ids /\ u.ids \subseteq Todos
        /\ Head(u.milestones) \in tested'
        /\ u.status /\ ~u.pending => Numbers \subseteq tested' \cup ToSet(u.milestones)
    BY <2>1, <1>2 DEF Going
  <2> QED BY <2>1, <2>2, <1>2 DEF Going
<1> QED BY <1>1, <1>3 DEF ToolOK, At, Going, Fields

\* An id without a TODO, or a TODO whose file is missing, is passed over.
LEMMA SkipTodoKeeps ==
  ASSUME CourseInv, NEW p \in Tools, SkipTodo(p)
  PROVE  CourseInv'
<1> USE DEF CourseInv
<1> DEFINE t == tool[p]
           rest == Tail(t.left)
<1>1. /\ t.pc = "clean" /\ t.left # << >>
      /\ UNCHANGED <<disk, progress, tested, marked, cleaned, told, damaged>>
      /\ \/ tool' = [tool EXCEPT ![p].left = Tail(@)]
         \/ Todo(p) \in Todos /\ TodoCleaned(p)
  BY DEF SkipTodo, At, files, history
<1>2. Going(p) /\ t.cleanup BY <1>1, AtStep DEF Going
<1>3. /\ ToolOK(p)' /\ ~At(p, "saving")'
      /\ DOMAIN tool' = Tools /\ \A q \in Tools \ {p} : tool'[q] = tool[q]
  <2>1. CASE tool' = [tool EXCEPT ![p].left = Tail(@)]
    <3>1. /\ DOMAIN tool' = Tools /\ \A q \in Tools \ {p} : tool'[q] = tool[q]
          /\ tool'[p] = [t EXCEPT !.left = rest]
      BY <2>1 DEF ToolsOK
    <3>a. t.left \in Seq(Ids) /\ t.left # << >> BY <1>1, <1>2 DEF Going
    <3>2. rest \in Seq(Ids) BY <3>a, FirstAndRest
    <3> HIDE DEF rest
    <3>3. Going(p)'
      <4> DEFINE u == tool'[p]
      <4>1. /\ DOMAIN u = Fields /\ u.pc = "clean" /\ u.left = rest
            /\ u.ids = t.ids /\ u.milestones = t.milestones
            /\ u.status = t.status /\ u.cleanup = t.cleanup /\ u.pending = t.pending
        <5>1. DOMAIN t = Fields BY <1>2 DEF Going
        <5> HIDE DEF t
        <5> QED BY <5>1, <3>1, <1>1 DEF Fields
      <4> QED BY <4>1, <3>2, <1>1, <1>2 DEF Going
    <3> QED BY <3>1, <3>3, <1>1, <1>2 DEF ToolOK, At, Going, Fields
  <2>2. CASE Todo(p) \in Todos /\ TodoCleaned(p)
    BY <2>2, <1>1, <1>2, TodoCleanedIsOK
  <2> QED BY <1>1, <2>1, <2>2
<1>4. ToolsOK' BY <1>1, <1>3, OneMoves
<1>5. Recorded' BY <1>1, <1>3, RecordStays DEF At
<1>6. Kept' BY <1>1 DEF Kept, LoadProgress
<1> QED BY <1>4, <1>5, <1>6

\* The source of the TODO is read, and has to be written again or not.
LEMMA ReadSourceKeeps ==
  ASSUME CourseInv, NEW p \in Tools, ReadSource(p)
  PROVE  CourseInv'
<1> USE DEF CourseInv
<1> DEFINE t == tool[p]
           text == disk[CleanFile(p)]
<1>1. /\ t.pc = "clean" /\ t.left # << >> /\ Todo(p) \in Todos /\ CleanFile(p) \in DOMAIN disk
      /\ UNCHANGED <<disk, progress, tested, marked, told>>
      /\ damaged' \in {damaged, damaged \cup {CleanFile(p)}}
      /\ \/ TodoCleaned(p) /\ cleaned' = cleaned \cup {Todo(p)}
         \/ tool' = [tool EXCEPT ![p].pc = "truncate", ![p].read = text] /\ cleaned' = cleaned
  BY DEF ReadSource, At, files
<1> HIDE DEF text
<1>2. Going(p) /\ t.cleanup BY <1>1, AtStep DEF Going
<1>3. /\ ToolOK(p)' /\ ~At(p, "saving")'
      /\ DOMAIN tool' = Tools /\ \A q \in Tools \ {p} : tool'[q] = tool[q]
  <2>1. CASE TodoCleaned(p) BY <2>1, <1>1, <1>2, TodoCleanedIsOK
  <2>2. CASE tool' = [tool EXCEPT ![p].pc = "truncate", ![p].read = text]
    <3>1. /\ DOMAIN tool' = Tools /\ \A q \in Tools \ {p} : tool'[q] = tool[q]
          /\ tool'[p] = [t EXCEPT !.pc = "truncate", !.read = text]
      BY <2>2 DEF ToolsOK
    <3>2. Head(t.left) \in Todos /\ FileOf[Head(t.left)] \in DOMAIN InitialSource
      BY <1>1 DEF Kept, Todo, CleanFile
    <3>3. Going(p)' BY <3>1, <3>2, <1>1, <1>2 DEF Going, Fields
    <3> QED BY <3>1, <3>3, <1>1, <1>2 DEF ToolOK, At, Going, Fields
  <2> QED BY <1>1, <2>1, <2>2
<1>4. ToolsOK' BY <1>1, <1>3, OneMoves
<1>5. Recorded' BY <1>1, <1>3, RecordStays DEF At
<1>6. Kept' BY <1>1 DEF Kept, LoadProgress
<1> QED BY <1>4, <1>5, <1>6

\* write_text: the source is truncated.
LEMMA TruncateSourceKeeps ==
  ASSUME CourseInv, NEW p \in Tools, TruncateSource(p)
  PROVE  CourseInv'
<1> USE DEF CourseInv
<1> DEFINE t == tool[p]
<1>1. /\ t.pc = "truncate" /\ tool' = [tool EXCEPT ![p].pc = "write"]
      /\ UNCHANGED <<progress, tested, marked, cleaned, told>>
      /\ damaged' \in {damaged, damaged \cup {CleanFile(p)}}
      /\ disk' = [disk EXCEPT ![CleanFile(p)] = << >>]
  BY DEF TruncateSource, At, GoTo
<1>2. Going(p) BY <1>1, AtStep
<1>3. CleanFile(p) \in DOMAIN InitialSource BY <1>1, <1>2 DEF Going, CleanFile, Todo
<1>4. /\ DOMAIN tool' = Tools /\ \A q \in Tools \ {p} : tool'[q] = tool[q]
      /\ tool'[p] = [t EXCEPT !.pc = "write"]
  BY <1>1 DEF ToolsOK
<1>5. Going(p)' /\ ~At(p, "saving")' BY <1>1, <1>2, <1>4 DEF Going, Fields, At
<1>6. ToolsOK' BY <1>1, <1>4, <1>5, OneMoves DEF ToolOK
<1>7. Recorded' BY <1>1, <1>4, <1>5, RecordStays DEF At
<1>8. Kept' BY <1>1, <1>3 DEF Kept, LoadProgress
<1> QED BY <1>6, <1>7, <1>8

\* write_text: the source is written.
LEMMA WriteSourceKeeps ==
  ASSUME CourseInv, NEW p \in Tools, WriteSource(p)
  PROVE  CourseInv'
<1> USE DEF CourseInv
<1> DEFINE t == tool[p]
           text == Cleaned(t.read, Todo(p))
<1>1. /\ t.pc = "write" /\ TodoCleaned(p)
      /\ UNCHANGED <<progress, tested, marked, told, damaged>>
      /\ cleaned' = cleaned \cup {Todo(p)}
      /\ disk' = [disk EXCEPT ![CleanFile(p)] = text]
  BY DEF WriteSource, At
<1> HIDE DEF text
<1>2. Going(p) BY <1>1, AtStep
<1>3. t.cleanup /\ t.left # << >> /\ Todo(p) \in Todos BY <1>1, <1>2 DEF Going, Todo
<1>4. /\ ToolOK(p)' /\ ~At(p, "saving")'
      /\ DOMAIN tool' = Tools /\ \A q \in Tools \ {p} : tool'[q] = tool[q]
  BY <1>1, <1>2, <1>3, TodoCleanedIsOK
<1>5. ToolsOK' BY <1>1, <1>4, OneMoves
<1>6. Recorded' BY <1>1, <1>4, RecordStays DEF At
<1>7. Kept' BY <1>1, <1>3 DEF Kept, LoadProgress
<1> QED BY <1>5, <1>6, <1>7

\* Nothing is left to clean.
LEMMA CleanupDoneKeeps ==
  ASSUME CourseInv, NEW p \in Tools, CleanupDone(p)
  PROVE  CourseInv'
<1> USE DEF CourseInv
<1> DEFINE t == tool[p]
<1>1. /\ t.pc = "clean" /\ tool' = [tool EXCEPT ![p].pc = "load"]
      /\ UNCHANGED <<disk, progress, tested, marked, cleaned, told, damaged>>
  BY DEF CleanupDone, At, GoTo, files, history
<1>2. Going(p) BY <1>1, AtStep
<1>3. /\ DOMAIN tool' = Tools /\ \A q \in Tools \ {p} : tool'[q] = tool[q]
      /\ tool'[p] = [t EXCEPT !.pc = "load"]
  BY <1>1 DEF ToolsOK
<1>4. Going(p)' /\ ~At(p, "saving")' BY <1>1, <1>2, <1>3 DEF Going, Fields, At
<1>5. ToolsOK' BY <1>1, <1>3, <1>4, OneMoves DEF ToolOK
<1>6. Recorded' BY <1>1, <1>3, <1>4, RecordStays DEF At
<1>7. Kept' BY <1>1 DEF Kept, LoadProgress
<1> QED BY <1>5, <1>6, <1>7

\* mark_milestone_passed loads the record.
LEMMA LoadKeeps ==
  ASSUME CourseInv, NEW p \in Tools, Load(p)
  PROVE  CourseInv'
<1> USE DEF CourseInv
<1> DEFINE t == tool[p]
           data == LoadProgress(progress)
<1>1. /\ t.pc = "load" /\ tool' = [tool EXCEPT ![p].pc = "save", ![p].read = data]
      /\ UNCHANGED <<disk, progress, tested, marked, cleaned, told>>
      /\ damaged' \in {damaged, damaged \cup {ProgressPath}}
  BY DEF Load, At, files
<1>2. data \notin {NoFile, Cut} /\ IsProgress(data) /\ data.milestones_passed \subseteq tested
  BY Loaded
<1> HIDE DEF data
<1>3. Going(p) BY <1>1, AtStep
<1>4. /\ DOMAIN tool' = Tools /\ \A q \in Tools \ {p} : tool'[q] = tool[q]
      /\ tool'[p] = [t EXCEPT !.pc = "save", !.read = data]
  BY <1>1 DEF ToolsOK
<1>5. Going(p)' /\ ~At(p, "saving")' BY <1>1, <1>2, <1>3, <1>4 DEF Going, Fields, At
<1>6. ToolsOK' BY <1>1, <1>4, <1>5, OneMoves DEF ToolOK
<1>7. Recorded' BY <1>1, <1>4, <1>5, RecordStays DEF At
<1>8. Kept' BY <1>1 DEF Kept, LoadProgress
<1> QED BY <1>6, <1>7, <1>8

\* The progress file is truncated: if the tool has read all that is recorded and nobody
\* else is saving, nothing is lost; if not, the file is damaged.
LEMMA TruncateProgressKeeps ==
  ASSUME CourseInv, NEW p \in Tools, TruncateProgress(p)
  PROVE  CourseInv'
<1> USE DEF CourseInv
<1> DEFINE t == tool[p]
<1>1. /\ t.pc = "save" /\ tool' = [tool EXCEPT ![p].pc = "saving"]
      /\ UNCHANGED <<disk, tested, marked, cleaned, told>>
      /\ damaged' = IF LoadProgress(progress) # t.read \/ progress = Cut
                    THEN damaged \cup {ProgressPath} ELSE damaged
      /\ progress' = Cut
  BY DEF TruncateProgress, At, GoTo
<1>2. Going(p) BY <1>1, AtStep
<1>3. /\ DOMAIN tool' = Tools /\ \A q \in Tools \ {p} : tool'[q] = tool[q]
      /\ tool'[p] = [t EXCEPT !.pc = "saving"]
  BY <1>1 DEF ToolsOK
<1>4. Going(p)' BY <1>1, <1>2, <1>3 DEF Going, Fields
<1>5. ToolsOK' BY <1>1, <1>3, <1>4, OneMoves DEF ToolOK
<1>6. Recorded'
  <2>1. SUFFICES ASSUME ProgressPath \notin damaged'
                 PROVE  \A q \in Tools : At(q, "saving")' =>
                          /\ marked' \subseteq tool'[q].read.milestones_passed
                          /\ \A o \in Tools : At(o, "saving")' => o = q
    BY <1>1 DEF Recorded, At
  <2>2. ProgressPath \notin damaged /\ LoadProgress(progress) = t.read /\ progress # Cut
    BY <1>1, <2>1
  <2>3. \A q \in Tools : ~At(q, "saving") BY <2>2 DEF Recorded
  <2>4. \A q \in Tools : At(q, "saving")' => q = p BY <2>3, <1>3 DEF At
  <2>5. tool'[p].read = t.read BY <1>2, <1>3 DEF Going, Fields
  <2>6. marked \subseteq t.read.milestones_passed BY <2>2 DEF Recorded
  <2> QED BY <2>4, <2>5, <2>6, <1>1
<1>7. Kept'
  <2>1. LoadProgress(Cut).milestones_passed = {} BY DEF LoadProgress, NoProgress
  <2> QED BY <1>1, <2>1 DEF Kept
<1> QED BY <1>5, <1>6, <1>7

\* The record is written: what was read of it, and the milestone.
LEMMA WriteProgressKeeps ==
  ASSUME CourseInv, NEW p \in Tools, WriteProgress(p)
  PROVE  CourseInv'
<1> USE DEF CourseInv
<1> DEFINE t == tool[p]
           m == Milestone(p)
           data == Mark(t.read, m, t.ids)
<1>1. /\ t.pc = "saving" /\ progress' = data /\ marked' = marked \cup {m}
      /\ NextMilestone(p, FALSE)
      /\ UNCHANGED <<disk, tested, cleaned, told, damaged>>
  BY DEF WriteProgress, At
<1>2. Going(p) BY <1>1, AtStep
<1>3. t.milestones \in Seq(Numbers) /\ t.milestones # << >> BY <1>2 DEF Going
<1>4. m \in Numbers /\ m \in tested
  BY <1>1, <1>2, <1>3, FirstAndRest DEF Going, Milestone
<1>5. IsProgress(t.read) /\ t.read.milestones_passed \subseteq tested /\ t.ids \in SUBSET Ids
  BY <1>1, <1>2 DEF Going
<1>6. IsProgress(data) /\ LoadProgress(data) = data
      /\ data.milestones_passed = t.read.milestones_passed \cup {m}
  BY <1>4, <1>5, Marks
<1> HIDE DEF data
<1>7. /\ ToolOK(p)' /\ ~At(p, "saving")'
      /\ DOMAIN tool' = Tools /\ \A q \in Tools \ {p} : tool'[q] = tool[q]
  BY <1>1, <1>2, <1>4, NextMilestoneIsOK
<1>8. ToolsOK' BY <1>1, <1>7, OneMoves
<1>9. Recorded'
  <2>1. SUFFICES ASSUME ProgressPath \notin damaged
                 PROVE  /\ marked' \subseteq data.milestones_passed
                        /\ \A q \in Tools : ~At(q, "saving")'
    BY <1>1, <1>6 DEF Recorded
  <2>2. At(p, "saving") BY <1>1 DEF At
  <2>3. marked \subseteq t.read.milestones_passed /\ \A q \in Tools : At(q, "saving") => q = p
    BY <2>1, <2>2 DEF Recorded
  <2>4. \A q \in Tools \ {p} : ~At(q, "saving")' BY <2>3, <1>7 DEF At
  <2> QED BY <2>3, <2>4, <1>1, <1>6, <1>7
<1>10. Kept' BY <1>1, <1>4, <1>5, <1>6 DEF Kept
<1> QED BY <1>8, <1>9, <1>10

\* course_status says what it has found.
LEMMA ReportKeeps ==
  ASSUME CourseInv, NEW p \in Tools, Report(p)
  PROVE  CourseInv'
<1> USE DEF CourseInv
<1>1. /\ tool[p].pc = "report" /\ tool' = [tool EXCEPT ![p] = Idle]
      /\ UNCHANGED <<disk, progress, tested, marked, cleaned, damaged>>
      /\ told' \in BOOLEAN /\ (told' => told \/ ~tool[p].pending)
  BY DEF Report, At, files, Kept
<1>2. ~tool[p].pending => Numbers \subseteq tested
  <2>1. tool[p] # Idle BY <1>1 DEF Idle
  <2>2. ~Going(p) BY <1>1 DEF Going
  <2> QED BY <2>1, <2>2 DEF ToolsOK, ToolOK, Reporting
<1>3. DOMAIN tool' = Tools /\ tool'[p] = Idle /\ \A q \in Tools \ {p} : tool'[q] = tool[q]
  BY <1>1, Moved
<1>4. ~At(p, "saving")' BY <1>3 DEF At, Idle
<1>5. ToolsOK' BY <1>1, <1>3, OneMoves DEF ToolOK
<1>6. Recorded' BY <1>1, <1>3, <1>4, RecordStays DEF At
<1>7. Kept' BY <1>1, <1>2 DEF Kept, LoadProgress
<1> QED BY <1>5, <1>6, <1>7

\* A tool is interrupted: the file it was writing is damaged.
LEMMA InterruptKeeps ==
  ASSUME CourseInv, NEW p \in Tools, Interrupt(p)
  PROVE  CourseInv'
<1> USE DEF CourseInv
<1>1. /\ tool' = [tool EXCEPT ![p] = Idle]
      /\ UNCHANGED <<disk, progress, tested, marked, cleaned, told>>
      /\ damaged' = damaged \cup (IF At(p, "write") THEN {CleanFile(p)}
                                  ELSE IF At(p, "saving") THEN {ProgressPath} ELSE {})
  BY DEF Interrupt, files
<1>2. At(p, "write") => CleanFile(p) \in DOMAIN InitialSource
  BY AtStep DEF At, Going, CleanFile, Todo
<1>3. DOMAIN tool' = Tools /\ tool'[p] = Idle /\ \A q \in Tools \ {p} : tool'[q] = tool[q]
  BY <1>1, Moved
<1>4. ~At(p, "saving")' BY <1>3 DEF At, Idle
<1>5. ToolsOK' BY <1>1, <1>3, OneMoves DEF ToolOK
<1>6. Recorded' BY <1>1, <1>3, <1>4, RecordStays DEF At
<1>7. Kept' BY <1>1, <1>2 DEF Kept, LoadProgress
<1> QED BY <1>5, <1>6, <1>7

\* The student implements a TODO.
LEMMA ImplementKeeps ==
  ASSUME CourseInv, NEW t \in Todos, NEW tidy \in BOOLEAN, Implement(t, tidy)
  PROVE  CourseInv'
<1> USE DEF CourseInv
<1>1. UNCHANGED <<progress, tool, tested, marked, cleaned, told, damaged>>
  BY DEF Implement, history
<1>2. DOMAIN disk' = DOMAIN disk
  <2>1. PICK text : disk' = [disk EXCEPT ![FileOf[t]] = text] BY DEF Implement
  <2> QED BY <2>1
<1>3. ToolsOK' BY <1>1, Unmoved DEF ToolsOK
<1>4. Recorded' BY <1>1, RecordStays DEF At
<1>5. Kept' BY <1>1, <1>2 DEF Kept, LoadProgress
<1> QED BY <1>3, <1>4, <1>5

----------------------------------------------------------------------------
(***************************************************************************)
(* The theorems.                                                           *)
(***************************************************************************)

\* The invariant holds in the initial states.
LEMMA InitCourseInv == Init => CourseInv
<1> SUFFICES ASSUME Init PROVE CourseInv OBVIOUS
<1>1. \A p \in Tools : tool[p] = Idle /\ ~At(p, "saving") BY DEF Init, Idle, At
<1>2. LoadProgress(NoFile).milestones_passed = {} BY DEF LoadProgress, NoProgress
<1>3. Kept BY <1>2 DEF Kept, Init
<1>4. Recorded BY <1>1, <1>2 DEF Recorded, Init
<1>5. ToolsOK BY <1>1 DEF ToolsOK, ToolOK, Init
<1> QED BY <1>3, <1>4, <1>5 DEF CourseInv

\* Every step keeps it: one lemma for every action.
LEMMA NextKeepsCourseInv == CourseInv /\ [Next]_vars => CourseInv'
<1> SUFFICES ASSUME CourseInv, [Next]_vars PROVE CourseInv' OBVIOUS
<1>1. ASSUME NEW p \in Tools, ToolStep(p) PROVE CourseInv'
  <2>1. ASSUME NEW cleanup \in BOOLEAN, NEW m \in ToSet(Milestones), RunMilestone(p, m, cleanup)
        PROVE  CourseInv'
    <3>1. <<m>> \in Seq(Numbers) /\ <<m>> # << >> BY DEF Numbers
    <3> QED BY <2>1, <3>1, StartingKeeps DEF RunMilestone
  <2>2. ASSUME NEW cleanup \in BOOLEAN, StatusWithTests(p, cleanup) PROVE CourseInv'
    BY <2>2, Lists, StartingKeeps DEF StatusWithTests
  <2> QED BY <1>1, <2>1, <2>2, StatusKeeps, TestsKeep, SkipTodoKeeps, ReadSourceKeeps,
             TruncateSourceKeeps, WriteSourceKeeps, CleanupDoneKeeps, LoadKeeps,
             TruncateProgressKeeps, WriteProgressKeeps, ReportKeeps, InterruptKeeps
          DEF ToolStep
<1>2. CASE \E t \in Todos, tidy \in BOOLEAN : Implement(t, tidy) BY <1>2, ImplementKeeps
<1>3. CASE UNCHANGED vars
  <2>1. UNCHANGED <<disk, progress, tool, tested, marked, cleaned, told, damaged>>
    BY <1>3 DEF vars, files, history
  <2>2. ToolsOK' BY <2>1, Unmoved DEF ToolsOK, CourseInv
  <2>3. Recorded' BY <2>1, RecordStays DEF At, CourseInv
  <2>4. Kept' BY <2>1 DEF Kept, LoadProgress, CourseInv
  <2> QED BY <2>2, <2>3, <2>4 DEF CourseInv
<1> QED BY <1>1, <1>2, <1>3 DEF Next

\* In every reachable state, a tool past the tests of a milestone has seen them pass, the
\* record holds only such milestones, and while the progress file was never truncated over
\* another tool's record, the tool that is saving it has all of it in its hands.
THEOREM CourseInvariance == Spec => []CourseInv
<1>1. Init => CourseInv BY InitCourseInv
<1>2. CourseInv /\ [Next]_vars => CourseInv' BY NextKeepsCourseInv
<1> QED BY <1>1, <1>2, PTL DEF Spec

\* Type correctness of the course tools, whatever they leave half written.
THEOREM CourseToolsTypeCorrect == Spec => []TypeOK
<1>1. CourseInv => TypeOK
  <2> SUFFICES ASSUME CourseInv PROVE TypeOK OBVIOUS
  <2>1. ASSUME NEW p \in Tools
        PROVE  /\ tool[p] = Idle \/ tool[p].pc \in {"test", "clean", "truncate", "write", "load",
                                                   "save", "saving", "report"}
               /\ At(p, "save") \/ At(p, "saving") =>
                    /\ tool[p].read \notin {NoFile, Cut} /\ IsProgress(tool[p].read)
                    /\ tool[p].ids \subseteq IF tool[p].cleanup THEN Todos ELSE Ids
    <3>1. ToolOK(p) BY DEF CourseInv, ToolsOK
    <3>2. CASE tool[p] = Idle BY <3>2 DEF Idle, At
    <3>3. CASE Reporting(p) BY <3>3 DEF Reporting, At
    <3>4. CASE Going(p) BY <3>4 DEF Going, At
    <3> QED BY <3>1, <3>2, <3>3, <3>4 DEF ToolOK
  <2> QED BY <2>1 DEF TypeOK, CourseInv, Kept
<1> QED BY <1>1, CourseInvariance, PTL

\* A milestone that was recorded stays recorded, whatever the tools do to it at once,
\* unless one of them truncated the file over a record it had not read, or was
\* interrupted while it saved.
THEOREM RecordIsKept == Spec => []RecordKept
<1>1. CourseInv => RecordKept BY DEF CourseInv, Recorded, RecordKept
<1> QED BY <1>1, CourseInvariance, PTL

\* A milestone is recorded, and everything said to be complete, only after its tests
\* have passed, also when the record is lost, overwritten or half written.
THEOREM CompleteIsTested == Spec => []CompleteWasTested
<1>1. CourseInv => CompleteWasTested BY DEF CourseInv, Kept, CompleteWasTested
<1> QED BY <1>1, CourseInvariance, PTL
----------------------------------------------------------------------------
(***************************************************************************)
(* The sources: the invariant, on top of CourseInv.                        *)
(***************************************************************************)
Code(t) == Line("code", t)
Argument(t) == Line("argument", t)

\* What a text of f that nobody damaged has: nothing that names a TODO that was cleaned,
\* the code of what tests have seen, and a raise for what has no code yet.
Sound(f, text) ==
  /\ text \in Seq(Lines) /\ Scaffolded(text)
  /\ \A t \in Todos : FileOf[t] = f =>
       /\ t \in cleaned => ~TodoMarkerPresent(text, t)
       /\ \A m \in tested : t \in Exercised[m] => Contains(text, Code(t))
       /\ t \in Exercised[MilestoneOf[t]] =>
            Contains(text, Argument(t)) \/ Contains(text, Code(t))

Writing(p, f) == At(p, "write") /\ CleanFile(p) = f

\* While a tool writes f, the text is what it has read, and no other tool writes it.
FileSound(f) ==
  \/ Sound(f, disk[f]) /\ \A p \in Tools : ~Writing(p, f)
  \/ \E p \in Tools :
       /\ Writing(p, f) /\ disk[f] = << >> /\ Sound(f, tool[p].read)
       /\ \A q \in Tools : Writing(q, f) => q = p

TestedTodo(t) == t \in Todos => MilestoneOf[t] \in tested

\* A tool cleans and reports the TODOs of milestones whose tests have passed, and writes
\* only a source in which it has found something.
HandsSound(p) ==
  LET t == tool[p]
  IN  t.pc \notin {"idle", "report"} =>
        /\ \A u \in ToSet(t.left) \cup t.ids : TestedTodo(u)
        /\ t.pc \in {"save", "saving"} => \A u \in t.read.cleaned_todos : TestedTodo(u)
        /\ t.pc = "truncate" => t.read # << >>

SourcesSound == \A f \in DOMAIN InitialSource \ damaged : FileSound(f)

ReportsTested ==
  /\ \A t \in LoadProgress(progress).cleaned_todos : TestedTodo(t)
  /\ \A p \in Tools : HandsSound(p)

\* Only a TODO that has a file is cleaned, or has been seen to work.
HaveFiles ==
  /\ \A t \in cleaned : FileOf[t] \in DOMAIN InitialSource
  /\ \A m \in tested : \A t \in Exercised[m] : FileOf[t] \in DOMAIN InitialSource

CleanInv == CourseInv /\ HaveFiles /\ ReportsTested /\ SourcesSound

----------------------------------------------------------------------------
(***************************************************************************)
(* What is left of a text when lines are removed.                          *)
(***************************************************************************)

\* The numbers of a set that is bounded have ranks: the first has none below it.
LEMMA Ranks ==
  ASSUME NEW n \in Nat, NEW K \in SUBSET (1 .. n)
  PROVE  LET Rank(i) == Cardinality({j \in K : j < i})
         IN  /\ Cardinality(K) \in Nat
             /\ \A i \in K : Rank(i) \in 0 .. Cardinality(K) - 1
             /\ \A i, l \in K : i < l => Rank(i) < Rank(l)
             /\ \A k \in 1 .. Cardinality(K) : \E i \in K : Rank(i) = k - 1
<1> DEFINE Below(i) == {j \in K : j < i}
           Rank(i) == Cardinality(Below(i))
           c == Cardinality(K)
<1>1. IsFiniteSet(K)
  <2>1. IsFiniteSet(1 .. n) BY FS_Interval
  <2> QED BY <2>1, FS_Subset
<1>2. c \in Nat BY <1>1, FS_CardinalityType
<1>3. \A i : IsFiniteSet(Below(i)) /\ Rank(i) \in Nat
  <2> SUFFICES ASSUME NEW i PROVE IsFiniteSet(Below(i)) /\ Rank(i) \in Nat
    OBVIOUS
  <2>1. Below(i) \in SUBSET K OBVIOUS
  <2> HIDE DEF Below
  <2> QED BY <2>1, <1>1, FS_Subset, FS_CardinalityType
<1>4. ASSUME NEW i \in K, NEW T \in SUBSET K, Below(i) \cup {i} \subseteq T
      PROVE  Rank(i) < Cardinality(T) /\ Cardinality(T) \in Nat
  <2>1. i \notin Below(i) OBVIOUS
  <2> HIDE DEF Below
  <2>2. IsFiniteSet(T) BY <1>1, FS_Subset
  <2>3. Cardinality(Below(i) \cup {i}) = Rank(i) + 1 BY <1>3, <2>1, FS_AddElement
  <2>4. Cardinality(Below(i) \cup {i}) <= Cardinality(T) BY <1>4, <2>2, FS_Subset
  <2>5. Cardinality(T) \in Nat BY <2>2, FS_CardinalityType
  <2> QED BY <2>3, <2>4, <2>5, <1>3
<1>5. \A i \in K : Rank(i) \in 0 .. c - 1
  <2> SUFFICES ASSUME NEW i \in K PROVE Rank(i) \in 0 .. c - 1
    OBVIOUS
  <2>1. Below(i) \cup {i} \subseteq K OBVIOUS
  <2> HIDE DEF Below
  <2> QED BY <2>1, <1>2, <1>3, <1>4
<1>6. \A i, l \in K : i < l => Rank(i) < Rank(l)
  <2> SUFFICES ASSUME NEW i \in K, NEW l \in K, i < l PROVE Rank(i) < Rank(l)
    OBVIOUS
  <2>1. Below(i) \cup {i} \subseteq Below(l)
    <3>1. \A j \in Below(i) : j < l OBVIOUS
    <3> QED BY <3>1
  <2>2. Below(l) \in SUBSET K OBVIOUS
  <2> HIDE DEF Below
  <2> QED BY <2>1, <2>2, <1>4
<1>7. \A k \in 1 .. c : \E i \in K : Rank(i) = k - 1
  <2> DEFINE f == [i \in K |-> Rank(i)]
             R == 0 .. c - 1
  <2>1. f \in [K -> R] BY <1>5
  <2>2. \A i, l \in K : f[i] = f[l] => i = l
    <3> SUFFICES ASSUME NEW i \in K, NEW l \in K, Rank(i) = Rank(l) PROVE i = l
      OBVIOUS
    <3>1. i \in Nat /\ l \in Nat OBVIOUS
    <3> HIDE DEF Rank
    <3>2. Rank(i) \in Nat /\ Rank(l) \in Nat BY <1>5
    <3> QED BY <3>1, <3>2, <1>6
  <2>3. f \in Injection(K, R) BY <2>1, <2>2 DEF Injection, IsInjective
  <2>4. IsFiniteSet(R) /\ Cardinality(R) = c
    BY <1>2, FS_Interval
  <2> HIDE DEF f, R
  <2>5. f \in Surjection(K, R) BY <2>3, <2>4, FS_Injection
  <2>6. \A r \in R : \E i \in K : f[i] = r BY <2>5 DEF Surjection
  <2>7. ASSUME NEW k \in 1 .. c PROVE \E i \in K : Rank(i) = k - 1
    <3>1. k - 1 \in R BY <1>2 DEF R
    <3>2. PICK i \in K : f[i] = k - 1 BY <2>6, <3>1
    <3> QED BY <3>2 DEF f
  <2> QED BY <2>7
<1> QED BY <1>2, <1>5, <1>6, <1>7

\* at lists a set of places in order.
InOrder(at, n, kept) ==
  /\ at \in [1 .. n -> kept]
  /\ \A k, l \in 1 .. n : k < l => at[k] < at[l]
  /\ \A i \in kept : \E k \in 1 .. n : at[k] = i

\* Of a text, the lines at some places are kept, in order.
Keeps(new, text, kept) ==
  \E at : InOrder(at, Len(new), kept) /\ \A k \in 1 .. Len(new) : new[k] = text[at[k]]

\* That is what Without does.
LEMMA WithoutKeeps ==
  ASSUME NEW S, NEW text \in Seq(S), NEW removed
  PROVE  /\ Without(text, removed) \in Seq(S)
         /\ Keeps(Without(text, removed), text, DOMAIN text \ removed)
<1> DEFINE K == DOMAIN text \ removed
           c == Cardinality(K)
           Rank(i) == Cardinality({j \in K : j < i})
           at == [k \in 1 .. c |-> CHOOSE i \in K : Rank(i) = k - 1]
           new == Without(text, removed)
<1>1. Len(text) \in Nat /\ DOMAIN text = 1 .. Len(text) /\ K \in SUBSET (1 .. Len(text))
  OBVIOUS
<1>2. /\ c \in Nat
      /\ \A i, l \in K : i < l => Rank(i) < Rank(l)
      /\ \A i \in K : Rank(i) \in 0 .. c - 1
      /\ \A k \in 1 .. c : \E i \in K : Rank(i) = k - 1
  BY <1>1, Ranks
<1>3. new = [k \in 1 .. c |-> text[at[k]]] BY DEF Without
<1> HIDE DEF new, c, Rank
<1>4. \A k \in 1 .. c : at[k] \in K /\ Rank(at[k]) = k - 1 BY <1>2
<1>5. at \in [1 .. c -> K] BY <1>4
<1>6. DOMAIN at = 1 .. c OBVIOUS
<1> HIDE DEF at
<1>7. \A i \in K : text[i] \in S BY <1>1
<1> HIDE DEF K
<1>8. new \in Seq(S) /\ Len(new) = c
  <2>1. new \in [1 .. c -> S] BY <1>3, <1>4, <1>7
  <2> QED BY <2>1, <1>2
<1>9. \A k, l \in 1 .. c : k < l => at[k] < at[l]
  <2> SUFFICES ASSUME NEW k \in 1 .. c, NEW l \in 1 .. c, k < l, ~(at[k] < at[l]) PROVE FALSE
    OBVIOUS
  <2>1. at[k] \in Nat /\ at[l] \in Nat BY <1>1, <1>4 DEF K
  <2>2. at[l] < at[k] \/ at[l] = at[k] BY <2>1
  <2>3. Rank(at[l]) < Rank(at[k]) \/ Rank(at[l]) = Rank(at[k]) BY <2>2, <1>2, <1>4
  <2> QED BY <2>3, <1>4
<1>10. \A i \in K : \E k \in 1 .. c : at[k] = i
  <2> SUFFICES ASSUME NEW i \in K PROVE \E k \in 1 .. c : at[k] = i
    OBVIOUS
  <2> DEFINE k == Rank(i) + 1
  <2>1. k \in 1 .. c /\ k - 1 = Rank(i) BY <1>2
  <2>2. at[k] \in K /\ Rank(at[k]) = Rank(i) BY <2>1, <1>4
  <2>3. at[k] \in Nat /\ i \in Nat BY <2>2, <1>1 DEF K
  <2>4. Rank(i) \in Nat BY <1>2
  <2> HIDE DEF k
  <2>5. at[k] = i BY <2>2, <2>3, <2>4, <1>2
  <2> QED BY <2>1, <2>5
<1>11. Keeps(new, text, K)
  <2>1. \A k \in 1 .. c : new[k] = text[at[k]] BY <1>3
  <2> QED BY <2>1, <1>5, <1>8, <1>9, <1>10 DEF Keeps, InOrder
<1> QED BY <1>8, <1>11 DEF new, K

\* Two lines that follow each other and are both kept still follow each other.
LEMMA NeighboursStay ==
  ASSUME NEW n \in Nat, NEW kept \in SUBSET Nat, NEW at, InOrder(at, n, kept),
         NEW k \in 1 .. n
  PROVE  /\ at[k] + 1 \in kept => k + 1 \in 1 .. n /\ at[k + 1] = at[k] + 1
         /\ at[k] - 1 \in kept => k - 1 \in 1 .. n /\ at[k - 1] = at[k] - 1
<1> USE DEF InOrder
<1>1. \A l \in 1 .. n : at[l] \in Nat OBVIOUS
<1>2. ASSUME at[k] + 1 \in kept PROVE k + 1 \in 1 .. n /\ at[k + 1] = at[k] + 1
  <2>1. PICK l \in 1 .. n : at[l] = at[k] + 1 BY <1>2
  <2>2. k < l
    <3>1. CASE l = k BY <3>1, <2>1, <1>1
    <3>2. CASE l < k
      <4>1. at[l] < at[k] BY <3>2
      <4> QED BY <4>1, <2>1, <1>1
    <3> QED BY <3>1, <3>2
  <2>3. k + 1 \in 1 .. n BY <2>2
  <2>4. at[k] < at[k + 1] BY <2>3
  <2>5. k + 1 < l => at[k + 1] < at[l] BY <2>3
  <2>6. k + 1 = l BY <2>1, <2>2, <2>3, <2>4, <2>5, <1>1
  <2> QED BY <2>1, <2>6
<1>3. ASSUME at[k] - 1 \in kept PROVE k - 1 \in 1 .. n /\ at[k - 1] = at[k] - 1
  <2>1. PICK l \in 1 .. n : at[l] = at[k] - 1 BY <1>3
  <2>2. l < k
    <3>1. CASE l = k BY <3>1, <2>1, <1>1
    <3>2. CASE k < l
      <4>1. at[k] < at[l] BY <3>2
      <4> QED BY <4>1, <2>1, <1>1
    <3> QED BY <3>1, <3>2
  <2>3. k - 1 \in 1 .. n BY <2>2
  <2>4. at[k - 1] < at[k] BY <2>3
  <2>5. l < k - 1 => at[l] < at[k - 1] BY <2>3
  <2>6. k - 1 = l BY <2>1, <2>2, <2>3, <2>4, <2>5, <1>1
  <2> QED BY <2>1, <2>6
<1> QED BY <1>2, <1>3

\* What is kept of a text.
LEMMA KeptLines ==
  ASSUME NEW text \in Seq(Lines), NEW new \in Seq(Lines), NEW kept \in SUBSET DOMAIN text,
         Keeps(new, text, kept)
  PROVE  /\ \A line : Contains(new, line) <=> \E i \in kept : text[i] = line
         /\ \A t : TodoMarkerPresent(new, t) => TodoMarkerPresent(text, t)
         /\ Scaffolded(text)
            /\ (\A i \in kept : /\ text[i].kind = "raise" => i + 1 \in kept /\ i + 2 \in kept
                                /\ text[i].kind = "argument" => i - 1 \in kept)
            => Scaffolded(new)
<1> DEFINE n == Len(new)
<1>o. PICK at : InOrder(at, n, kept) /\ \A k \in 1 .. n : new[k] = text[at[k]]
  BY DEF Keeps
<1>1. /\ at \in [1 .. n -> kept]
      /\ \A k \in 1 .. n : new[k] = text[at[k]]
      /\ \A k, l \in 1 .. n : k < l => at[k] < at[l]
      /\ \A i \in kept : \E k \in 1 .. n : at[k] = i
  BY <1>o DEF InOrder
<1>2. /\ n \in Nat /\ DOMAIN new = 1 .. n /\ DOMAIN text = 1 .. Len(text) /\ Len(text) \in Nat
      /\ kept \in SUBSET Nat
  OBVIOUS
<1> HIDE DEF n
<1>3. \A line : Contains(new, line) <=> \E i \in kept : text[i] = line
  <2> SUFFICES ASSUME NEW line PROVE Contains(new, line) <=> \E i \in kept : text[i] = line
    OBVIOUS
  <2>1. ASSUME NEW k \in 1 .. n, new[k] = line PROVE at[k] \in kept /\ text[at[k]] = line
    BY <1>1, <2>1
  <2>2. ASSUME NEW i \in kept, text[i] = line PROVE \E k \in 1 .. n : new[k] = line
    BY <1>1, <2>2
  <2> QED BY <2>1, <2>2 DEF Contains, n
<1>4. ASSUME NEW t, TodoMarkerPresent(new, t) PROVE TodoMarkerPresent(text, t)
  <2>1. CASE Contains(new, Line("marker", t))
    <3>1. PICK i \in kept : text[i] = Line("marker", t) BY <2>1, <1>3
    <3> QED BY <3>1, <1>2 DEF TodoMarkerPresent, Contains
  <2>2. CASE \E i, j \in DOMAIN new : i <= j /\ new[i].kind = "raise" /\ Named(new[j], t)
    <3>1. PICK i \in 1 .. n, j \in 1 .. n : i <= j /\ new[i].kind = "raise" /\ Named(new[j], t)
      BY <2>2, <1>2
    <3>2. at[i] \in kept /\ at[j] \in kept BY <1>1
    <3>4. at[i] <= at[j]
      <4>1. i = j \/ i < j BY <3>1, <1>2
      <4>2. at[i] \in Nat /\ at[j] \in Nat BY <3>2, <1>2
      <4>3. i < j => at[i] < at[j] BY <1>1
      <4> QED BY <4>1, <4>2, <4>3
    <3>3. text[at[i]].kind = "raise" /\ Named(text[at[j]], t) BY <3>1, <1>1
    <3> QED BY <3>2, <3>3, <3>4 DEF TodoMarkerPresent
  <2> QED BY <1>4, <2>1, <2>2 DEF TodoMarkerPresent
<1>5. ASSUME Scaffolded(text),
             \A i \in kept : /\ text[i].kind = "raise" => i + 1 \in kept /\ i + 2 \in kept
                             /\ text[i].kind = "argument" => i - 1 \in kept
      PROVE  Scaffolded(new)
  <2> SUFFICES ASSUME NEW k \in 1 .. n
               PROVE  /\ new[k].kind = "raise" =>
                           /\ k + 2 \in 1 .. n
                           /\ new[k + 1].kind = "argument" /\ new[k + 2].kind = "close"
                      /\ new[k].kind = "argument" => k - 1 \in 1 .. n /\ new[k - 1].kind = "raise"
    BY <1>2 DEF Scaffolded
  <2>1. at[k] \in kept /\ at[k] \in Nat /\ at[k] \in DOMAIN text /\ new[k] = text[at[k]]
    BY <1>1, <1>2
  <2>n. \A l \in 1 .. n :
          /\ at[l] + 1 \in kept => l + 1 \in 1 .. n /\ at[l + 1] = at[l] + 1
          /\ at[l] - 1 \in kept => l - 1 \in 1 .. n /\ at[l - 1] = at[l] - 1
    BY <1>o, <1>2, NeighboursStay
  <2>2. ASSUME new[k].kind = "raise"
        PROVE  /\ k + 2 \in 1 .. n
               /\ new[k + 1].kind = "argument" /\ new[k + 2].kind = "close"
    <3>1. at[k] + 1 \in kept /\ at[k] + 2 \in kept
          /\ text[at[k] + 1].kind = "argument" /\ text[at[k] + 2].kind = "close"
      <4>1. text[at[k]].kind = "raise" BY <2>1, <2>2
      <4> QED BY <4>1, <1>5, <2>1 DEF Scaffolded
    <3>2. k + 1 \in 1 .. n /\ at[k + 1] = at[k] + 1 BY <3>1, <2>n
    <3>3. at[k + 1] + 1 = at[k] + 2 BY <3>2, <2>1
    <3>4. (k + 1) + 1 \in 1 .. n /\ at[(k + 1) + 1] = at[k] + 2
      BY <3>1, <3>2, <3>3, <2>n
    <3>5. (k + 1) + 1 = k + 2 OBVIOUS
    <3> QED BY <3>1, <3>2, <3>4, <3>5, <1>1
  <2>3. ASSUME new[k].kind = "argument" PROVE k - 1 \in 1 .. n /\ new[k - 1].kind = "raise"
    <3>1. at[k] - 1 \in kept /\ text[at[k] - 1].kind = "raise"
      <4>1. text[at[k]].kind = "argument" BY <2>1, <2>3
      <4> QED BY <4>1, <1>5, <2>1 DEF Scaffolded
    <3>2. k - 1 \in 1 .. n /\ at[k - 1] = at[k] - 1 BY <3>1, <2>n
    <3> QED BY <3>1, <3>2, <1>1
  <2> QED BY <2>2, <2>3
<1> QED BY <1>3, <1>4, <1>5

----------------------------------------------------------------------------
(***************************************************************************)
(* What the cleaning of a TODO leaves of a text in the scaffold style.     *)
(***************************************************************************)

\* A raise, the line that names its TODO and the closing parenthesis.
LEMMA RaiseLines ==
  ASSUME NEW text \in Seq(Lines), Scaffolded(text), NEW i \in DOMAIN text,
         text[i].kind = "raise"
  PROVE  /\ i + 1 \in DOMAIN text /\ i + 2 \in DOMAIN text
         /\ text[i + 1].kind = "argument" /\ text[i + 2].kind = "close"
         /\ RaiseBlock(text, i) = {i, i + 1, i + 2}
         /\ i \in RaiseStarts(text)
<1>1. DOMAIN text = 1 .. Len(text) /\ Len(text) \in Nat OBVIOUS
<1>2. ASSUME NEW j \in DOMAIN text, text[j].kind = "raise"
      PROVE  /\ j + 1 \in DOMAIN text /\ j + 2 \in DOMAIN text
             /\ text[j + 1].kind = "argument" /\ text[j + 2].kind = "close"
             /\ RaiseBlock(text, j) = {j, j + 1, j + 2}
  <2>1. j + 2 \in DOMAIN text /\ text[j + 1].kind = "argument" /\ text[j + 2].kind = "close"
    BY <1>2 DEF Scaffolded
  <2>2. j + 1 \in DOMAIN text BY <1>1, <2>1
  <2>3. ASSUME NEW l \in RaiseBlock(text, j) PROVE l \in {j, j + 1, j + 2}
    <3>1. l \in j .. Len(text) /\ \A k \in j .. l - 1 : text[k].kind # "close"
      BY DEF RaiseBlock
    <3>2. ~(j + 2 \in j .. l - 1) BY <2>1, <3>1
    <3> QED BY <1>1, <3>1, <3>2
  <2>4. ASSUME NEW l \in {j, j + 1, j + 2} PROVE l \in RaiseBlock(text, j)
    <3>1. l \in j .. Len(text) BY <1>1, <2>1
    <3>2. ASSUME NEW k \in j .. l - 1 PROVE text[k].kind # "close"
      <4>1. k = j \/ k = j + 1 BY <1>1
      <4> QED BY <4>1, <1>2, <2>1
    <3> QED BY <3>1, <3>2 DEF RaiseBlock
  <2>5. RaiseBlock(text, j) \subseteq {j, j + 1, j + 2} BY <2>3
  <2>6. {j, j + 1, j + 2} \subseteq RaiseBlock(text, j) BY <2>4
  <2>7. RaiseBlock(text, j) = {j, j + 1, j + 2} BY <2>5, <2>6
  <2> QED BY <2>1, <2>2, <2>7
<1>3. ASSUME NEW j \in 1 .. i - 1, text[j].kind = "raise" PROVE i \notin RaiseBlock(text, j)
  <2>1. j \in DOMAIN text BY <1>1
  <2>2. /\ RaiseBlock(text, j) = {j, j + 1, j + 2}
        /\ text[j + 1].kind = "argument" /\ text[j + 2].kind = "close"
    BY <1>2, <1>3, <2>1
  <2>3. i # j BY <1>1
  <2> QED BY <2>2, <2>3
<1>4. i \in RaiseStarts(text) BY <1>3 DEF RaiseStarts
<1> QED BY <1>2, <1>4

\* Comment blocks hold no part of a raise, and all markers of the TODO.
LEMMA CommentsRemoved ==
  ASSUME NEW text \in Seq(Lines), Scaffolded(text), NEW t
  PROVE  LET new == RemoveTodoCommentBlocks(text, t)
         IN  /\ new \in Seq(Lines) /\ Scaffolded(new)
             /\ \A u : TodoMarkerPresent(new, u) => TodoMarkerPresent(text, u)
             /\ ~Contains(new, Line("marker", t))
             /\ \A line : Contains(new, line) => Contains(text, line)
             /\ \A line : Contains(text, line) /\ ~IsComment(line) => Contains(new, line)
<1> DEFINE C == {i \in DOMAIN text : \E j \in 1 .. i :
                   text[j] = Line("marker", t) /\ \A k \in j .. i : IsComment(text[k])}
           kept == DOMAIN text \ C
           new == RemoveTodoCommentBlocks(text, t)
<1>1. DOMAIN text = 1 .. Len(text) /\ Len(text) \in Nat OBVIOUS
<1>2. new = Without(text, C) BY DEF RemoveTodoCommentBlocks
<1>3. \A i \in C : IsComment(text[i]) BY <1>1
<1>4. \A i \in DOMAIN text : text[i] = Line("marker", t) => i \in C
  <2> SUFFICES ASSUME NEW i \in DOMAIN text, text[i] = Line("marker", t) PROVE i \in C
    OBVIOUS
  <2>1. i \in 1 .. i /\ \A k \in i .. i : k = i BY <1>1
  <2>2. IsComment(text[i]) BY DEF IsComment, Line
  <2> QED BY <2>1, <2>2
<1> HIDE DEF C, new
<1>5. new \in Seq(Lines) /\ Keeps(new, text, kept) BY <1>2, WithoutKeeps
<1>6. ASSUME NEW i \in kept
      PROVE  /\ text[i].kind = "raise" => i + 1 \in kept /\ i + 2 \in kept
             /\ text[i].kind = "argument" => i - 1 \in kept
  <2>0. i \in DOMAIN text OBVIOUS
  <2>1. ASSUME text[i].kind = "raise" PROVE i + 1 \in kept /\ i + 2 \in kept
    <3>1. /\ i + 1 \in DOMAIN text /\ i + 2 \in DOMAIN text
          /\ text[i + 1].kind = "argument" /\ text[i + 2].kind = "close"
      BY <2>0, <2>1, RaiseLines
    <3> QED BY <3>1, <1>3 DEF IsComment
  <2>2. ASSUME text[i].kind = "argument" PROVE i - 1 \in kept
    <3>1. i - 1 \in DOMAIN text /\ text[i - 1].kind = "raise" BY <2>0, <2>2 DEF Scaffolded
    <3> QED BY <3>1, <1>3 DEF IsComment
  <2> QED BY <2>1, <2>2
<1>7. kept \in SUBSET DOMAIN text OBVIOUS
<1>8. kept = DOMAIN text \ C OBVIOUS
<1> HIDE DEF kept
<1>9. /\ \A line : Contains(new, line) <=> \E i \in kept : text[i] = line
      /\ \A u : TodoMarkerPresent(new, u) => TodoMarkerPresent(text, u)
      /\ Scaffolded(new)
  BY <1>5, <1>6, <1>7, KeptLines
<1>10. ~Contains(new, Line("marker", t)) BY <1>4, <1>8, <1>9
<1>11. \A line : Contains(text, line) /\ ~IsComment(line) => Contains(new, line)
  BY <1>1, <1>3, <1>8, <1>9 DEF Contains
<1>12. \A line : Contains(new, line) => Contains(text, line)
  BY <1>1, <1>8, <1>9 DEF Contains
<1> QED BY <1>5, <1>9, <1>10, <1>11, <1>12 DEF new

\* The raises that name the TODO go, whole, and no other line.
LEMMA RaisesRemoved ==
  ASSUME NEW text \in Seq(Lines), Scaffolded(text), NEW t
  PROVE  LET new == RemoveRaisesForTodo(text, t)
         IN  /\ new \in Seq(Lines) /\ Scaffolded(new)
             /\ \A u : TodoMarkerPresent(new, u) => TodoMarkerPresent(text, u)
             /\ \A line : Contains(new, line) => Contains(text, line)
             /\ ~Contains(new, Argument(t))
             /\ \A u : Contains(text, Code(u)) => Contains(new, Code(u))
             /\ \A u : u # t /\ Contains(text, Argument(u)) => Contains(new, Argument(u))
<1> DEFINE R == UNION {RaiseBlock(text, i) : i \in RaiseOf(text, t)}
           kept == DOMAIN text \ R
           new == RemoveRaisesForTodo(text, t)
<1>1. DOMAIN text = 1 .. Len(text) /\ Len(text) \in Nat OBVIOUS
<1>2. new = Without(text, R) BY DEF RemoveRaisesForTodo
<1>3. \A i \in RaiseOf(text, t) :
        /\ i \in DOMAIN text /\ text[i].kind = "raise" /\ RaiseBlock(text, i) = {i, i + 1, i + 2}
        /\ text[i + 1].kind = "argument" /\ text[i + 1].todo = t /\ text[i + 2].kind = "close"
  <2> SUFFICES ASSUME NEW i \in RaiseOf(text, t)
               PROVE  /\ i \in DOMAIN text /\ text[i].kind = "raise"
                      /\ RaiseBlock(text, i) = {i, i + 1, i + 2}
                      /\ text[i + 1].kind = "argument" /\ text[i + 1].todo = t
                      /\ text[i + 2].kind = "close"
    OBVIOUS
  <2>1. /\ i \in DOMAIN text /\ text[i].kind = "raise"
        /\ \E j \in RaiseBlock(text, i) : Named(text[j], t)
    BY DEF RaiseOf, RaiseStarts
  <2>2. /\ RaiseBlock(text, i) = {i, i + 1, i + 2}
        /\ text[i + 1].kind = "argument" /\ text[i + 2].kind = "close"
    BY <2>1, RaiseLines
  <2>3. PICK j \in {i, i + 1, i + 2} : Named(text[j], t) BY <2>1, <2>2
  <2>4. j = i + 1 BY <2>1, <2>2, <2>3 DEF Named
  <2> QED BY <2>1, <2>2, <2>3, <2>4 DEF Named
<1>4. \A j : j \in R <=> \E i \in RaiseOf(text, t) : j \in {i, i + 1, i + 2}
  BY <1>3
<1>5. \A j \in DOMAIN text : text[j].kind = "raise" /\ j \in R => j \in RaiseOf(text, t)
  BY <1>3, <1>4
<1>6. \A j \in DOMAIN text : text[j].kind = "argument" /\ j \in R =>
        j - 1 \in RaiseOf(text, t) /\ text[j].todo = t
  <2> SUFFICES ASSUME NEW j \in DOMAIN text, text[j].kind = "argument", j \in R
               PROVE  j - 1 \in RaiseOf(text, t) /\ text[j].todo = t
    OBVIOUS
  <2>1. PICK i \in RaiseOf(text, t) : j \in {i, i + 1, i + 2} BY <1>4
  <2>2. j = i + 1 BY <2>1, <1>3
  <2>3. j - 1 = i BY <2>2, <1>1, <1>3
  <2> QED BY <2>2, <2>3, <1>3
<1>7. \A j \in DOMAIN text : text[j].kind = "close" /\ j \in R => j - 2 \in RaiseOf(text, t)
  <2> SUFFICES ASSUME NEW j \in DOMAIN text, text[j].kind = "close", j \in R
               PROVE  j - 2 \in RaiseOf(text, t)
    OBVIOUS
  <2>1. PICK i \in RaiseOf(text, t) : j \in {i, i + 1, i + 2} BY <1>4
  <2>2. j = i + 2 BY <2>1, <1>3
  <2>3. j - 2 = i BY <2>2, <1>1, <1>3
  <2> QED BY <2>3
<1>8. \A j \in DOMAIN text : j \in R => text[j].kind \in {"raise", "argument", "close"}
  BY <1>3, <1>4
<1>9. \A j \in DOMAIN text : text[j] = Argument(t) => j \in R
  <2> SUFFICES ASSUME NEW j \in DOMAIN text, text[j] = Argument(t) PROVE j \in R
    OBVIOUS
  <2>1. text[j].kind = "argument" /\ Named(text[j], t) BY DEF Argument, Line, Named
  <2>2. j - 1 \in DOMAIN text /\ text[j - 1].kind = "raise" BY <2>1 DEF Scaffolded
  <2>3. j - 1 \in RaiseStarts(text) /\ RaiseBlock(text, j - 1) = {j - 1, j - 1 + 1, j - 1 + 2}
    BY <2>2, RaiseLines
  <2>4. j = j - 1 + 1 BY <1>1
  <2>5. j \in RaiseBlock(text, j - 1) BY <2>3, <2>4
  <2>6. j - 1 \in RaiseOf(text, t) BY <2>1, <2>3, <2>5 DEF RaiseOf
  <2> QED BY <2>5, <2>6
<1> HIDE DEF R, new
<1>10. new \in Seq(Lines) /\ Keeps(new, text, kept) BY <1>2, WithoutKeeps
<1>11. ASSUME NEW i \in kept
       PROVE  /\ text[i].kind = "raise" => i + 1 \in kept /\ i + 2 \in kept
              /\ text[i].kind = "argument" => i - 1 \in kept
  <2>1. i \in DOMAIN text /\ i \notin R OBVIOUS
  <2>2. ASSUME text[i].kind = "raise" PROVE i + 1 \in kept /\ i + 2 \in kept
    <3>1. /\ i + 1 \in DOMAIN text /\ i + 2 \in DOMAIN text
          /\ text[i + 1].kind = "argument" /\ text[i + 2].kind = "close"
      BY <2>1, <2>2, RaiseLines
    <3>2. i \notin RaiseOf(text, t) BY <2>1, <1>4
    <3>3. i + 1 - 1 = i /\ i + 2 - 2 = i BY <2>1, <1>1
    <3> QED BY <3>1, <3>2, <3>3, <1>6, <1>7
  <2>3. ASSUME text[i].kind = "argument" PROVE i - 1 \in kept
    <3>1. i - 1 \in DOMAIN text /\ text[i - 1].kind = "raise" BY <2>1, <2>3 DEF Scaffolded
    <3>2. i - 1 \in R => i - 1 \in RaiseOf(text, t) BY <3>1, <1>5
    <3>3. i = i - 1 + 1 BY <2>1, <1>1
    <3>4. i - 1 \in RaiseOf(text, t) => i \in R BY <3>3, <1>4
    <3> QED BY <3>1, <3>2, <3>4, <2>1
  <2> QED BY <2>2, <2>3
<1>12. kept \in SUBSET DOMAIN text OBVIOUS
<1>13. kept = DOMAIN text \ R OBVIOUS
<1> HIDE DEF kept
<1>14. /\ \A line : Contains(new, line) <=> \E i \in kept : text[i] = line
       /\ \A u : TodoMarkerPresent(new, u) => TodoMarkerPresent(text, u)
       /\ Scaffolded(new)
  BY <1>10, <1>11, <1>12, KeptLines
<1>15. \A line : Contains(new, line) => Contains(text, line)
  BY <1>1, <1>13, <1>14 DEF Contains
<1>16. ~Contains(new, Argument(t)) BY <1>9, <1>13, <1>14
<1>17. \A u : Contains(text, Code(u)) => Contains(new, Code(u))
  <2> SUFFICES ASSUME NEW u, Contains(text, Code(u)) PROVE Contains(new, Code(u))
    OBVIOUS
  <2>1. PICK i \in DOMAIN text : text[i] = Code(u) BY <1>1 DEF Contains
  <2>2. text[i].kind = "code" BY <2>1 DEF Code, Line
  <2>3. i \in kept BY <2>2, <1>8, <1>13
  <2> QED BY <2>1, <2>3, <1>14
<1>18. \A u : u # t /\ Contains(text, Argument(u)) => Contains(new, Argument(u))
  <2> SUFFICES ASSUME NEW u, u # t, Contains(text, Argument(u)) PROVE Contains(new, Argument(u))
    OBVIOUS
  <2>1. PICK i \in DOMAIN text : text[i] = Argument(u) BY <1>1 DEF Contains
  <2>2. text[i].kind = "argument" /\ text[i].todo = u BY <2>1 DEF Argument, Line
  <2>3. i \in kept BY <2>2, <1>6, <1>13
  <2> QED BY <2>1, <2>3, <1>14
<1> QED BY <1>10, <1>14, <1>15, <1>16, <1>17, <1>18 DEF new

\* The import goes when no raise is left.
LEMMA ImportRemoved ==
  ASSUME NEW text \in Seq(Lines), Scaffolded(text)
  PROVE  LET new == RemoveUnusedImport(text)
         IN  /\ new \in Seq(Lines) /\ Scaffolded(new)
             /\ \A u : TodoMarkerPresent(new, u) => TodoMarkerPresent(text, u)
             /\ \A line : Contains(new, line) => Contains(text, line)
             /\ \A line : Contains(text, line) /\ line.kind # "import" => Contains(new, line)
<1> DEFINE I == {i \in DOMAIN text : text[i].kind = "import"}
           kept == DOMAIN text \ I
           cut == Without(text, I)
<1>1. DOMAIN text = 1 .. Len(text) /\ Len(text) \in Nat OBVIOUS
<1>2. \A i \in DOMAIN text : i \in I <=> text[i].kind = "import" OBVIOUS
<1>3. RemoveUnusedImport(text) \in {text, cut} BY DEF RemoveUnusedImport
<1> HIDE DEF I, cut
<1>4. cut \in Seq(Lines) /\ Keeps(cut, text, kept) BY WithoutKeeps DEF cut
<1>5. ASSUME NEW i \in kept
      PROVE  /\ text[i].kind = "raise" => i + 1 \in kept /\ i + 2 \in kept
             /\ text[i].kind = "argument" => i - 1 \in kept
  <2>1. i \in DOMAIN text OBVIOUS
  <2>2. ASSUME text[i].kind = "raise" PROVE i + 1 \in kept /\ i + 2 \in kept
    <3>1. /\ i + 1 \in DOMAIN text /\ i + 2 \in DOMAIN text
          /\ text[i + 1].kind = "argument" /\ text[i + 2].kind = "close"
      BY <2>1, <2>2, RaiseLines
    <3> QED BY <3>1, <1>2
  <2>3. ASSUME text[i].kind = "argument" PROVE i - 1 \in kept
    <3>1. i - 1 \in DOMAIN text /\ text[i - 1].kind = "raise" BY <2>1, <2>3 DEF Scaffolded
    <3> QED BY <3>1, <1>2
  <2> QED BY <2>2, <2>3
<1>6. kept \in SUBSET DOMAIN text OBVIOUS
<1>7. kept = DOMAIN text \ I OBVIOUS
<1> HIDE DEF kept
<1>8. /\ \A line : Contains(cut, line) <=> \E i \in kept : text[i] = line
      /\ \A u : TodoMarkerPresent(cut, u) => TodoMarkerPresent(text, u)
      /\ Scaffolded(cut)
  BY <1>4, <1>5, <1>6, KeptLines
<1>9. /\ \A line : Contains(cut, line) => Contains(text, line)
      /\ \A line : Contains(text, line) /\ line.kind # "import" => Contains(cut, line)
  BY <1>1, <1>2, <1>7, <1>8 DEF Contains
<1> QED BY <1>3, <1>4, <1>8, <1>9

\* cleanup_todo_scaffolding: nothing of the TODO is left that would show it, and the
\* code and the raises of the others stay.
LEMMA CleanedText ==
  ASSUME NEW text \in Seq(Lines), Scaffolded(text), NEW t
  PROVE  LET new == Cleaned(text, t)
         IN  /\ new \in Seq(Lines) /\ Scaffolded(new)
             /\ ~TodoMarkerPresent(new, t)
             /\ \A line : Contains(new, line) => Contains(text, line)
             /\ \A u : TodoMarkerPresent(new, u) => TodoMarkerPresent(text, u)
             /\ \A u : Contains(text, Code(u)) => Contains(new, Code(u))
             /\ \A u : u # t /\ Contains(text, Argument(u)) => Contains(new, Argument(u))
<1> DEFINE one == RemoveTodoCommentBlocks(text, t)
           two == RemoveRaisesForTodo(one, t)
           new == RemoveUnusedImport(two)
<1>1. /\ one \in Seq(Lines) /\ Scaffolded(one)
      /\ \A u : TodoMarkerPresent(one, u) => TodoMarkerPresent(text, u)
      /\ ~Contains(one, Line("marker", t))
      /\ \A line : Contains(one, line) => Contains(text, line)
      /\ \A line : Contains(text, line) /\ ~IsComment(line) => Contains(one, line)
  BY CommentsRemoved
<1> HIDE DEF one
<1>2. /\ two \in Seq(Lines) /\ Scaffolded(two)
      /\ \A u : TodoMarkerPresent(two, u) => TodoMarkerPresent(one, u)
      /\ \A line : Contains(two, line) => Contains(one, line)
      /\ ~Contains(two, Argument(t))
      /\ \A u : Contains(one, Code(u)) => Contains(two, Code(u))
      /\ \A u : u # t /\ Contains(one, Argument(u)) => Contains(two, Argument(u))
  BY <1>1, RaisesRemoved
<1> HIDE DEF two
<1>3. /\ new \in Seq(Lines) /\ Scaffolded(new)
      /\ \A u : TodoMarkerPresent(new, u) => TodoMarkerPresent(two, u)
      /\ \A line : Contains(new, line) => Contains(two, line)
      /\ \A line : Contains(two, line) /\ line.kind # "import" => Contains(new, line)
  BY <1>2, ImportRemoved
<1>4. new = Cleaned(text, t) BY DEF Cleaned, one, two
<1> HIDE DEF new
<1>5. ~Contains(new, Line("marker", t)) /\ ~Contains(new, Argument(t)) BY <1>1, <1>2, <1>3
<1>6. ~TodoMarkerPresent(new, t)
  <2> SUFFICES ASSUME NEW j \in DOMAIN new, Named(new[j], t) PROVE FALSE
    BY <1>5 DEF TodoMarkerPresent
  <2>1. new[j] \in Lines /\ j \in 1 .. Len(new) BY <1>3
  <2>2. new[j] = Line("marker", t) \/ new[j] = Argument(t)
    BY <2>1 DEF Named, Lines, Line, Argument
  <2> QED BY <2>1, <2>2, <1>5 DEF Contains
<1>7. \A u : /\ ~IsComment(Code(u)) /\ Code(u).kind # "import"
            /\ ~IsComment(Argument(u)) /\ Argument(u).kind # "import"
  BY DEF Code, Argument, Line, IsComment
<1>8. \A u : Contains(text, Code(u)) => Contains(new, Code(u)) BY <1>1, <1>2, <1>3, <1>7
<1>9. \A u : u # t /\ Contains(text, Argument(u)) => Contains(new, Argument(u))
  BY <1>1, <1>2, <1>3, <1>7
<1>10. \A u : TodoMarkerPresent(new, u) => TodoMarkerPresent(text, u) BY <1>1, <1>2, <1>3
<1>11. \A line : Contains(new, line) => Contains(text, line) BY <1>1, <1>2, <1>3
<1> QED BY <1>3, <1>4, <1>6, <1>8, <1>9, <1>10, <1>11

\* There is nothing to clean in an empty text.
LEMMA NothingToClean == \A t : Cleaned(<< >>, t) = << >>
<1> SUFFICES ASSUME NEW t PROVE Cleaned(<< >>, t) = << >> OBVIOUS
<1> DEFINE new == Cleaned(<< >>, t)
<1>1. << >> \in Seq(Lines) /\ Scaffolded(<< >>) /\ \A line : ~Contains(<< >>, line)
  BY DEF Scaffolded, Contains
<1>2. new \in Seq(Lines) /\ \A line : Contains(new, line) => Contains(<< >>, line)
  BY <1>1, CleanedText
<1> HIDE DEF new
<1>3. ~Contains(new, new[1]) BY <1>1, <1>2
<1>4. Len(new) = 0 BY <1>2, <1>3 DEF Contains
<1> QED BY <1>2, <1>4 DEF new

\* The code of a TODO is put above a raise, or at the end.
LEMMA CodeAdded ==
  ASSUME NEW text \in Seq(Lines), Scaffolded(text), NEW t \in Todos,
         NEW i \in 1 .. Len(text) + 1, i \in DOMAIN text => text[i].kind = "raise",
         NEW new \in Seq(Lines), Len(new) = Len(text) + 1, new[i] = Code(t),
         \A k \in 1 .. Len(text) : new[IF k < i THEN k ELSE k + 1] = text[k]
  PROVE  /\ Scaffolded(new)
         /\ \A u : TodoMarkerPresent(new, u) => TodoMarkerPresent(text, u)
         /\ \A line : Contains(text, line) => Contains(new, line)
         /\ Contains(new, Code(t))
<1> DEFINE n == Len(text)
<1>1. DOMAIN text = 1 .. n /\ n \in Nat /\ DOMAIN new = 1 .. n + 1 /\ Len(new) = n + 1
  OBVIOUS
<1>2. /\ \A k \in 1 .. n : k < i => new[k] = text[k]
      /\ \A k \in 1 .. n : k >= i => new[k + 1] = text[k]
  <2> SUFFICES ASSUME NEW k \in 1 .. n
               PROVE  (k < i => new[k] = text[k]) /\ (k >= i => new[k + 1] = text[k])
    OBVIOUS
  <2>1. k < i \/ (k >= i /\ ~(k < i)) OBVIOUS
  <2> QED BY <2>1
<1>3. new[i].kind = "code" BY DEF Code, Line
<1> HIDE DEF n
<1>4. \A k \in 1 .. n + 1 : k < i => k \in 1 .. n /\ new[k] = text[k]
  BY <1>1, <1>2 DEF n
<1>5. \A k \in 1 .. n + 1 : k > i => k - 1 \in 1 .. n /\ new[k] = text[k - 1]
  <2> SUFFICES ASSUME NEW k \in 1 .. n + 1, k > i
               PROVE  k - 1 \in 1 .. n /\ new[k] = text[k - 1]
    OBVIOUS
  <2>1. k - 1 \in 1 .. n /\ k - 1 >= i /\ k - 1 + 1 = k BY <1>1
  <2> QED BY <2>1, <1>2
<1>i. i \in 1 .. n + 1 BY <1>1 DEF n
<1>6. Contains(new, Code(t)) BY <1>1, <1>i DEF Contains
<1>7. ASSUME NEW line, Contains(text, line) PROVE Contains(new, line)
  <2>1. PICK k \in 1 .. n : text[k] = line BY <1>7, <1>1 DEF Contains
  <2>2. CASE k < i BY <2>1, <2>2, <1>1, <1>2 DEF Contains
  <2>3. CASE k >= i
    <3>1. k + 1 \in 1 .. n + 1 /\ new[k + 1] = line BY <2>1, <2>3, <1>1, <1>2
    <3> QED BY <3>1, <1>1 DEF Contains
  <2> QED BY <2>2, <2>3, <1>1, <1>i
<1>8. ASSUME NEW u, TodoMarkerPresent(new, u) PROVE TodoMarkerPresent(text, u)
  <2> DEFINE old(k) == IF k < i THEN k ELSE k - 1
  <2>1. ASSUME NEW k \in 1 .. n + 1, new[k].kind # "code"
        PROVE  old(k) \in 1 .. n /\ new[k] = text[old(k)]
    <3>1. k < i \/ k > i BY <2>1, <1>3, <1>i, <1>1
    <3>2. k > i => ~(k < i) BY <1>i, <1>1
    <3> QED BY <3>1, <3>2, <1>4, <1>5
  <2>2. \A k, l \in 1 .. n + 1 : k <= l => old(k) <= old(l) BY <1>i, <1>1
  <2> HIDE DEF old
  <2>3. CASE Contains(new, Line("marker", u))
    <3>1. PICK k \in 1 .. n + 1 : new[k] = Line("marker", u) BY <2>3, <1>1 DEF Contains
    <3>2. new[k].kind # "code" BY <3>1 DEF Line
    <3> QED BY <3>1, <3>2, <2>1, <1>1 DEF TodoMarkerPresent, Contains
  <2>4. CASE \E k, l \in DOMAIN new : k <= l /\ new[k].kind = "raise" /\ Named(new[l], u)
    <3>1. PICK k \in 1 .. n + 1, l \in 1 .. n + 1 :
                 k <= l /\ new[k].kind = "raise" /\ Named(new[l], u)
      BY <2>4, <1>1
    <3>2. new[l].kind # "code" BY <3>1 DEF Named
    <3>3. /\ old(k) \in DOMAIN text /\ old(l) \in DOMAIN text /\ old(k) <= old(l)
          /\ text[old(k)].kind = "raise" /\ Named(text[old(l)], u)
      BY <3>1, <3>2, <2>1, <2>2, <1>1
    <3> QED BY <3>3 DEF TodoMarkerPresent
  <2> QED BY <1>8, <2>3, <2>4 DEF TodoMarkerPresent
<1>9. Scaffolded(new)
  <2> SUFFICES ASSUME NEW k \in 1 .. n + 1
               PROVE  /\ new[k].kind = "raise" =>
                           /\ k + 2 \in 1 .. n + 1
                           /\ new[k + 1].kind = "argument" /\ new[k + 2].kind = "close"
                      /\ new[k].kind = "argument" =>
                           k - 1 \in 1 .. n + 1 /\ new[k - 1].kind = "raise"
    BY <1>1 DEF Scaffolded
  <2>r. i \in 1 .. n => text[i].kind = "raise" BY <1>1
  <2>s. \A j \in 1 .. n :
          /\ text[j].kind = "raise" =>
               /\ j + 2 \in 1 .. n /\ text[j + 1].kind = "argument" /\ text[j + 2].kind = "close"
          /\ text[j].kind = "argument" => j - 1 \in 1 .. n /\ text[j - 1].kind = "raise"
    BY <1>1 DEF Scaffolded
  <2>1. CASE k = i BY <2>1, <1>3
  <2>2. CASE k < i
    <3>1. k \in 1 .. n /\ new[k] = text[k] BY <2>2, <1>4
    <3>2. ASSUME new[k].kind = "raise"
          PROVE  /\ k + 2 \in 1 .. n + 1
                 /\ new[k + 1].kind = "argument" /\ new[k + 2].kind = "close"
      <4>1. k + 2 \in 1 .. n /\ text[k + 1].kind = "argument" /\ text[k + 2].kind = "close"
        BY <3>1, <3>2, <2>s
      <4>2. i # k + 1 /\ i # k + 2
        <5>1. i = k + 1 => i \in 1 .. n /\ text[i].kind = "argument" BY <4>1, <3>1, <1>1
        <5>2. i = k + 2 => i \in 1 .. n /\ text[i].kind = "close" BY <4>1
        <5> QED BY <5>1, <5>2, <2>r
      <4>3. k + 1 \in 1 .. n /\ k + 1 < i /\ k + 2 < i BY <4>1, <4>2, <2>2, <3>1, <1>1, <1>i
      <4> QED BY <4>1, <4>3, <1>1, <1>2
    <3>3. ASSUME new[k].kind = "argument" PROVE k - 1 \in 1 .. n + 1 /\ new[k - 1].kind = "raise"
      <4>1. k - 1 \in 1 .. n /\ text[k - 1].kind = "raise" BY <3>1, <3>3, <2>s
      <4>2. k - 1 < i BY <4>1, <2>2, <1>i, <1>1
      <4> QED BY <4>1, <4>2, <1>1, <1>2
    <3> QED BY <3>2, <3>3
  <2>3. CASE k > i
    <3>1. k - 1 \in 1 .. n /\ new[k] = text[k - 1] BY <2>3, <1>5
    <3>2. ASSUME new[k].kind = "raise"
          PROVE  /\ k + 2 \in 1 .. n + 1
                 /\ new[k + 1].kind = "argument" /\ new[k + 2].kind = "close"
      <4>1. /\ k - 1 + 2 \in 1 .. n
            /\ text[k - 1 + 1].kind = "argument" /\ text[k - 1 + 2].kind = "close"
        BY <3>1, <3>2, <2>s
      <4>2. k - 1 + 1 = k /\ k - 1 + 2 = k + 1 BY <3>1, <1>1
      <4>3. k \in 1 .. n /\ k >= i /\ k + 1 \in 1 .. n /\ k + 1 >= i
        BY <4>1, <4>2, <2>3, <1>i, <1>1
      <4>4. new[k + 1] = text[k] /\ new[k + 1 + 1] = text[k + 1] BY <4>3, <1>2
      <4>5. k + 1 + 1 = k + 2 /\ k + 2 \in 1 .. n + 1 BY <4>3, <1>1
      <4> QED BY <4>1, <4>2, <4>4, <4>5
    <3>3. ASSUME new[k].kind = "argument" PROVE k - 1 \in 1 .. n + 1 /\ new[k - 1].kind = "raise"
      <4>1. k - 1 - 1 \in 1 .. n /\ text[k - 1 - 1].kind = "raise" /\ text[k - 1].kind = "argument"
        BY <3>1, <3>3, <2>s
      <4>2. k - 1 # i
        <5>1. k - 1 = i => text[i].kind = "argument" /\ i \in 1 .. n BY <4>1, <3>1
        <5> QED BY <5>1, <2>r
      <4>3. k - 1 - 1 >= i /\ k - 1 - 1 + 1 = k - 1 BY <4>2, <2>3, <3>1, <1>i, <1>1
      <4>4. new[k - 1 - 1 + 1] = text[k - 1 - 1] BY <4>1, <4>3, <1>2
      <4>5. new[k - 1].kind = "raise" BY <4>1, <4>3, <4>4
      <4> QED BY <4>5, <3>1, <1>1
    <3> QED BY <3>2, <3>3
  <2> QED BY <2>1, <2>2, <2>3, <1>i, <1>1
<1> QED BY <1>6, <1>7, <1>8, <1>9

\* The two ways in which the student puts it there.
LEMMA Implemented ==
  ASSUME NEW text \in Seq(Lines), Scaffolded(text), NEW t \in Todos
  PROVE  /\ LET new == Append(text, Code(t))
            IN  /\ new \in Seq(Lines) /\ Scaffolded(new)
                /\ \A u : TodoMarkerPresent(new, u) => TodoMarkerPresent(text, u)
                /\ \A line : Contains(text, line) => Contains(new, line)
                /\ Contains(new, Code(t))
         /\ \A i \in RaiseOf(text, t) :
              LET new == InsertAt(text, i, Code(t))
              IN  /\ new \in Seq(Lines) /\ Scaffolded(new)
                  /\ \A u : TodoMarkerPresent(new, u) => TodoMarkerPresent(text, u)
                  /\ \A line : Contains(text, line) => Contains(new, line)
                  /\ Contains(new, Code(t))
<1> DEFINE Fine(new) == /\ new \in Seq(Lines) /\ Scaffolded(new)
                        /\ \A u : TodoMarkerPresent(new, u) => TodoMarkerPresent(text, u)
                        /\ \A line : Contains(text, line) => Contains(new, line)
                        /\ Contains(new, Code(t))
<1>1. Code(t) \in Lines BY DEF Code, Line, Lines, Kinds
<1>2. Len(text) \in Nat /\ DOMAIN text = 1 .. Len(text) OBVIOUS
<1>3. Fine(Append(text, Code(t)))
  <2> DEFINE new == Append(text, Code(t))
             i == Len(text) + 1
  <2>1. new \in Seq(Lines) /\ Len(new) = Len(text) + 1 /\ new[i] = Code(t) BY <1>1
  <2>2. \A k \in 1 .. Len(text) : new[IF k < i THEN k ELSE k + 1] = text[k] BY <1>1
  <2>3. i \in 1 .. Len(text) + 1 /\ i \notin DOMAIN text BY <1>2
  <2> HIDE DEF new, i
  <2>4. Fine(new) BY <2>1, <2>2, <2>3, CodeAdded
  <2> QED BY <2>4 DEF new
<1>4. ASSUME NEW i \in RaiseOf(text, t) PROVE Fine(InsertAt(text, i, Code(t)))
  <2> DEFINE new == InsertAt(text, i, Code(t))
             front == SubSeq(text, 1, i - 1)
             back == SubSeq(text, i, Len(text))
  <2>1. i \in DOMAIN text /\ text[i].kind = "raise" BY DEF RaiseOf, RaiseStarts
  <2>2. i \in 1 .. Len(text) BY <2>1, <1>2
  <2>3. front \in Seq(Lines) /\ Len(front) = i - 1 /\ \A k \in 1 .. i - 1 : front[k] = text[k]
    BY <2>2, <1>2
  <2>4. back \in Seq(Lines) /\ Len(back) = Len(text) - i + 1
        /\ \A k \in 1 .. Len(text) - i + 1 : back[k] = text[i + k - 1]
    BY <2>2, <1>2
  <2> DEFINE c == Code(t)
             mid == <<c>>
  <2>5. mid \in Seq(Lines) /\ Len(mid) = 1 /\ mid[1] = c
    <3> HIDE DEF c
    <3>1. c \in Lines BY <1>1 DEF c
    <3> QED BY <3>1
  <2>6. new = (front \o mid) \o back BY DEF InsertAt
  <2> HIDE DEF front, back, new, mid, c
  <2> DEFINE most == front \o mid
  <2>7. most \in Seq(Lines) /\ Len(most) = i /\ most[i] = c
        /\ \A k \in 1 .. i - 1 : most[k] = text[k]
    <3>0. /\ \A a, b \in Seq(Lines) :
               /\ a \o b \in Seq(Lines) /\ Len(a \o b) = Len(a) + Len(b)
               /\ \A k \in 1 .. Len(a) : (a \o b)[k] = a[k]
               /\ \A k \in 1 .. Len(b) : (a \o b)[Len(a) + k] = b[k]
      OBVIOUS
    <3>1. /\ most \in Seq(Lines) /\ Len(most) = Len(front) + Len(mid)
          /\ \A k \in 1 .. Len(front) : most[k] = front[k]
          /\ \A k \in 1 .. Len(mid) : most[Len(front) + k] = mid[k]
      BY <3>0, <2>3, <2>5
    <3> HIDE DEF most
    <3>2. Len(most) = i BY <3>1, <2>2, <2>3, <2>5
    <3>3. most[i] = c
      <4>1. 1 \in 1 .. Len(mid) /\ Len(front) + 1 = i BY <2>2, <2>3, <2>5
      <4> QED BY <4>1, <3>1, <2>5
    <3> QED BY <3>1, <3>2, <3>3, <2>3
  <2>8. new = most \o back BY <2>6
  <2> HIDE DEF most
  <2>9. new \in Seq(Lines) /\ Len(new) = Len(text) + 1
    <3>1. new \in Seq(Lines) /\ Len(new) = Len(most) + Len(back) BY <2>4, <2>7, <2>8
    <3> QED BY <3>1, <2>2, <2>4, <2>7, <1>2
  <2>10. \A k \in 1 .. i : new[k] = most[k] BY <2>2, <2>4, <2>7, <2>8, <1>2
  <2>11. \A k \in 1 .. Len(text) - i + 1 : new[i + k] = back[k]
    BY <2>2, <2>4, <2>7, <2>8, <1>2
  <2>12. new[i] = c BY <2>2, <2>7, <2>10
  <2>13. ASSUME NEW k \in 1 .. Len(text) PROVE new[IF k < i THEN k ELSE k + 1] = text[k]
    <3>1. CASE k < i
      <4>1. k \in 1 .. i /\ k \in 1 .. i - 1 BY <3>1, <2>2, <1>2
      <4>2. new[k] = text[k] BY <4>1, <2>7, <2>10
      <4> QED BY <4>2, <3>1
    <3>2. CASE ~(k < i)
      <4> DEFINE j == k - i + 1
      <4>1. j \in 1 .. Len(text) - i + 1 /\ i + j = k + 1 /\ i + j - 1 = k
        BY <3>2, <2>2, <1>2
      <4>2. new[i + j] = back[j] /\ back[j] = text[i + j - 1] BY <4>1, <2>4, <2>11
      <4>3. new[k + 1] = text[k] BY <4>1, <4>2
      <4> QED BY <4>3, <3>2
    <3> QED BY <3>1, <3>2
  <2>14. i \in 1 .. Len(text) + 1 BY <2>2, <1>2
  <2>15. Fine(new) BY <2>1, <2>9, <2>12, <2>13, <2>14, CodeAdded DEF c
  <2> QED BY <2>15 DEF new
<1> QED BY <1>3, <1>4

----------------------------------------------------------------------------
(***************************************************************************)
(* Every step keeps the sources sound.                                     *)
(***************************************************************************)

\* A tool that does not move has in its hands what it had.
LEMMA HandsStay ==
  ASSUME NEW q, HandsSound(q), tool'[q] = tool[q], tested \subseteq tested'
  PROVE  HandsSound(q)'
BY DEF HandsSound, TestedTodo

\* So for the reports too, only the tool that takes the step has to be looked at.
LEMMA OneReports ==
  ASSUME ReportsTested, NEW p \in Tools, \A q \in Tools \ {p} : tool'[q] = tool[q],
         tested \subseteq tested', UNCHANGED progress, HandsSound(p)'
  PROVE  ReportsTested'
<1>1. \A q \in Tools \ {p} : HandsSound(q)' BY HandsStay DEF ReportsTested
<1>2. \A t \in LoadProgress(progress)'.cleaned_todos : TestedTodo(t)'
  BY DEF ReportsTested, LoadProgress, TestedTodo
<1> QED BY <1>1, <1>2 DEF ReportsTested

\* Sources that are left alone, by tools that write no source and pass no test, are as
\* sound as they were.
LEMMA SourcesStay ==
  ASSUME SourcesSound, NEW p \in Tools, \A q \in Tools \ {p} : tool'[q] = tool[q],
         UNCHANGED <<disk, tested, cleaned>>, damaged \subseteq damaged',
         ~At(p, "write"), ~At(p, "write")'
  PROVE  SourcesSound'
<1> SUFFICES ASSUME NEW f \in DOMAIN InitialSource \ damaged PROVE FileSound(f)'
  BY DEF SourcesSound
<1>1. FileSound(f) BY DEF SourcesSound
<1>2. \A q \in Tools : /\ Writing(q, f)' <=> Writing(q, f)
                       /\ Writing(q, f) => tool'[q] = tool[q]
  BY DEF Writing, At, CleanFile, Todo
<1>3. \A text : Sound(f, text) => Sound(f, text)' BY DEF Sound
<1> QED BY <1>1, <1>2, <1>3 DEF FileSound

\* A step that neither changes a source, nor passes a test, nor ends the cleaning of one.
LEMMA PlainStep ==
  ASSUME CleanInv, CourseInv', NEW p \in Tools, \A q \in Tools \ {p} : tool'[q] = tool[q],
         UNCHANGED <<disk, tested, cleaned>>, damaged \subseteq damaged',
         ~At(p, "write"), ~At(p, "write")',
         HandsSound(p)',
         \A t \in LoadProgress(progress').cleaned_todos : TestedTodo(t)
  PROVE  CleanInv'
<1>1. HaveFiles' BY DEF HaveFiles, CleanInv
<1>2. SourcesSound' BY SourcesStay DEF CleanInv
<1>3. \A q \in Tools \ {p} : HandsSound(q)' BY HandsStay DEF ReportsTested, CleanInv
<1>4. \A t \in LoadProgress(progress)'.cleaned_todos : TestedTodo(t)'
  BY DEF LoadProgress, TestedTodo
<1>5. ReportsTested' BY <1>3, <1>4 DEF ReportsTested
<1> QED BY <1>1, <1>2, <1>5 DEF CleanInv

\* The same, when the record of progress is left alone.
LEMMA QuietStep ==
  ASSUME CleanInv, CourseInv', NEW p \in Tools, \A q \in Tools \ {p} : tool'[q] = tool[q],
         UNCHANGED <<disk, progress, tested, cleaned>>, damaged \subseteq damaged',
         ~At(p, "write"), ~At(p, "write")',
         HandsSound(p)'
  PROVE  CleanInv'
<1>1. \A t \in LoadProgress(progress').cleaned_todos : TestedTodo(t)
  BY DEF CleanInv, ReportsTested
<1> QED BY <1>1, PlainStep

\* What a tool has in its hands is tested.
LEMMA Hands ==
  ASSUME CleanInv, NEW p \in Tools
  PROVE  HandsSound(p)
BY DEF CleanInv, ReportsTested

\* The lists of ids hold no TODO of another milestone.
LEMMA OwnTodos ==
  ASSUME NEW m \in Numbers, m \in tested'
  PROVE  \A t \in ToSet(TodoIds[m]) : TestedTodo(t)'
BY SourceAssumption DEF TestedTodo

\* A tool that starts has nothing in its hands.
LEMMA AtTestsHoldsNothing ==
  ASSUME NEW p, NEW ms, NEW status, NEW cleanup, NEW pending,
         tool'[p] = AtTests(ms, status, cleanup, pending)
  PROVE  HandsSound(p)' /\ ~At(p, "write")'
<1>1. ToSet(<< >>) = {} BY DEF ToSet
<1>2. /\ tool'[p].pc = "test" /\ tool'[p].left = << >> /\ tool'[p].ids = {}
  BY DEF AtTests
<1> QED BY <1>1, <1>2 DEF HandsSound, At

\* Nor has one that has ended, or that has only to report.
LEMMA AtRestHoldsNothing ==
  ASSUME NEW p, tool'[p] = Idle \/ tool'[p].pc = "report"
  PROVE  HandsSound(p)' /\ ~At(p, "write")'
BY DEF HandsSound, At, Idle

\* Nor has one that goes on to its next milestone.
LEMMA NextHoldsNothing ==
  ASSUME ToolsOK, NEW p \in Tools, NEW failed, NextMilestone(p, failed)
  PROVE  /\ HandsSound(p)' /\ ~At(p, "write")'
         /\ \A q \in Tools \ {p} : tool'[q] = tool[q]
<1> DEFINE t == tool[p]
           pending == t.pending \/ failed
<1>1. CASE ~t.status
  <2>1. tool' = [tool EXCEPT ![p] = Idle] BY <1>1 DEF NextMilestone
  <2>2. tool'[p] = Idle /\ \A q \in Tools \ {p} : tool'[q] = tool[q] BY <2>1, Moved
  <2> QED BY <2>2, AtRestHoldsNothing
<1>2. CASE t.status /\ Len(t.milestones) = 1
  <2>1. tool' = [tool EXCEPT ![p] = [pc |-> "report", pending |-> pending]]
    BY <1>2 DEF NextMilestone
  <2>2. /\ tool'[p] = [pc |-> "report", pending |-> pending]
        /\ \A q \in Tools \ {p} : tool'[q] = tool[q]
    BY <2>1, Moved
  <2> QED BY <2>2, AtRestHoldsNothing
<1>3. CASE t.status /\ Len(t.milestones) # 1
  <2> DEFINE new == AtTests(Tail(t.milestones), TRUE, t.cleanup, pending)
  <2>1. tool' = [tool EXCEPT ![p] = new] BY <1>3 DEF NextMilestone
  <2>2. tool'[p] = new /\ \A q \in Tools \ {p} : tool'[q] = tool[q] BY <2>1, Moved
  <2> QED BY <2>2, AtTestsHoldsNothing
<1> QED BY <1>1, <1>2, <1>3

\* A tool begins.
LEMMA StartingKeepsClean ==
  ASSUME CleanInv, NEW p \in Tools, NEW ms \in Seq(Numbers), ms # << >>,
         NEW status \in BOOLEAN, NEW cleanup \in BOOLEAN, status => ToSet(ms) = Numbers,
         Starting(p, ms, status, cleanup)
  PROVE  CleanInv'
<1> DEFINE new == AtTests(ms, status, cleanup, FALSE)
<1>1. tool[p] = Idle /\ tool' = [tool EXCEPT ![p] = new] BY DEF Starting
<1>2. UNCHANGED <<disk, progress, tested, marked, cleaned, told, damaged>>
  BY DEF Starting, files, history
<1>3. CourseInv' BY StartingKeeps DEF CleanInv
<1> HIDE DEF new
<1>4. tool'[p] = new /\ \A q \in Tools \ {p} : tool'[q] = tool[q]
  BY <1>1, Moved DEF CleanInv, CourseInv
<1>5. HandsSound(p)' /\ ~At(p, "write")' BY <1>4, AtTestsHoldsNothing DEF new
<1>6. ~At(p, "write") BY <1>1 DEF At, Idle
<1> QED BY <1>2, <1>3, <1>4, <1>5, <1>6, QuietStep

\* course_status without --run-tests begins.
LEMMA StatusKeepsClean ==
  ASSUME CleanInv, NEW p \in Tools, Status(p)
  PROVE  CleanInv'
<1> DEFINE new == [pc |-> "report", pending |->
                     ToSet(Milestones) \ LoadProgress(progress).milestones_passed # {}]
<1>1. tool[p] = Idle /\ tool' = [tool EXCEPT ![p] = new] BY DEF Status
<1>2. UNCHANGED <<disk, progress, tested, marked, cleaned, told, damaged>>
  BY DEF Status, files, history
<1>3. CourseInv' BY StatusKeeps DEF CleanInv
<1>a. new.pc = "report" OBVIOUS
<1> HIDE DEF new
<1>4. tool'[p] = new /\ \A q \in Tools \ {p} : tool'[q] = tool[q]
  BY <1>1, Moved DEF CleanInv, CourseInv
<1>5. HandsSound(p)' /\ ~At(p, "write")' BY <1>4, <1>a, AtRestHoldsNothing
<1>6. ~At(p, "write") BY <1>1 DEF At, Idle
<1> QED BY <1>2, <1>3, <1>4, <1>5, <1>6, QuietStep

\* The tests pass: the code that they need is there, in the files that are whole.
LEMMA TestsKeepClean ==
  ASSUME CleanInv, NEW p \in Tools, Tests(p)
  PROVE  CleanInv'
<1> DEFINE t == tool[p]
           m == Milestone(p)
<1>1. /\ t.pc = "test" /\ UNCHANGED <<disk, progress, marked, cleaned, told, damaged>>
      /\ \/ /\ Passes(m) /\ tested' = tested \cup {m}
            /\ IF t.cleanup
               THEN tool' = [tool EXCEPT ![p].pc = "clean", ![p].left = TodoIds[m]]
               ELSE tool' = [tool EXCEPT ![p].pc = "load", ![p].ids = ToSet(TodoIds[m])]
         \/ NextMilestone(p, TRUE) /\ UNCHANGED tested
  BY DEF Tests, At, files
<1>2. CourseInv' BY TestsKeep DEF CleanInv
<1>3. ~At(p, "write") BY <1>1 DEF At
<1>t. ToolsOK BY DEF CleanInv, CourseInv
<1>4. CASE NextMilestone(p, TRUE) /\ UNCHANGED tested
  BY <1>1, <1>2, <1>3, <1>4, <1>t, NextHoldsNothing, QuietStep
<1>5. CASE /\ Passes(m) /\ tested' = tested \cup {m}
           /\ IF t.cleanup
              THEN tool' = [tool EXCEPT ![p].pc = "clean", ![p].left = TodoIds[m]]
              ELSE tool' = [tool EXCEPT ![p].pc = "load", ![p].ids = ToSet(TodoIds[m])]
  <2>1. Going(p) BY <1>1, <1>t, AtStep
  <2>2. DOMAIN t = Fields BY <2>1 DEF Going
  <2>3. m \in Numbers
    <3>1. t.milestones \in Seq(Numbers) /\ t.milestones # << >> BY <2>1 DEF Going
    <3> QED BY <3>1, FirstAndRest DEF Milestone
  <2>4. tested \subseteq tested' /\ m \in tested' BY <1>5
  <2>5. \A u \in ToSet(TodoIds[m]) : TestedTodo(u)' BY <2>3, <2>4, OwnTodos
  <2>6. \A u \in ToSet(t.left) \cup t.ids : TestedTodo(u)'
    BY <1>1, <2>4, Hands DEF HandsSound, TestedTodo
  <2>7. /\ HandsSound(p)' /\ ~At(p, "write")'
        /\ \A q \in Tools \ {p} : tool'[q] = tool[q]
    <3>1. CASE t.cleanup
      <4>1. /\ \A q \in Tools \ {p} : tool'[q] = tool[q]
            /\ tool'[p] = [t EXCEPT !.pc = "clean", !.left = TodoIds[m]]
        BY <1>5, <3>1, <1>t DEF ToolsOK
      <4>2. tool'[p].pc = "clean" /\ tool'[p].left = TodoIds[m] /\ tool'[p].ids = t.ids
        BY <4>1, <2>2 DEF Fields
      <4> QED BY <4>1, <4>2, <2>5, <2>6 DEF HandsSound, At
    <3>2. CASE ~t.cleanup
      <4>1. /\ \A q \in Tools \ {p} : tool'[q] = tool[q]
            /\ tool'[p] = [t EXCEPT !.pc = "load", !.ids = ToSet(TodoIds[m])]
        BY <1>5, <3>2, <1>t DEF ToolsOK
      <4>2. /\ tool'[p].pc = "load" /\ tool'[p].left = t.left
            /\ tool'[p].ids = ToSet(TodoIds[m])
        BY <4>1, <2>2 DEF Fields
      <4> QED BY <4>1, <4>2, <2>5, <2>6 DEF HandsSound, At
    <3> QED BY <3>1, <3>2
  <2>8. ReportsTested' BY <1>1, <2>4, <2>7, OneReports DEF CleanInv
  <2>9. HaveFiles'
    <3>1. \A u \in Exercised[m] : FileOf[u] \in DOMAIN InitialSource
      BY <1>5 DEF Passes, Working, CleanInv, CourseInv, Kept
    <3> QED BY <3>1, <1>1, <1>5 DEF HaveFiles, CleanInv
  <2>10. SourcesSound'
    <3> SUFFICES ASSUME NEW f \in DOMAIN InitialSource \ damaged PROVE FileSound(f)'
      BY <1>1 DEF SourcesSound
    <3>1. FileSound(f) BY DEF SourcesSound, CleanInv
    <3>2. \A q \in Tools : /\ Writing(q, f)' <=> Writing(q, f)
                           /\ Writing(q, f) => tool'[q] = tool[q]
      BY <1>3, <2>7 DEF Writing, At, CleanFile, Todo
    <3>3. \A u \in Exercised[m] : FileOf[u] = f => Contains(disk[f], Code(u))
      BY <1>5 DEF Passes, Working, Code
    <3>4. ASSUME NEW text, Sound(f, text), text = disk[f] \/ disk[f] = << >>
          PROVE  Sound(f, text)'
      <4>1. ASSUME disk[f] = << >>, NEW u \in Exercised[m], FileOf[u] = f PROVE FALSE
        BY <3>3, <4>1 DEF Contains
      <4>2. \A u \in Exercised[m] : FileOf[u] = f => Contains(text, Code(u))
        BY <3>3, <3>4, <4>1
      <4> QED BY <3>4, <4>2, <1>1, <1>5 DEF Sound
    <3> QED BY <1>1, <3>1, <3>2, <3>4 DEF FileSound
  <2> QED BY <1>2, <2>8, <2>9, <2>10 DEF CleanInv
<1> QED BY <1>1, <1>4, <1>5

\* The TODO at hand is one of a milestone that is tested.
LEMMA TodoCleanedHands ==
  ASSUME CleanInv, NEW p \in Tools, tool[p].pc \in {"clean", "write"}, tool[p].left # << >>,
         UNCHANGED tested, TodoCleaned(p)
  PROVE  /\ HandsSound(p)' /\ ~At(p, "write")'
         /\ \A q \in Tools \ {p} : tool'[q] = tool[q]
<1> DEFINE t == tool[p]
           rest == Tail(t.left)
<1>t. ToolsOK BY DEF CleanInv, CourseInv
<1>1. DOMAIN t = Fields /\ t.left \in Seq(Ids) BY <1>t, AtStep DEF Going
<1>2. ToSet(t.left) = {Todo(p)} \cup ToSet(rest) BY <1>1, FirstAndRest DEF Todo
<1> HIDE DEF rest
<1>3. /\ \A q \in Tools \ {p} : tool'[q] = tool[q]
      /\ tool'[p] = [t EXCEPT !.pc = "clean", !.left = rest, !.read = NoFile,
                              !.ids = @ \cup {Todo(p)}]
  BY <1>t DEF ToolsOK, TodoCleaned, rest
<1>4. tool'[p].pc = "clean" /\ tool'[p].left = rest /\ tool'[p].ids = t.ids \cup {Todo(p)}
  <2> HIDE DEF t
  <2> QED BY <1>1, <1>3 DEF Fields
<1>5. \A u \in ToSet(t.left) \cup t.ids : TestedTodo(u)' BY Hands DEF HandsSound, TestedTodo
<1> QED BY <1>2, <1>3, <1>4, <1>5 DEF HandsSound, At

\* An id is passed over.
LEMMA SkipTodoKeepsClean ==
  ASSUME CleanInv, NEW p \in Tools, SkipTodo(p)
  PROVE  CleanInv'
<1> DEFINE t == tool[p]
           rest == Tail(t.left)
<1>1. /\ t.pc = "clean" /\ t.left # << >>
      /\ UNCHANGED <<disk, progress, tested, marked, cleaned, told, damaged>>
      /\ \/ tool' = [tool EXCEPT ![p].left = Tail(@)]
         \/ TodoCleaned(p)
  BY DEF SkipTodo, At, files, history
<1>2. CourseInv' BY SkipTodoKeeps DEF CleanInv
<1>3. ~At(p, "write") BY <1>1 DEF At
<1>4. /\ HandsSound(p)' /\ ~At(p, "write")'
      /\ \A q \in Tools \ {p} : tool'[q] = tool[q]
  <2>t. ToolsOK BY DEF CleanInv, CourseInv
  <2>1. CASE tool' = [tool EXCEPT ![p].left = Tail(@)]
    <3>1. /\ \A q \in Tools \ {p} : tool'[q] = tool[q]
          /\ tool'[p] = [t EXCEPT !.left = rest]
      BY <2>1, <2>t DEF ToolsOK
    <3>2. DOMAIN t = Fields /\ t.left \in Seq(Ids) BY <1>1, <2>t, AtStep DEF Going
    <3>3. ToSet(rest) \subseteq ToSet(t.left) BY <1>1, <3>2, FirstAndRest
    <3> HIDE DEF rest
    <3>4. tool'[p].pc = "clean" /\ tool'[p].left = rest /\ tool'[p].ids = t.ids
      <4> HIDE DEF t
      <4>1. t.pc = "clean" BY <1>1
      <4> QED BY <3>1, <3>2, <4>1 DEF Fields
    <3>5. \A u \in ToSet(t.left) \cup t.ids : TestedTodo(u)'
      BY <1>1, Hands DEF HandsSound, TestedTodo
    <3> QED BY <3>1, <3>3, <3>4, <3>5 DEF HandsSound, At
  <2>2. CASE TodoCleaned(p) BY <2>2, <1>1, TodoCleanedHands
  <2> QED BY <1>1, <2>1, <2>2
<1> QED BY <1>1, <1>2, <1>3, <1>4, QuietStep

\* Nothing is left to clean.
LEMMA CleanupDoneKeepsClean ==
  ASSUME CleanInv, NEW p \in Tools, CleanupDone(p)
  PROVE  CleanInv'
<1> DEFINE t == tool[p]
<1>1. /\ t.pc = "clean" /\ tool' = [tool EXCEPT ![p].pc = "load"]
      /\ UNCHANGED <<disk, progress, tested, marked, cleaned, told, damaged>>
  BY DEF CleanupDone, At, GoTo, files, history
<1>2. CourseInv' BY CleanupDoneKeeps DEF CleanInv
<1>t. ToolsOK BY DEF CleanInv, CourseInv
<1>3. /\ \A q \in Tools \ {p} : tool'[q] = tool[q]
      /\ tool'[p] = [t EXCEPT !.pc = "load"]
  BY <1>1, <1>t DEF ToolsOK
<1>4. DOMAIN t = Fields BY <1>1, <1>t, AtStep DEF Going
<1>5. tool'[p].pc = "load" /\ tool'[p].left = t.left /\ tool'[p].ids = t.ids
  BY <1>3, <1>4 DEF Fields
<1>6. HandsSound(p)' BY <1>1, <1>5, Hands DEF HandsSound, TestedTodo
<1> QED BY <1>1, <1>2, <1>3, <1>5, <1>6, QuietStep DEF At

\* The record is loaded.
LEMMA LoadKeepsClean ==
  ASSUME CleanInv, NEW p \in Tools, Load(p)
  PROVE  CleanInv'
<1> DEFINE t == tool[p]
           data == LoadProgress(progress)
<1>1. /\ t.pc = "load" /\ tool' = [tool EXCEPT ![p].pc = "save", ![p].read = data]
      /\ UNCHANGED <<disk, progress, tested, marked, cleaned, told>>
      /\ damaged \subseteq damaged'
  BY DEF Load, At, files
<1>d. \A u \in data.cleaned_todos : TestedTodo(u) BY DEF CleanInv, ReportsTested
<1> HIDE DEF data
<1>2. CourseInv' BY LoadKeeps DEF CleanInv
<1>t. ToolsOK BY DEF CleanInv, CourseInv
<1>3. /\ \A q \in Tools \ {p} : tool'[q] = tool[q]
      /\ tool'[p] = [t EXCEPT !.pc = "save", !.read = data]
  BY <1>1, <1>t DEF ToolsOK
<1>4. DOMAIN t = Fields BY <1>1, <1>t, AtStep DEF Going
<1>5. /\ tool'[p].pc = "save" /\ tool'[p].left = t.left /\ tool'[p].ids = t.ids
      /\ tool'[p].read = data
  BY <1>3, <1>4 DEF Fields
<1>6. HandsSound(p)' BY <1>1, <1>5, <1>d, Hands DEF HandsSound, TestedTodo
<1> QED BY <1>1, <1>2, <1>3, <1>5, <1>6, QuietStep DEF At

\* The progress file is truncated.
LEMMA TruncateProgressKeepsClean ==
  ASSUME CleanInv, NEW p \in Tools, TruncateProgress(p)
  PROVE  CleanInv'
<1> DEFINE t == tool[p]
<1>1. /\ t.pc = "save" /\ tool' = [tool EXCEPT ![p].pc = "saving"]
      /\ UNCHANGED <<disk, tested, marked, cleaned, told>>
      /\ damaged \subseteq damaged' /\ progress' = Cut
  BY DEF TruncateProgress, At, GoTo
<1>2. CourseInv' BY TruncateProgressKeeps DEF CleanInv
<1>t. ToolsOK BY DEF CleanInv, CourseInv
<1>3. /\ \A q \in Tools \ {p} : tool'[q] = tool[q]
      /\ tool'[p] = [t EXCEPT !.pc = "saving"]
  BY <1>1, <1>t DEF ToolsOK
<1>4. DOMAIN t = Fields BY <1>1, <1>t, AtStep DEF Going
<1>5. /\ tool'[p].pc = "saving" /\ tool'[p].left = t.left /\ tool'[p].ids = t.ids
      /\ tool'[p].read = t.read
  BY <1>3, <1>4 DEF Fields
<1>6. HandsSound(p)' BY <1>1, <1>5, Hands DEF HandsSound, TestedTodo
<1>7. LoadProgress(progress').cleaned_todos = {} BY <1>1 DEF LoadProgress, NoProgress
<1> QED BY <1>1, <1>2, <1>3, <1>5, <1>6, <1>7, PlainStep DEF At

\* The record is written: its TODOs are those that were read and those that the tool has.
LEMMA WriteProgressKeepsClean ==
  ASSUME CleanInv, NEW p \in Tools, WriteProgress(p)
  PROVE  CleanInv'
<1> DEFINE t == tool[p]
           m == Milestone(p)
           data == Mark(t.read, m, t.ids)
<1>1. /\ t.pc = "saving" /\ progress' = data /\ NextMilestone(p, FALSE)
      /\ UNCHANGED <<disk, tested, cleaned, told, damaged>>
  BY DEF WriteProgress, At
<1>2. CourseInv' BY WriteProgressKeeps DEF CleanInv
<1>t. ToolsOK BY DEF CleanInv, CourseInv
<1>3. Going(p) BY <1>1, <1>t, AtStep
<1>4. m \in Numbers
  <2>1. t.milestones \in Seq(Numbers) /\ t.milestones # << >> BY <1>3 DEF Going
  <2> QED BY <2>1, FirstAndRest DEF Milestone
<1>5. IsProgress(t.read) /\ t.ids \in SUBSET Ids BY <1>1, <1>3 DEF Going
<1>6. LoadProgress(data).cleaned_todos = t.read.cleaned_todos \cup t.ids
  <2>1. LoadProgress(data) = data BY <1>4, <1>5, Marks
  <2> QED BY <2>1 DEF Mark
<1> HIDE DEF data
<1>7. \A u \in LoadProgress(progress').cleaned_todos : TestedTodo(u)
  BY <1>1, <1>6, Hands DEF HandsSound
<1>8. /\ HandsSound(p)' /\ ~At(p, "write")'
      /\ \A q \in Tools \ {p} : tool'[q] = tool[q]
  BY <1>1, <1>t, NextHoldsNothing
<1> QED BY <1>1, <1>2, <1>7, <1>8, PlainStep DEF At

\* course_status says what it has found.
LEMMA ReportKeepsClean ==
  ASSUME CleanInv, NEW p \in Tools, Report(p)
  PROVE  CleanInv'
<1>1. /\ tool[p].pc = "report" /\ tool' = [tool EXCEPT ![p] = Idle]
      /\ UNCHANGED <<disk, progress, tested, marked, cleaned, damaged>>
  BY DEF Report, At, files
<1>2. CourseInv' BY ReportKeeps DEF CleanInv
<1>3. tool'[p] = Idle /\ \A q \in Tools \ {p} : tool'[q] = tool[q]
  BY <1>1, Moved DEF CleanInv, CourseInv
<1> QED BY <1>1, <1>2, <1>3, AtRestHoldsNothing, QuietStep DEF At

\* A tool is interrupted: a source that it was writing is not whole any more.
LEMMA InterruptKeepsClean ==
  ASSUME CleanInv, NEW p \in Tools, Interrupt(p)
  PROVE  CleanInv'
<1>1. /\ tool' = [tool EXCEPT ![p] = Idle]
      /\ UNCHANGED <<disk, progress, tested, marked, cleaned, told>>
      /\ damaged \subseteq damaged' /\ (At(p, "write") => CleanFile(p) \in damaged')
  BY DEF Interrupt, files
<1>2. CourseInv' BY InterruptKeeps DEF CleanInv
<1>3. tool'[p] = Idle /\ \A q \in Tools \ {p} : tool'[q] = tool[q]
  BY <1>1, Moved DEF CleanInv, CourseInv
<1>4. HandsSound(p)' /\ ~At(p, "write")' BY <1>3, AtRestHoldsNothing
<1>5. HaveFiles' BY <1>1 DEF HaveFiles, CleanInv
<1>6. ReportsTested' BY <1>1, <1>3, <1>4, OneReports DEF CleanInv
<1>7. SourcesSound'
  <2> SUFFICES ASSUME NEW f \in DOMAIN InitialSource \ damaged' PROVE FileSound(f)'
    BY DEF SourcesSound
  <2>1. FileSound(f) BY <1>1 DEF SourcesSound, CleanInv
  <2>2. ~Writing(p, f) BY <1>1 DEF Writing
  <2>3. \A q \in Tools : /\ Writing(q, f)' <=> Writing(q, f)
                         /\ Writing(q, f) => tool'[q] = tool[q]
    BY <1>3, <1>4, <2>2 DEF Writing, At, CleanFile, Todo
  <2>4. \A text : Sound(f, text) => Sound(f, text)' BY <1>1 DEF Sound
  <2> QED BY <1>1, <2>1, <2>3, <2>4 DEF FileSound
<1> QED BY <1>2, <1>5, <1>6, <1>7 DEF CleanInv

\* A sound text stays sound when a tested TODO is cleaned from it.
LEMMA CleanedIsSound ==
  ASSUME NEW f, NEW text, Sound(f, text), NEW t \in Todos, MilestoneOf[t] \in tested,
         FileOf[t] = f, UNCHANGED tested, cleaned' = cleaned \cup {t}
  PROVE  Sound(f, Cleaned(text, t))'
<1> DEFINE new == Cleaned(text, t)
<1>1. text \in Seq(Lines) /\ Scaffolded(text) BY DEF Sound
<1>2. /\ new \in Seq(Lines) /\ Scaffolded(new)
      /\ ~TodoMarkerPresent(new, t)
      /\ \A u : TodoMarkerPresent(new, u) => TodoMarkerPresent(text, u)
      /\ \A u : Contains(text, Code(u)) => Contains(new, Code(u))
      /\ \A u : u # t /\ Contains(text, Argument(u)) => Contains(new, Argument(u))
  BY <1>1, CleanedText
<1> HIDE DEF new
<1>3. ASSUME NEW u \in Todos, FileOf[u] = f
      PROVE  /\ u \in cleaned' => ~TodoMarkerPresent(new, u)
             /\ \A m \in tested' : u \in Exercised[m] => Contains(new, Code(u))
             /\ u \in Exercised[MilestoneOf[u]] =>
                  Contains(new, Argument(u)) \/ Contains(new, Code(u))
  <2>1. u \in cleaned' => ~TodoMarkerPresent(new, u) BY <1>2, <1>3 DEF Sound
  <2>2. \A m \in tested : u \in Exercised[m] => Contains(text, Code(u)) BY <1>3 DEF Sound
  <2>3. u \in Exercised[MilestoneOf[u]] => Contains(text, Argument(u)) \/ Contains(text, Code(u))
    BY <1>3 DEF Sound
  <2>4. u \in Exercised[MilestoneOf[u]] => Contains(new, Argument(u)) \/ Contains(new, Code(u))
    <3>1. CASE u = t BY <3>1, <2>2, <1>2
    <3>2. CASE u # t BY <3>2, <2>3, <1>2
    <3> QED BY <3>1, <3>2
  <2> QED BY <2>1, <2>2, <2>4, <1>2
<1>4. Sound(f, new)' BY <1>2, <1>3 DEF Sound
<1> QED BY <1>4 DEF new

\* What happens to the other files, when one is read, truncated or written.
LEMMA OtherFiles ==
  ASSUME CleanInv, NEW p \in Tools, \A q \in Tools \ {p} : tool'[q] = tool[q],
         NEW t \in Todos, cleaned' \in {cleaned, cleaned \cup {t}}, UNCHANGED tested,
         \A g : Writing(p, g) \/ Writing(p, g)' => g = FileOf[t],
         damaged \subseteq damaged',
         NEW g \in DOMAIN InitialSource \ damaged', g # FileOf[t], disk'[g] = disk[g]
  PROVE  FileSound(g)'
<1>1. FileSound(g) BY DEF SourcesSound, CleanInv
<1>2. \A q \in Tools : /\ Writing(q, g)' <=> Writing(q, g)
                       /\ Writing(q, g) => tool'[q] = tool[q]
  BY DEF Writing, At, CleanFile, Todo
<1>3. \A text : Sound(g, text) => Sound(g, text)' BY DEF Sound
<1> QED BY <1>1, <1>2, <1>3 DEF FileSound

\* The source is read: it needs no cleaning, or is going to be written.
LEMMA ReadSourceKeepsClean ==
  ASSUME CleanInv, NEW p \in Tools, ReadSource(p)
  PROVE  CleanInv'
<1> DEFINE t == tool[p]
           f == CleanFile(p)
           text == disk[f]
<1>1. /\ t.pc = "clean" /\ t.left # << >> /\ Todo(p) \in Todos /\ f \in DOMAIN disk
      /\ UNCHANGED <<disk, progress, tested, marked, told>>
      /\ damaged \subseteq damaged' /\ (text = << >> => f \in damaged')
      /\ \/ Cleaned(text, Todo(p)) = text /\ TodoCleaned(p) /\ cleaned' = cleaned \cup {Todo(p)}
         \/ /\ Cleaned(text, Todo(p)) # text /\ cleaned' = cleaned
            /\ tool' = [tool EXCEPT ![p].pc = "truncate", ![p].read = text]
  BY DEF ReadSource, At, files
<1>2. CourseInv' BY ReadSourceKeeps DEF CleanInv
<1>3. ~At(p, "write") BY <1>1 DEF At
<1>t. ToolsOK /\ DOMAIN disk = DOMAIN InitialSource BY DEF CleanInv, CourseInv, Kept
<1>4. FileOf[Todo(p)] = f /\ f \in DOMAIN InitialSource BY <1>1, <1>t DEF CleanFile
<1> HIDE DEF f
<1>5. CASE Cleaned(text, Todo(p)) = text /\ TodoCleaned(p) /\ cleaned' = cleaned \cup {Todo(p)}
  <2>1. /\ HandsSound(p)' /\ ~At(p, "write")'
        /\ \A q \in Tools \ {p} : tool'[q] = tool[q]
    BY <1>1, <1>5, TodoCleanedHands
  <2>2. HaveFiles' BY <1>1, <1>4, <1>5 DEF HaveFiles, CleanInv
  <2>3. ReportsTested' BY <1>1, <2>1, OneReports DEF CleanInv
  <2>4. ASSUME NEW g \in DOMAIN InitialSource \ damaged' PROVE FileSound(g)'
    <3>1. CASE g # f BY <3>1, <1>1, <1>3, <1>4, <1>5, <2>1, OtherFiles DEF Writing
    <3>2. CASE g = f
      <4>1. disk[g] # << >> /\ FileSound(g) BY <3>2, <1>1 DEF SourcesSound, CleanInv
      <4>2. Sound(g, disk[g]) /\ \A q \in Tools : ~Writing(q, g) BY <4>1 DEF FileSound
      <4>3. PICK old, u : old = disk[g] /\ u = Todo(p) OBVIOUS
      <4>4. u \in Todos /\ FileOf[u] = g /\ Cleaned(old, u) = old /\ cleaned' = cleaned \cup {u}
        BY <4>3, <3>2, <1>1, <1>4, <1>5
      <4>5. MilestoneOf[u] \in tested
        <5>1. t.left \in Seq(Ids) BY <1>1, <1>t, AtStep DEF Going
        <5>2. u \in ToSet(t.left) BY <4>3, <5>1, <1>1, FirstAndRest DEF Todo
        <5> QED BY <5>2, <4>4, <1>1, Hands DEF HandsSound, TestedTodo
      <4>6. Sound(g, old)' BY <4>2, <4>3, <4>4, <4>5, <1>1, CleanedIsSound DEF Sound
      <4>7. Sound(g, disk[g])' BY <4>3, <4>6, <1>1 DEF Sound
      <4>8. \A q \in Tools : ~Writing(q, g)'
        BY <4>2, <2>1 DEF Writing, At, CleanFile, Todo
      <4> QED BY <4>7, <4>8 DEF FileSound
    <3> QED BY <3>1, <3>2
  <2> QED BY <1>2, <2>2, <2>3, <2>4 DEF CleanInv, SourcesSound
<1>6. CASE /\ Cleaned(text, Todo(p)) # text /\ cleaned' = cleaned
           /\ tool' = [tool EXCEPT ![p].pc = "truncate", ![p].read = text]
  <2> HIDE DEF text
  <2>1. /\ \A q \in Tools \ {p} : tool'[q] = tool[q]
        /\ tool'[p] = [t EXCEPT !.pc = "truncate", !.read = text]
    BY <1>6, <1>t DEF ToolsOK
  <2>2. DOMAIN t = Fields BY <1>1, <1>t, AtStep DEF Going
  <2>3. /\ tool'[p].pc = "truncate" /\ tool'[p].left = t.left /\ tool'[p].ids = t.ids
        /\ tool'[p].read = text
    BY <2>1, <2>2 DEF Fields
  <2>4. text # << >> BY <1>6, NothingToClean
  <2>5. HandsSound(p)' BY <1>1, <2>3, <2>4, Hands DEF HandsSound, TestedTodo
  <2> QED BY <1>1, <1>2, <1>3, <1>6, <2>1, <2>3, <2>5, QuietStep DEF At
<1> QED BY <1>1, <1>5, <1>6

\* The source is truncated: if it is what was read, nobody else is writing it.
LEMMA TruncateSourceKeepsClean ==
  ASSUME CleanInv, NEW p \in Tools, TruncateSource(p)
  PROVE  CleanInv'
<1> DEFINE t == tool[p]
           f == CleanFile(p)
<1>1. /\ t.pc = "truncate" /\ tool' = [tool EXCEPT ![p].pc = "write"]
      /\ UNCHANGED <<progress, tested, marked, cleaned, told>>
      /\ damaged \subseteq damaged' /\ (disk[f] # t.read => f \in damaged')
      /\ disk' = [disk EXCEPT ![f] = << >>]
  BY DEF TruncateSource, At, GoTo
<1>2. CourseInv' BY TruncateSourceKeeps DEF CleanInv
<1>t. ToolsOK /\ DOMAIN disk = DOMAIN InitialSource BY DEF CleanInv, CourseInv, Kept
<1>3. /\ \A q \in Tools \ {p} : tool'[q] = tool[q]
      /\ tool'[p] = [t EXCEPT !.pc = "write"]
  BY <1>1, <1>t DEF ToolsOK
<1>4. DOMAIN t = Fields /\ Todo(p) \in Todos BY <1>1, <1>t, AtStep DEF Going, Todo
<1>5. /\ tool'[p].pc = "write" /\ tool'[p].left = t.left /\ tool'[p].ids = t.ids
      /\ tool'[p].read = t.read
  BY <1>3, <1>4 DEF Fields
<1>6. HandsSound(p)' BY <1>1, <1>5, Hands DEF HandsSound, TestedTodo
<1>7. HaveFiles' BY <1>1 DEF HaveFiles, CleanInv
<1>8. ReportsTested' BY <1>1, <1>3, <1>6, OneReports DEF CleanInv
<1>9. FileOf[Todo(p)] = f /\ CleanFile(p)' = f BY <1>5 DEF CleanFile, Todo
<1> HIDE DEF f
<1>10. ASSUME NEW g \in DOMAIN InitialSource \ damaged' PROVE FileSound(g)'
  <2>1. CASE g # f
    <3>1. disk'[g] = disk[g] BY <2>1, <1>1, <1>t
    <3>2. \A h : Writing(p, h) \/ Writing(p, h)' => h = FileOf[Todo(p)]
      BY <1>9 DEF Writing, f
    <3> QED BY <2>1, <3>1, <3>2, <1>1, <1>3, <1>4, <1>9, OtherFiles
  <2>2. CASE g = f
    <3>1. disk[g] = t.read /\ FileSound(g) BY <2>2, <1>1 DEF SourcesSound, CleanInv
    <3>2. t.read # << >> BY <1>1, Hands DEF HandsSound
    <3>3. Sound(g, t.read) /\ \A q \in Tools : ~Writing(q, g) BY <3>1, <3>2 DEF FileSound
    <3>4. Sound(g, tool[p].read)' BY <3>3, <1>1, <1>5 DEF Sound
    <3>5. disk'[g] = << >> BY <2>2, <1>1, <1>t
    <3>6. \A q \in Tools : Writing(q, g)' => q = p
      BY <3>3, <1>3 DEF Writing, At, CleanFile, Todo
    <3>7. Writing(p, g)' BY <2>2, <1>5, <1>9 DEF Writing, At
    <3> QED BY <3>4, <3>5, <3>6, <3>7 DEF FileSound
  <2> QED BY <2>1, <2>2
<1> QED BY <1>2, <1>7, <1>8, <1>10 DEF CleanInv, SourcesSound

\* The source is written: what was read, without the scaffolding of the TODO.
LEMMA WriteSourceKeepsClean ==
  ASSUME CleanInv, NEW p \in Tools, WriteSource(p)
  PROVE  CleanInv'
<1> DEFINE t == tool[p]
           f == CleanFile(p)
           text == Cleaned(t.read, Todo(p))
<1>1. /\ t.pc = "write" /\ TodoCleaned(p)
      /\ UNCHANGED <<progress, tested, marked, told, damaged>>
      /\ cleaned' = cleaned \cup {Todo(p)}
      /\ disk' = [disk EXCEPT ![f] = text]
  BY DEF WriteSource, At
<1> HIDE DEF text
<1>2. CourseInv' BY WriteSourceKeeps DEF CleanInv
<1>t. ToolsOK /\ DOMAIN disk = DOMAIN InitialSource BY DEF CleanInv, CourseInv, Kept
<1>3. /\ t.left \in Seq(Ids) /\ t.left # << >> /\ Todo(p) \in Todos
      /\ f \in DOMAIN InitialSource
  BY <1>1, <1>t, AtStep DEF Going, Todo, CleanFile
<1>4. /\ HandsSound(p)' /\ ~At(p, "write")'
      /\ \A q \in Tools \ {p} : tool'[q] = tool[q]
  BY <1>1, <1>3, TodoCleanedHands
<1>5. FileOf[Todo(p)] = f BY DEF CleanFile
<1>6. HaveFiles' BY <1>1, <1>3, <1>5 DEF HaveFiles, CleanInv
<1>7. ReportsTested' BY <1>1, <1>4, OneReports DEF CleanInv
<1>w. Writing(p, f) /\ \A h : Writing(p, h) => h = f BY <1>1 DEF Writing, At
<1> HIDE DEF f
<1>8. ASSUME NEW g \in DOMAIN InitialSource \ damaged' PROVE FileSound(g)'
  <2>1. CASE g # f
    <3>1. disk'[g] = disk[g] BY <2>1, <1>1, <1>t
    <3>2. \A h : Writing(p, h) \/ Writing(p, h)' => h = FileOf[Todo(p)]
      BY <1>4, <1>5, <1>w DEF Writing
    <3> QED BY <2>1, <3>1, <3>2, <1>1, <1>3, <1>4, <1>5, OtherFiles
  <2>2. CASE g = f
    <3>1. FileSound(g) BY <1>1 DEF SourcesSound, CleanInv
    <3>2. Sound(g, t.read) /\ \A q \in Tools : Writing(q, g) => q = p
      BY <3>1, <2>2, <1>w DEF FileSound
    <3>3. PICK old, u : old = t.read /\ u = Todo(p) OBVIOUS
    <3>4. u \in Todos /\ FileOf[u] = g /\ cleaned' = cleaned \cup {u}
          /\ disk'[g] = Cleaned(old, u)
      BY <3>3, <2>2, <1>1, <1>3, <1>5, <1>t DEF text
    <3>5. MilestoneOf[u] \in tested
      <4>1. u \in ToSet(t.left) BY <3>3, <1>3, FirstAndRest DEF Todo
      <4> QED BY <4>1, <3>4, <1>1, Hands DEF HandsSound, TestedTodo
    <3>6. Sound(g, Cleaned(old, u))' BY <3>2, <3>3, <3>4, <3>5, <1>1, CleanedIsSound
    <3>7. Sound(g, disk[g])'
      <4>1. PICK new : new = Cleaned(old, u) OBVIOUS
      <4>2. Sound(g, new)' BY <3>6, <4>1
      <4> QED BY <4>1, <4>2, <3>4 DEF Sound
    <3>8. \A q \in Tools : ~Writing(q, g)'
      BY <3>2, <2>2, <1>4 DEF Writing, At, CleanFile, Todo
    <3> QED BY <3>7, <3>8 DEF FileSound
  <2> QED BY <2>1, <2>2
<1> QED BY <1>2, <1>6, <1>7, <1>8 DEF CleanInv, SourcesSound

\* The student's code comes into a source that nobody is writing.
LEMMA ImplementKeepsClean ==
  ASSUME CleanInv, NEW t \in Todos, NEW tidy \in BOOLEAN, Implement(t, tidy)
  PROVE  CleanInv'
<1> DEFINE f == FileOf[t]
           text == disk[f]
           code == Line("code", t)
           new == IF tidy \/ RaiseOf(text, t) = {} THEN Append(Cleaned(text, t), code)
                  ELSE InsertAt(text, CHOOSE i \in RaiseOf(text, t) : TRUE, code)
<1>1. /\ f \in DOMAIN disk /\ text # << >>
      /\ UNCHANGED <<progress, tool, tested, marked, cleaned, told, damaged>>
      /\ disk' = [disk EXCEPT ![f] = new]
  BY DEF Implement, history
<1>2. CourseInv' BY ImplementKeeps DEF CleanInv
<1>3. HaveFiles' BY <1>1 DEF HaveFiles, CleanInv
<1>4. ReportsTested'
  <2>1. \A q \in Tools : HandsSound(q)' BY <1>1, HandsStay DEF CleanInv, ReportsTested
  <2> QED BY <2>1, <1>1 DEF CleanInv, ReportsTested, LoadProgress, TestedTodo
<1>5. \A g : \A q \in Tools : Writing(q, g)' <=> Writing(q, g)
  BY <1>1 DEF Writing, At, CleanFile, Todo
<1>6. \A g, old : Sound(g, old) => Sound(g, old)' BY <1>1 DEF Sound
<1>7. ASSUME Sound(f, text) PROVE Sound(f, new)
  <2>1. text \in Seq(Lines) /\ Scaffolded(text) BY <1>7 DEF Sound
  <2>2. code = Code(t) BY DEF Code
  <2> HIDE DEF text, f, code
  <2>3. /\ new \in Seq(Lines) /\ Scaffolded(new)
        /\ \A u : TodoMarkerPresent(new, u) => TodoMarkerPresent(text, u)
        /\ \A u : Contains(text, Code(u)) => Contains(new, Code(u))
        /\ \A u : u # t /\ Contains(text, Argument(u)) => Contains(new, Argument(u))
        /\ Contains(new, Code(t))
    <3>1. CASE tidy \/ RaiseOf(text, t) = {}
      <4> DEFINE clean == Cleaned(text, t)
      <4>1. /\ clean \in Seq(Lines) /\ Scaffolded(clean)
            /\ \A u : TodoMarkerPresent(clean, u) => TodoMarkerPresent(text, u)
            /\ \A u : Contains(text, Code(u)) => Contains(clean, Code(u))
            /\ \A u : u # t /\ Contains(text, Argument(u)) => Contains(clean, Argument(u))
        BY <2>1, CleanedText
      <4> HIDE DEF clean
      <4> DEFINE added == Append(clean, Code(t))
      <4>2. /\ added \in Seq(Lines) /\ Scaffolded(added)
            /\ \A u : TodoMarkerPresent(added, u) => TodoMarkerPresent(clean, u)
            /\ \A line : Contains(clean, line) => Contains(added, line)
            /\ Contains(added, Code(t))
        BY <4>1, Implemented
      <4>3. new = added BY <3>1, <2>2 DEF clean
      <4> HIDE DEF added, new
      <4> QED BY <4>1, <4>2, <4>3
    <3>2. CASE ~(tidy \/ RaiseOf(text, t) = {})
      <4> DEFINE i == CHOOSE i \in RaiseOf(text, t) : TRUE
                 added == InsertAt(text, i, Code(t))
      <4>1. i \in RaiseOf(text, t) BY <3>2
      <4>2. new = added BY <3>2, <2>2
      <4> HIDE DEF i
      <4>3. /\ added \in Seq(Lines) /\ Scaffolded(added)
            /\ \A u : TodoMarkerPresent(added, u) => TodoMarkerPresent(text, u)
            /\ \A line : Contains(text, line) => Contains(added, line)
            /\ Contains(added, Code(t))
        BY <4>1, <2>1, Implemented
      <4> HIDE DEF added, new
      <4> QED BY <4>2, <4>3
    <3> QED BY <3>1, <3>2
  <2> HIDE DEF new
  <2>4. ASSUME NEW u \in Todos, FileOf[u] = f, u \in Exercised[MilestoneOf[u]]
        PROVE  Contains(new, Argument(u)) \/ Contains(new, Code(u))
    <3>1. Contains(text, Argument(u)) \/ Contains(text, Code(u)) BY <1>7, <2>4 DEF Sound
    <3> QED BY <3>1, <2>3
  <2> QED BY <1>7, <2>3, <2>4 DEF Sound
<1> HIDE DEF new
<1>8. ASSUME NEW g \in DOMAIN InitialSource \ damaged PROVE FileSound(g)'
  <2>1. FileSound(g) BY DEF SourcesSound, CleanInv
  <2>2. CASE g # f
    <3>1. disk'[g] = disk[g] BY <2>2, <1>1, <1>2 DEF CleanInv, CourseInv, Kept
    <3> QED BY <2>1, <3>1, <1>1, <1>5, <1>6 DEF FileSound
  <2>3. CASE g = f
    <3>1. Sound(f, text) /\ \A q \in Tools : ~Writing(q, f) BY <2>1, <2>3, <1>1 DEF FileSound
    <3>2. disk'[f] = new BY <1>1
    <3>3. Sound(f, disk'[f]) BY <3>1, <3>2, <1>7
    <3>4. Sound(f, disk[f])' BY <3>3, <1>1 DEF Sound
    <3> QED BY <2>3, <3>1, <3>4, <1>5 DEF FileSound
  <2> QED BY <2>2, <2>3
<1> QED BY <1>1, <1>2, <1>3, <1>4, <1>8 DEF CleanInv, SourcesSound

----------------------------------------------------------------------------
(***************************************************************************)
(* The theorems about the sources.                                         *)
(***************************************************************************)

\* The student branch is sound.
LEMMA InitCleanInv == Init => CleanInv
<1> SUFFICES ASSUME Init PROVE CleanInv OBVIOUS
<1>1. CourseInv BY InitCourseInv
<1>2. HaveFiles BY DEF HaveFiles, Init
<1>3. LoadProgress(progress).cleaned_todos = {} BY DEF Init, LoadProgress, NoProgress
<1>4. \A p \in Tools : tool[p].pc = "idle" BY DEF Init, Idle
<1>5. ReportsTested BY <1>3, <1>4 DEF ReportsTested, HandsSound
<1>6. \A f \in DOMAIN InitialSource : Sound(f, disk[f])
  BY SourceAssumption DEF Sound, Init, Code, Argument
<1>7. SourcesSound BY <1>4, <1>6 DEF SourcesSound, FileSound, Writing, At
<1> QED BY <1>1, <1>2, <1>5, <1>7 DEF CleanInv

\* Every step keeps it: one lemma for every action.
LEMMA NextKeepsCleanInv == CleanInv /\ [Next]_vars => CleanInv'
<1> SUFFICES ASSUME CleanInv, [Next]_vars PROVE CleanInv' OBVIOUS
<1>1. ASSUME NEW p \in Tools, ToolStep(p) PROVE CleanInv'
  <2>1. ASSUME NEW cleanup \in BOOLEAN, NEW m \in ToSet(Milestones), RunMilestone(p, m, cleanup)
        PROVE  CleanInv'
    <3>1. <<m>> \in Seq(Numbers) /\ <<m>> # << >> BY DEF Numbers
    <3> QED BY <2>1, <3>1, StartingKeepsClean DEF RunMilestone
  <2>2. ASSUME NEW cleanup \in BOOLEAN, StatusWithTests(p, cleanup) PROVE CleanInv'
    BY <2>2, Lists, StartingKeepsClean DEF StatusWithTests
  <2> QED BY <1>1, <2>1, <2>2, StatusKeepsClean, TestsKeepClean, SkipTodoKeepsClean,
             ReadSourceKeepsClean, TruncateSourceKeepsClean, WriteSourceKeepsClean,
             CleanupDoneKeepsClean, LoadKeepsClean, TruncateProgressKeepsClean,
             WriteProgressKeepsClean, ReportKeepsClean, InterruptKeepsClean
          DEF ToolStep
<1>2. CASE \E t \in Todos, tidy \in BOOLEAN : Implement(t, tidy) BY <1>2, ImplementKeepsClean
<1>3. CASE UNCHANGED vars
  <2>1. UNCHANGED <<disk, progress, tool, tested, marked, cleaned, told, damaged>>
    BY <1>3 DEF vars, files, history
  <2>2. CourseInv' BY NextKeepsCourseInv DEF CleanInv
  <2>3. HaveFiles' BY <2>1 DEF HaveFiles, CleanInv
  <2>4. ReportsTested'
    <3>1. \A q \in Tools : HandsSound(q)' BY <2>1, HandsStay DEF CleanInv, ReportsTested
    <3> QED BY <3>1, <2>1 DEF CleanInv, ReportsTested, LoadProgress, TestedTodo
  <2>5. SourcesSound'
    <3>1. \A g : \A q \in Tools : Writing(q, g)' <=> Writing(q, g)
      BY <2>1 DEF Writing, At, CleanFile, Todo
    <3>2. \A g, old : Sound(g, old) => Sound(g, old)' BY <2>1 DEF Sound
    <3> QED BY <2>1, <3>1, <3>2 DEF SourcesSound, FileSound, CleanInv
  <2> QED BY <2>2, <2>3, <2>4, <2>5 DEF CleanInv
<1> QED BY <1>1, <1>2, <1>3 DEF Next

\* In every reachable state, a source that no tool left half written or wrote over is
\* whole, or is in the hands of the only tool that is writing it; it shows no TODO that
\* was cleaned, has the code that tests have seen, and a raise for what has no code; and
\* only TODOs of milestones whose tests have passed are cleaned or reported as cleaned.
THEOREM CleanInvariance == Spec => []CleanInv
<1>1. Init => CleanInv BY InitCleanInv
<1>2. CleanInv /\ [Next]_vars => CleanInv' BY NextKeepsCleanInv
<1> QED BY <1>1, <1>2, PTL DEF Spec

\* A TODO that was cleaned is shown as complete without any record of it, whatever was
\* interrupted, unless its source is damaged.
THEOREM CleanedIsShown == Spec => []CleanedStaysDone
<1>1. CleanInv => CleanedStaysDone
  <2> SUFFICES ASSUME CleanInv, NEW t \in cleaned, FileOf[t] \notin damaged
               PROVE  TodoImplemented(t, NoProgress)
    BY DEF CleanedStaysDone
  <2> DEFINE f == FileOf[t]
  <2>1. f \in DOMAIN InitialSource /\ f \in DOMAIN disk /\ t \in Todos
    BY DEF CleanInv, HaveFiles, CourseInv, Kept
  <2>2. FileSound(f) BY <2>1 DEF CleanInv, SourcesSound
  <2>3. Sound(f, disk[f]) => ~TodoMarkerPresent(disk[f], t) BY <2>1 DEF Sound
  <2>4. disk[f] = << >> => ~TodoMarkerPresent(disk[f], t) BY DEF TodoMarkerPresent, Contains
  <2> QED BY <2>1, <2>2, <2>3, <2>4 DEF FileSound, TodoImplemented
<1> QED BY <1>1, CleanInvariance, PTL

\* A TODO that tests exercise is shown as complete only with the student's code in its
\* source, unless the source is damaged or being written.
THEOREM ShownIsImplemented == Spec => []DoneIsImplemented
<1>1. CleanInv => DoneIsImplemented
  <2> SUFFICES ASSUME CleanInv, NEW t \in Todos, t \in Exercised[MilestoneOf[t]],
                      FileOf[t] \notin damaged, disk[FileOf[t]] # << >>,
                      TodoImplemented(t, LoadProgress(progress))
               PROVE  Working(t)
    BY DEF DoneIsImplemented
  <2> DEFINE f == FileOf[t]
             m == MilestoneOf[t]
  <2>1. f \in DOMAIN InitialSource => Sound(f, disk[f])
    <3>1. f \in DOMAIN InitialSource => FileSound(f) BY DEF CleanInv, SourcesSound
    <3> QED BY <3>1 DEF FileSound
  <2>2. DOMAIN disk = DOMAIN InitialSource BY DEF CleanInv, CourseInv, Kept
  <2>3. CASE m \in tested
    <3>1. f \in DOMAIN InitialSource BY <2>3 DEF CleanInv, HaveFiles
    <3>2. Contains(disk[f], Code(t)) BY <3>1, <2>1, <2>3 DEF Sound
    <3> QED BY <3>1, <3>2, <2>2 DEF Working, Code
  <2>4. CASE f \in DOMAIN disk /\ ~TodoMarkerPresent(disk[f], t)
    <3> DEFINE text == disk[f]
    <3>1. /\ text \in Seq(Lines) /\ Scaffolded(text)
          /\ Contains(text, Argument(t)) \/ Contains(text, Code(t))
      BY <2>1, <2>2, <2>4 DEF Sound
    <3>2. ~Contains(text, Argument(t))
      <4> SUFFICES ASSUME NEW i \in DOMAIN text, text[i] = Argument(t) PROVE FALSE
        BY <3>1 DEF Contains
      <4>1. text[i].kind = "argument" /\ Named(text[i], t) BY DEF Argument, Line, Named
      <4>2. i - 1 \in DOMAIN text /\ text[i - 1].kind = "raise" BY <3>1, <4>1 DEF Scaffolded
      <4>3. i - 1 <= i BY <3>1
      <4> QED BY <4>1, <4>2, <4>3, <2>4 DEF TodoMarkerPresent
    <3> QED BY <3>1, <3>2, <2>4 DEF Working, Code
  <2>5. m \in tested \/ (f \in DOMAIN disk /\ ~TodoMarkerPresent(disk[f], t))
    BY DEF TodoImplemented, CleanInv, CourseInv, Kept, ReportsTested, TestedTodo
  <2> QED BY <2>3, <2>4, <2>5
<1> QED BY <1>1, CleanInvariance, PTL
============================================================================
