----------------------------- MODULE CourseTools -----------------------------
(***************************************************************************)
(* tools/course_lib.py, run_milestone.py and course_status.py: the tools   *)
(* that run the tests of a milestone, remove the scaffolding of its TODOs  *)
(* from the sources and record the milestone in .course_progress.json.     *)
(* Nothing is locked and write_text truncates before it writes: a tool may *)
(* be interrupted between any two steps, two of them may run at once, and  *)
(* the student may save a file that a tool has just read.                  *)
(*                                                                         *)
(* A source file is a sequence of lines, each a kind and the TODO it       *)
(* names.  A raise that is not implemented yet is the line "raise", the    *)
(* line "argument" with the TODO, and the line "close"; "code" with a TODO *)
(* is the student's work on it.  --no-test and the report to a terminal    *)
(* change no state; blank lines, which cleaning collapses, are left out.   *)
(***************************************************************************)
EXTENDS Integers, SequencesExt

CONSTANTS
  Tools,          \* processes that may run at the same time
  Milestones,     \* milestones.yaml: the numbers, in order
  TodoIds,        \* their todo_ids
  FileOf,         \* todos.yaml: source_file of every registered TODO
  MilestoneOf,    \* todos.yaml: milestone
  Exercised,      \* the TODOs that the tests of a milestone need (external)
  InitialSource,  \* the files of the student branch
  NoFile, Cut     \* no progress file; one that holds no JSON

Todos == DOMAIN FileOf
ProgressPath == ".course_progress.json"
NoTodo == "none"
Numbers == ToSet(Milestones)
Ids == UNION {ToSet(TodoIds[m]) : m \in Numbers}

\* NoFile and Cut are no records of progress.
ASSUME CourseAssumption ==
  /\ Milestones \in Seq(Numbers) \ {<< >>}
  /\ \A m \in Numbers : Exercised[m] \subseteq Todos /\ TodoIds[m] \in Seq(ToSet(TodoIds[m]))
  /\ ProgressPath \notin DOMAIN InitialSource /\ NoTodo \notin Todos
  /\ \A passed \in SUBSET Numbers, ids \in SUBSET Ids :
       [milestones_passed |-> passed, cleaned_todos |-> ids] \notin {NoFile, Cut}
  /\ NoFile # Cut

VARIABLES
  disk,      \* the text of every file
  progress,  \* the progress file
  tool,      \* what every tool is doing
  tested,    \* milestones whose tests have passed
  marked,    \* milestones that mark_milestone_passed has recorded
  cleaned,   \* TODOs that cleanup_todo_scaffolding has been through
  told,      \* course_status has said that everything is complete
  damaged    \* files a tool left half written, read half written or empty, or wrote
             \* over another's change

files == <<disk, progress>>
history == <<tested, marked, cleaned, told, damaged>>
vars == <<files, tool, history>>

----------------------------------------------------------------------------
(***************************************************************************)
(* Scaffolding.                                                            *)
(***************************************************************************)
Kinds == {"marker", "comment", "raise", "argument", "close", "import", "code"}
Lines == [kind : Kinds, todo : Todos \cup {NoTodo}]
Line(kind, todo) == [kind |-> kind, todo |-> todo]

IsComment(line) == line.kind \in {"marker", "comment"}
Named(line, t) == line.kind \in {"marker", "argument"} /\ line.todo = t

\* The course scaffold style: the closing parenthesis of a raise is on its own line.
Scaffolded(text) ==
  \A i \in DOMAIN text :
    /\ text[i].kind = "raise" =>
         /\ i + 2 \in DOMAIN text
         /\ text[i + 1].kind = "argument" /\ text[i + 2].kind = "close"
    /\ text[i].kind = "argument" => i - 1 \in DOMAIN text /\ text[i - 1].kind = "raise"

\* A TODO is listed in its own milestone.  The student branch is in the scaffold style,
\* and a TODO that tests exercise has a raise where its code is missing.
ASSUME SourceAssumption ==
  /\ \A m \in Numbers : \A t \in ToSet(TodoIds[m]) \cap Todos : MilestoneOf[t] = m
  /\ \A f \in DOMAIN InitialSource :
       LET text == InitialSource[f]
       IN  /\ text \in Seq(Lines) /\ Scaffolded(text)
           /\ \A t \in Todos : FileOf[t] = f /\ t \in Exercised[MilestoneOf[t]] =>
                Contains(text, Line("argument", t)) \/ Contains(text, Line("code", t))

TodoMarkerPresent(text, t) ==
  \/ Contains(text, Line("marker", t))
  \/ \E i, j \in DOMAIN text : i <= j /\ text[i].kind = "raise" /\ Named(text[j], t)

\* The lines of a text that are not removed, in order.
Without(text, removed) ==
  LET kept == DOMAIN text \ removed
  IN [k \in 1 .. Cardinality(kept) |->
        text[CHOOSE i \in kept : Cardinality({j \in kept : j < i}) = k - 1]]

\* Bug: stops after the first comment of the TODO.
RemoveFirstCommentBlock(text, t) ==
  Without(text, {i \in DOMAIN text : \E j \in 1 .. i :
    /\ text[j] = Line("marker", t)
    /\ \A k \in 1 .. j - 1 : text[k] # Line("marker", t)
    /\ \A k \in j .. i : IsComment(text[k])})

\* From a marker of the TODO through the comment lines that follow it.
RemoveTodoCommentBlocks(text, t) ==
  Without(text, {i \in DOMAIN text : \E j \in 1 .. i :
    text[j] = Line("marker", t) /\ \A k \in j .. i : IsComment(text[k])})

\* The raises, each through the first line that is a closing parenthesis.
RaiseBlock(text, i) ==
  {j \in i .. Len(text) : \A k \in i .. j - 1 : text[k].kind # "close"}
RaiseStarts(text) ==
  {i \in DOMAIN text :
     /\ text[i].kind = "raise"
     /\ \A j \in 1 .. i - 1 : text[j].kind = "raise" => i \notin RaiseBlock(text, j)}

\* Bug: every raise goes, whatever TODO it names.
RemoveRaisesOfAll(text, t) ==
  Without(text, UNION {RaiseBlock(text, i) : i \in RaiseStarts(text)})

RaiseOf(text, t) ==
  {i \in RaiseStarts(text) : \E j \in RaiseBlock(text, i) : Named(text[j], t)}

RemoveRaisesForTodo(text, t) ==
  Without(text, UNION {RaiseBlock(text, i) : i \in RaiseOf(text, t)})

RemoveUnusedImport(text) ==
  IF \E i \in DOMAIN text : text[i].kind = "raise" THEN text
  ELSE Without(text, {i \in DOMAIN text : text[i].kind = "import"})

Cleaned(text, t) ==
  RemoveUnusedImport(RemoveRaisesForTodo(RemoveTodoCommentBlocks(text, t), t))

----------------------------------------------------------------------------
(***************************************************************************)
(* The progress file.                                                      *)
(***************************************************************************)
NoProgress == [milestones_passed |-> {}, cleaned_todos |-> {}]

LoadProgress(file) == IF file \in {NoFile, Cut} THEN NoProgress ELSE file

\* Bug: starts from an empty record.
MarkOnly(data, m, ids) == [milestones_passed |-> {m}, cleaned_todos |-> ids]

Mark(data, m, ids) ==
  [milestones_passed |-> data.milestones_passed \cup {m},
   cleaned_todos |-> data.cleaned_todos \cup ids]

TodoImplemented(t, data) ==
  \/ t \in data.cleaned_todos
  \/ MilestoneOf[t] \in data.milestones_passed
  \/ FileOf[t] \in DOMAIN disk /\ ~TodoMarkerPresent(disk[FileOf[t]], t)

----------------------------------------------------------------------------
Idle == [pc |-> "idle"]

Init ==
  /\ disk = InitialSource
  /\ progress = NoFile
  /\ tool = [p \in Tools |-> Idle]
  /\ tested = {} /\ marked = {} /\ cleaned = {}
  /\ told = FALSE
  /\ damaged = {}

\* The student's code for a TODO is in its file; the tests of a milestone need it.
Working(t) == FileOf[t] \in DOMAIN disk /\ Contains(disk[FileOf[t]], Line("code", t))
Passes(m) == \A t \in Exercised[m] : Working(t)

(***************************************************************************)
(* The student implements a TODO above its raise, or replaces the          *)
(* scaffolding by it.                                                      *)
(***************************************************************************)
Implement(t, tidy) ==
  /\ FileOf[t] \in DOMAIN disk
  /\ disk[FileOf[t]] # << >>
  /\ ~Working(t)
  /\ LET text == disk[FileOf[t]]
         code == Line("code", t)
     IN disk' = [disk EXCEPT ![FileOf[t]] =
          IF tidy \/ RaiseOf(text, t) = {} THEN Append(Cleaned(text, t), code)
          ELSE InsertAt(text, CHOOSE i \in RaiseOf(text, t) : TRUE, code)]
  /\ UNCHANGED <<progress, tool, history>>

(***************************************************************************)
(* The tools.  A tool goes through its milestones, and for each through    *)
(* the TODOs left to clean.                                                *)
(***************************************************************************)
\* A tool, course_status or not, before the tests of the first of the milestones.
AtTests(milestones, status, cleanup, pending) ==
  [pc |-> "test", milestones |-> milestones, left |-> << >>, ids |-> {}, read |-> NoFile,
   status |-> status, cleanup |-> cleanup, pending |-> pending]

Starting(p, milestones, status, cleanup) ==
  /\ tool[p] = Idle
  /\ tool' = [tool EXCEPT ![p] = AtTests(milestones, status, cleanup, FALSE)]
  /\ UNCHANGED <<files, history>>

RunMilestone(p, m, cleanup) == Starting(p, <<m>>, FALSE, cleanup)

StatusWithTests(p, cleanup) == Starting(p, Milestones, TRUE, cleanup)

\* Without --run-tests a milestone is done when it is recorded.
Status(p) ==
  /\ tool[p] = Idle
  /\ tool' = [tool EXCEPT ![p] =
       [pc |-> "report",
        pending |-> ToSet(Milestones) \ LoadProgress(progress).milestones_passed # {}]]
  /\ UNCHANGED <<files, history>>

At(p, pc) == tool[p].pc = pc
Milestone(p) == Head(tool[p].milestones)
GoTo(p, pc) == tool' = [tool EXCEPT ![p].pc = pc]

\* run_milestone ends; course_status goes on to the next milestone, or to its report.
NextMilestone(p, failed) ==
  IF ~tool[p].status THEN tool' = [tool EXCEPT ![p] = Idle]
  ELSE LET pending == tool[p].pending \/ failed
       IN IF Len(tool[p].milestones) = 1
          THEN tool' = [tool EXCEPT ![p] = [pc |-> "report", pending |-> pending]]
          ELSE tool' = [tool EXCEPT ![p] =
                 AtTests(Tail(tool[p].milestones), TRUE, tool[p].cleanup, pending)]

\* Bug: whether the tests failed is not looked at.
TestsUnheeded(p) ==
  /\ At(p, "test")
  /\ tool' = [tool EXCEPT ![p].pc = "load", ![p].ids = ToSet(TodoIds[Milestone(p)])]
  /\ tested' = IF Passes(Milestone(p)) THEN tested \cup {Milestone(p)} ELSE tested
  /\ UNCHANGED <<files, marked, cleaned, told, damaged>>

Tests(p) ==
  LET m == Milestone(p)
  IN /\ At(p, "test")
     /\ \/ /\ Passes(m)
           /\ tested' = tested \cup {m}
           /\ IF tool[p].cleanup
              THEN tool' = [tool EXCEPT ![p].pc = "clean", ![p].left = TodoIds[m]]
              ELSE tool' = [tool EXCEPT ![p].pc = "load", ![p].ids = ToSet(TodoIds[m])]
        \/ /\ ~Passes(m)
           /\ NextMilestone(p, TRUE)
           /\ UNCHANGED tested
     /\ UNCHANGED <<files, marked, cleaned, told, damaged>>

----------------------------------------------------------------------------
(***************************************************************************)
(* cleanup_milestone: the TODO is reported cleaned even if there was       *)
(* nothing to clean, or no file.  An id without a TODO is skipped.         *)
(***************************************************************************)
Todo(p) == Head(tool[p].left)
CleanFile(p) == FileOf[Todo(p)]

TodoCleaned(p) ==
  tool' = [tool EXCEPT ![p].pc = "clean", ![p].left = Tail(@), ![p].read = NoFile,
                       ![p].ids = @ \cup {Todo(p)}]

\* Bug: an id that is not registered is reported as cleaned.
SkipTodoCounted(p) ==
  /\ At(p, "clean") /\ tool[p].left # << >>
  /\ Todo(p) \in Todos => CleanFile(p) \notin DOMAIN disk
  /\ TodoCleaned(p)
  /\ UNCHANGED <<files, history>>

SkipTodo(p) ==
  /\ At(p, "clean") /\ tool[p].left # << >>
  /\ \/ /\ Todo(p) \notin Todos
        /\ tool' = [tool EXCEPT ![p].left = Tail(@)]
     \/ /\ Todo(p) \in Todos
        /\ CleanFile(p) \notin DOMAIN disk
        /\ TodoCleaned(p)
  /\ UNCHANGED <<files, history>>

ReadSource(p) ==
  /\ At(p, "clean") /\ tool[p].left # << >>
  /\ Todo(p) \in Todos /\ CleanFile(p) \in DOMAIN disk
  /\ LET text == disk[CleanFile(p)]
     IN /\ damaged' = IF text = << >> THEN damaged \cup {CleanFile(p)} ELSE damaged
        /\ IF Cleaned(text, Todo(p)) = text
           THEN TodoCleaned(p) /\ cleaned' = cleaned \cup {Todo(p)}
           ELSE /\ tool' = [tool EXCEPT ![p].pc = "truncate", ![p].read = text]
                /\ UNCHANGED cleaned
  /\ UNCHANGED <<files, tested, marked, told>>

TruncateSource(p) ==
  /\ At(p, "truncate")
  /\ damaged' = IF disk[CleanFile(p)] # tool[p].read THEN damaged \cup {CleanFile(p)} ELSE damaged
  /\ disk' = [disk EXCEPT ![CleanFile(p)] = << >>]
  /\ GoTo(p, "write")
  /\ UNCHANGED <<progress, tested, marked, cleaned, told>>

WriteSource(p) ==
  /\ At(p, "write")
  /\ disk' = [disk EXCEPT ![CleanFile(p)] = Cleaned(tool[p].read, Todo(p))]
  /\ TodoCleaned(p)
  /\ cleaned' = cleaned \cup {Todo(p)}
  /\ UNCHANGED <<progress, tested, marked, told, damaged>>

CleanupDone(p) ==
  /\ At(p, "clean") /\ tool[p].left = << >>
  /\ GoTo(p, "load")
  /\ UNCHANGED <<files, history>>

----------------------------------------------------------------------------
(***************************************************************************)
(* mark_milestone_passed: load, add, save.                                 *)
(***************************************************************************)
Load(p) ==
  /\ At(p, "load")
  /\ tool' = [tool EXCEPT ![p].pc = "save", ![p].read = LoadProgress(progress)]
  /\ damaged' = IF progress = Cut THEN damaged \cup {ProgressPath} ELSE damaged
  /\ UNCHANGED <<files, tested, marked, cleaned, told>>

TruncateProgress(p) ==
  /\ At(p, "save")
  /\ damaged' = IF LoadProgress(progress) # tool[p].read \/ progress = Cut
                THEN damaged \cup {ProgressPath} ELSE damaged
  /\ progress' = Cut
  /\ GoTo(p, "saving")
  /\ UNCHANGED <<disk, tested, marked, cleaned, told>>

WriteProgress(p) ==
  /\ At(p, "saving")
  /\ progress' = Mark(tool[p].read, Milestone(p), tool[p].ids)
  /\ marked' = marked \cup {Milestone(p)}
  /\ NextMilestone(p, FALSE)
  /\ UNCHANGED <<disk, tested, cleaned, told, damaged>>

\* The end of course_status: the progress is loaded again for the TODOs.
Report(p) ==
  /\ At(p, "report")
  /\ told' = (told \/ (/\ ~tool[p].pending
                       /\ \A t \in Todos : TodoImplemented(t, LoadProgress(progress))))
  /\ tool' = [tool EXCEPT ![p] = Idle]
  /\ UNCHANGED <<files, tested, marked, cleaned, damaged>>

\* A tool is interrupted: what it was writing stays truncated.
Interrupt(p) ==
  /\ tool[p] # Idle
  /\ tool' = [tool EXCEPT ![p] = Idle]
  /\ damaged' = damaged \cup (IF At(p, "write") THEN {CleanFile(p)}
                              ELSE IF At(p, "saving") THEN {ProgressPath} ELSE {})
  /\ UNCHANGED <<files, tested, marked, cleaned, told>>

ToolStep(p) ==
  \/ \E cleanup \in BOOLEAN :
       \/ \E m \in ToSet(Milestones) : RunMilestone(p, m, cleanup)
       \/ StatusWithTests(p, cleanup)
  \/ Status(p) \/ Tests(p)
  \/ SkipTodo(p) \/ ReadSource(p) \/ TruncateSource(p) \/ WriteSource(p) \/ CleanupDone(p)
  \/ Load(p) \/ TruncateProgress(p) \/ WriteProgress(p)
  \/ Report(p)
  \/ Interrupt(p)

Next ==
  \/ \E p \in Tools : ToolStep(p)
  \/ \E t \in Todos, tidy \in BOOLEAN : Implement(t, tidy)

Spec == Init /\ [][Next]_vars

----------------------------------------------------------------------------
(***************************************************************************)
(* Properties.                                                             *)
(***************************************************************************)
IsProgress(data) ==
  DOMAIN data = DOMAIN NoProgress /\ data.milestones_passed \subseteq Numbers
                                  /\ data.cleaned_todos \subseteq Ids

TypeOK ==
  /\ DOMAIN disk = DOMAIN InitialSource
  /\ progress \in {NoFile, Cut} \/ IsProgress(progress)
  /\ \A p \in Tools :
       /\ tool[p] = Idle \/ tool[p].pc \in {"test", "clean", "truncate", "write", "load",
                                            "save", "saving", "report"}
       /\ At(p, "save") \/ At(p, "saving") =>
            /\ tool[p].read \notin {NoFile, Cut} /\ IsProgress(tool[p].read)
            /\ tool[p].ids \subseteq IF tool[p].cleanup THEN Todos ELSE Ids
  /\ tested \subseteq Numbers /\ marked \subseteq Numbers /\ cleaned \subseteq Todos
  /\ told \in BOOLEAN
  /\ damaged \subseteq DOMAIN disk \cup {ProgressPath}

\* A TODO that the tests of its milestone exercise is shown as complete only when the
\* student has implemented it: cleaning one TODO does not make another look done, and
\* no interruption of a tool does.  Files are excepted that a tool left half written,
\* read so, or wrote over another's change: nothing keeps tools from that.
DoneIsImplemented ==
  \A t \in Todos :
    /\ t \in Exercised[MilestoneOf[t]]
    /\ FileOf[t] \notin damaged /\ disk[FileOf[t]] # << >>
    /\ TodoImplemented(t, LoadProgress(progress))
    => Working(t)

\* What is recorded stays recorded (course_lib.py:49-67).  Excepted is a progress file
\* that a tool was interrupted in saving, or read while it was half written, or that two
\* tools saved at the same time: nothing in the tools prevents these losses.
RecordKept ==
  ProgressPath \notin damaged /\ progress # Cut =>
    marked \subseteq LoadProgress(progress).milestones_passed

\* A TODO that has been cleaned would still be shown as complete if the progress file
\* were lost, also when its milestone was never recorded because the tool was
\* interrupted in between (course_lib.py:90-101).  Damaged files are excepted, also those
\* that a tool only found empty.
CleanedStaysDone ==
  \A t \in cleaned : FileOf[t] \notin damaged => TodoImplemented(t, NoProgress)

\* Whatever was interrupted, overlapped or lost: "a milestone is done only after its
\* tests have passed" (course_status.py:102-104), and everything is said to be complete
\* only when every milestone's have (course_status.py:78-88, 122; run_milestone.py).  The
\* docstring of course_status (4-6) also counts the absence of scaffolding; the code does
\* so for TODOs only (course_lib.py:90-101), not for milestones.
CompleteWasTested ==
  /\ LoadProgress(progress).milestones_passed \subseteq tested
  /\ told => tested = Numbers
============================================================================
