--------------------------- MODULE MCCourseTools ---------------------------
(***************************************************************************)
(* Two milestones with TODOs in one file, as 2 and 3 have in scheduler.py. *)
(* The second also lists an id that is not registered, and a TODO whose    *)
(* file is missing and which no test needs.                                *)
(***************************************************************************)
EXTENDS CourseTools

MCMilestones == <<1, 2>>
MCTodoIds == <<  <<"a">>, <<"unregistered", "b", "moved">>  >>
MCFileOf == [a |-> "scheduler.py", b |-> "scheduler.py", moved |-> "gone.py"]
MCMilestoneOf == [a |-> 1, b |-> 2, moved |-> 2]
MCExercised == << {"a"}, {"a", "b"} >>

Scaffold(t) == <<Line("raise", NoTodo), Line("argument", t), Line("close", NoTodo)>>
Heading == <<Line("import", NoTodo), Line("code", NoTodo)>>
Comment == <<Line("comment", NoTodo)>>
Marker(t) == <<Line("marker", t)>>

\* The comment of "a" is continued just above that of "b".
MCInitialSource ==
  ("scheduler.py" :> Heading \o Marker("a") \o Comment \o Scaffold("a")
                     \o Marker("a") \o Marker("b") \o Comment \o Scaffold("b"))

Symmetry == Permutations(Tools)
============================================================================
