------------------------------- MODULE Around -------------------------------
(***************************************************************************)
(* What there is around the worker and its tasks: the connections of       *)
(* several Assistants (Controller), the resources (Resources), the main    *)
(* window with its updates (MainWindow, Updater), and the program that     *)
(* makes the resources (ResourceUpdater).  They share no state, so one of  *)
(* them at a time is run, and the others are left as they begin.  The      *)
(* definitions of the tasks are one more part; MCHost adds them.           *)
(***************************************************************************)
EXTENDS Controller

CONSTANTS MaxVersion, Mirrors, DownloadRetryMaxTimes, MaxCrashes
CONSTANTS MaxEvents, MaxMsgs
CONSTANTS RegionHas, OddFiles, MaxLoads
CONSTANTS Region, Checked, SkillsOf, NoPicture, MaxRuns, MaxFaults

ASSUME AroundAssumption ==
  /\ MaxVersion \in Nat \ {0}
  /\ {DownloadRetryMaxTimes, MaxCrashes, MaxEvents, MaxMsgs, MaxLoads, MaxRuns, MaxFaults} \subseteq Nat
  /\ Checked \subseteq Region /\ "China" \notin Region
  /\ 1 \in DOMAIN SkillsOf /\ DOMAIN SkillsOf \subseteq Nat
  \* What the game has once, it keeps.
  /\ \A v, w \in DOMAIN SkillsOf : v <= w => SkillsOf[v] \subseteq SkillsOf[w]

VARIABLES part, disk, gui, leaving, page, flow, lib, msgs, past, loader, content, tool, repo, out, infrast

Update == INSTANCE Updater
Window == INSTANCE MainWindow
Loader == INSTANCE Resources
Tool == INSTANCE ResourceUpdater

Parts == {"connections", "task data", "resources", "updater", "window", "tool"}

update == <<disk, gui, leaving>>
window == <<page, flow, lib, msgs, past>>
resources == <<loader, content>>
made == <<tool, repo, out, infrast>>
around == <<part, vars, update, window, resources, made>>

AroundInit ==
  part \in Parts /\ Init /\ Update!UpdateInit /\ Window!WindowInit /\ Loader!ResourcesInit /\ Tool!ToolInit

AroundNext ==
  /\ UNCHANGED part
  /\ \/ part = "connections" /\ Next /\ UNCHANGED <<update, window, resources, made>>
     \/ part = "resources" /\ Loader!ResourcesNext /\ UNCHANGED <<vars, update, window, made>>
     \/ part = "updater" /\ Update!UpdateNext /\ UNCHANGED <<vars, window, resources, made>>
     \/ part = "window" /\ Window!WindowNext /\ UNCHANGED <<vars, update, resources, made>>
     \/ part = "tool" /\ Tool!ToolNext /\ UNCHANGED <<vars, update, window, resources>>

\* What goes on by itself in the part that is run (see Controller and MainWindow).
AroundFairness ==
  /\ \A i \in Instance : SF_vars(part = "connections" /\ Proceeds(i))
  /\ WF_window(part = "window" /\ Window!GoesOnByItself)

AroundSpec == AroundInit /\ [][AroundNext]_around /\ AroundFairness
-----------------------------------------------------------------------------
\* However an update ends, what is on the disk can be used, and is of one version: the
\* program's own files (Updater), and the resources (ResourceUpdater).
FilesAreWhole == Update!UpdatesAreWhole /\ Tool!DataIsOfOneRun

\* What is done when all is completed is done for the main page's tasks only, not for
\* those of the copilot or the calculation pages (see MainWindow).
ActsForMainTasks == Window!ActsForMainTasks

\* A Stop of the main window that a running chain answers is settled in the end, and the
\* page can be used again (see MainWindow).
StopSettles == Window!StopSettles
=============================================================================
