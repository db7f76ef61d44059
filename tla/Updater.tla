------------------------------- MODULE Updater -------------------------------
(***************************************************************************)
(* How the main window updates itself: it looks for a release, downloads   *)
(* the package from its own version to that one, and at its next start     *)
(* unpacks it, moves every file into place and starts the new program.     *)
(* The user, a crash or the power may end the program between any two      *)
(* steps; what is on disk is all that is left.                             *)
(***************************************************************************)
EXTENDS Integers

CONSTANTS
  MaxVersion,             \* versions are numbered
  Mirrors,                \* sources of a package, 6 in the code
  DownloadRetryMaxTimes,  \* 1 in the code
  MaxCrashes              \* bound on the crashes

VARIABLES
  disk,    \* files, packages, gui.json, and what was promised to the user
  gui,     \* the program that runs
  leaving  \* the one that has started it and is not gone yet

Version == 1..MaxVersion
NoTag == 0
NoPackage == <<0, 0>>
Package == {p \in Version \X Version : p[1] < p[2]}

\* The files of a version: one of them exists in every other version only.
Files == {"exe", "core", "extra"}
Manifest(v) == [f \in Files |-> IF f = "extra" /\ v % 2 = 0 THEN 0 ELSE v]
InPackage(p) == {f \in Files : Manifest(p[2])[f] # 0}
RemoveList(p) == {f \in Files : Manifest(p[2])[f] = 0}

NotRunning == [at |-> "off", version |-> 0, tag |-> NoTag, package |-> NoPackage, check |-> "idle", target |-> 0, try |-> 0,
               new |-> {}, hand |-> "none", window |-> FALSE]

Booted == [NotRunning EXCEPT !.at = "boot", !.version = disk.file["core"], !.tag = disk.tag, !.package = disk.package]

Gone == [version |-> 0, tag |-> NoTag, released |-> TRUE]

UpdateInit ==
  /\ disk = [file |-> Manifest(1), packages |-> [p \in Package |-> "none"], tag |-> NoTag, package |-> NoPackage,
             latest |-> 1, promised |-> NoPackage, missed |-> FALSE, mixed |-> FALSE, clash |-> FALSE, crashes |-> 0]
  /\ gui = NotRunning
  /\ leaving = Gone

At(place, next) == gui.at = place /\ gui' = [gui EXCEPT !.at = next]

-----------------------------------------------------------------------------
(* CheckAndUpdateNow, before there is a window *)

Start ==
  /\ gui.at = "off" /\ disk.file["exe"] # 0 /\ disk.file["core"] # 0
  /\ gui' = Booted
  /\ UNCHANGED <<disk, leaving>>

ToApply == gui.tag # NoTag /\ gui.package # NoPackage /\ disk.packages[gui.package] # "none"

\* A new version that is run for the first time shows what is new.
Opened == [gui EXCEPT !.at = "run", !.window = gui.tag = gui.version]

NothingToApply ==
  /\ gui.at = "boot" /\ ~ToApply
  /\ gui' = Opened
  /\ disk' = [disk EXCEPT !.missed = @ \/ disk.promised # NoPackage]
  /\ UNCHANGED leaving

Extract ==
  /\ gui.at = "boot" /\ ToApply
  /\ IF disk.packages[gui.package] = "whole"
     THEN /\ gui' = [gui EXCEPT !.at = "remove", !.new = InPackage(gui.package)]
          /\ disk' = [disk EXCEPT !.mixed = @ \/ gui.version \notin {gui.package[1], gui.package[2]}]
     ELSE /\ gui' = Opened
          /\ disk' = [disk EXCEPT !.packages[gui.package] = "none", !.promised = NoPackage]
  /\ UNCHANGED leaving

Remove ==
  /\ At("remove", "apply")
  /\ disk' = [disk EXCEPT !.file = [f \in Files |-> IF f \in RemoveList(gui.package) THEN 0 ELSE @[f]]]
  /\ UNCHANGED leaving

\* A file goes to .old ...
MoveAway(f) ==
  /\ gui.at = "apply" /\ gui.hand = "none" /\ f \in gui.new
  /\ disk' = [disk EXCEPT !.file[f] = 0]
  /\ gui' = [gui EXCEPT !.hand = f]
  /\ UNCHANGED leaving

\* ... and the new one takes its place.
MoveIn ==
  /\ gui.at = "apply" /\ gui.hand # "none"
  /\ disk' = [disk EXCEPT !.file[gui.hand] = gui.package[2]]
  /\ gui' = [gui EXCEPT !.new = @ \ {gui.hand}, !.hand = "none"]
  /\ UNCHANGED leaving

DeletePackage ==
  /\ gui.new = {} /\ gui.hand = "none" /\ At("apply", "forget")
  /\ disk' = [disk EXCEPT !.packages[gui.package] = "none", !.promised = IF @ = gui.package THEN NoPackage ELSE @]
  /\ UNCHANGED leaving

\* gui.json is written for the last time, then the new program is started; the old
\* one goes on until its threads are ended.
Forget ==
  /\ gui.at = "forget"
  /\ disk' = [disk EXCEPT !.package = NoPackage]
  /\ gui' = [gui EXCEPT !.at = "restart", !.package = NoPackage]
  /\ UNCHANGED leaving

\* Fault: the settings are not released before.
RestartUnreleased ==
  /\ gui.at = "restart"
  /\ gui' = Booted
  /\ leaving' = [version |-> gui.version, tag |-> gui.tag, released |-> FALSE]
  /\ UNCHANGED disk

RestartUpdated ==
  /\ gui.at = "restart"
  /\ gui' = Booted
  /\ leaving' = [version |-> gui.version, tag |-> gui.tag, released |-> TRUE]
  /\ UNCHANGED disk

\* Some of the files of a package are put in place.
InPlace == gui.at \in {"remove", "apply"}

\* Nobody waits for the shutdown: the old program shows its window and, unless it takes
\* itself for the new one, looks for updates of the version it was.
LeavingChecks(t, got) ==
  /\ leaving.version # 0 /\ leaving.tag # leaving.version /\ t = disk.latest /\ leaving.version < t
  /\ disk' = LET p == <<leaving.version, t>> IN
             IF leaving.released THEN [disk EXCEPT !.packages[p] = got, !.clash = @ \/ (InPlace /\ p = gui.package)]
             ELSE [disk EXCEPT !.packages[p] = got, !.tag = t, !.package = p]
  /\ UNCHANGED <<gui, leaving>>

LeavingEnds == leaving.version # 0 /\ leaving' = Gone /\ UNCHANGED <<disk, gui>>

-----------------------------------------------------------------------------
(* CheckAndDownloadUpdate, on a thread of the window *)

WindowOpen == gui.at = "run"

\* Something newer, though perhaps without a package; or nothing, or no answer.
CheckUpdate ==
  /\ WindowOpen /\ gui.check = "idle" /\ disk.latest > gui.version
  /\ gui' = [gui EXCEPT !.check = "found", !.tag = disk.latest, !.target = disk.latest]
  /\ disk' = [disk EXCEPT !.tag = disk.latest]
  /\ UNCHANGED leaving

NamePackage(ota, download) ==
  /\ WindowOpen /\ gui.check = "found"
  /\ LET p == IF ota THEN <<gui.version, gui.target>> ELSE NoPackage IN
     /\ gui' = [gui EXCEPT !.package = p, !.check = IF ota /\ download THEN "download" ELSE "idle", !.try = 0]
     /\ disk' = [disk EXCEPT !.package = p, !.promised = NoPackage]
  /\ UNCHANGED leaving

\* All the sources, all over again once.
DownloadFails ==
  /\ WindowOpen /\ gui.check = "download"
  /\ gui' = IF gui.try < Mirrors * (DownloadRetryMaxTimes + 1) - 1 THEN [gui EXCEPT !.try = @ + 1]
            ELSE [gui EXCEPT !.check = "idle", !.try = 0]
  /\ UNCHANGED <<disk, leaving>>

\* The temporary file is copied; its length was not compared with what was announced.
CopyPackage ==
  /\ WindowOpen /\ gui.check = "download"
  /\ gui' = [gui EXCEPT !.check = "copy", !.try = 0]
  /\ disk' = [disk EXCEPT !.packages[gui.package] = "part"]
  /\ UNCHANGED leaving

Downloaded(got) ==
  /\ WindowOpen /\ gui.check = "copy"
  /\ gui' = [gui EXCEPT !.check = "ask"]
  /\ disk' = [disk EXCEPT !.packages[gui.package] = got, !.promised = IF gui.tag = NoTag THEN NoPackage ELSE gui.package]
  /\ UNCHANGED leaving

\* Now, or whenever the user restarts the program.
AskToRestart ==
  /\ WindowOpen /\ gui.check = "ask"
  /\ gui' \in {[gui EXCEPT !.check = "idle"], NotRunning}
  /\ UNCHANGED <<disk, leaving>>

\* The window with the news of the last update is closed, whatever was found since.
CloseNews ==
  /\ WindowOpen /\ gui.window
  /\ gui' = [gui EXCEPT !.window = FALSE, !.tag = NoTag]
  /\ disk' = [disk EXCEPT !.tag = NoTag, !.promised = NoPackage]
  /\ UNCHANGED leaving

Publish == disk.latest < MaxVersion /\ disk' = [disk EXCEPT !.latest = @ + 1] /\ UNCHANGED <<gui, leaving>>

Exit == WindowOpen /\ gui' = NotRunning /\ UNCHANGED <<disk, leaving>>

Crash ==
  /\ gui.at # "off" /\ disk.crashes < MaxCrashes
  /\ gui' = NotRunning /\ leaving' = Gone
  /\ disk' = [disk EXCEPT !.crashes = @ + 1]

\* gui.json is cut and written anew, in place, for each setting that is set: by the window,
\* on the way to it, and by Forget.  Of one that is left cut the next start reads nothing,
\* neither what was announced nor what was being put in place.
CrashInSave ==
  /\ gui.at \in {"boot", "forget", "run"} /\ disk.crashes < MaxCrashes
  /\ gui' = NotRunning /\ leaving' = Gone
  /\ disk' = [disk EXCEPT !.crashes = @ + 1, !.tag = NoTag, !.package = NoPackage, !.promised = NoPackage,
                          !.clash = @ \/ disk.file # Manifest(disk.file["core"])]

UpdateNext ==
  \/ Start \/ NothingToApply \/ Extract \/ Remove \/ (\E f \in Files : MoveAway(f)) \/ MoveIn
  \/ DeletePackage \/ Forget \/ RestartUpdated
  \/ (\E t \in Version, got \in {"part", "whole"} : LeavingChecks(t, got)) \/ LeavingEnds
  \/ CheckUpdate \/ (\E ota, download \in BOOLEAN : NamePackage(ota, download))
  \/ DownloadFails \/ CopyPackage \/ (\E got \in {"part", "whole"} : Downloaded(got)) \/ AskToRestart
  \/ CloseNews \/ Publish \/ Exit \/ Crash \/ CrashInSave
-----------------------------------------------------------------------------
\* Wherever the program was ended, one that comes to its window has all the files of
\* its version and no other; a package is put over the version it was made for; and
\* one that the user was asked to restart for is put in place by the next start, unless
\* it was superseded, the news of the update before were closed after it, or the program
\* was ended while it wrote gui.json, which names the package.  All this as long as the
\* package has not been lost (clash) while it was put in place: overwritten by the program
\* that was left, or forgotten with a gui.json that was cut by a start that was to go on
\* with it.
UpdatesAreWhole ==
  ~disk.clash => (gui.at = "run" => disk.file = Manifest(gui.version)) /\ ~disk.mixed /\ ~disk.missed
=============================================================================
