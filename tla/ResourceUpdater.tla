-------------------------- MODULE ResourceUpdater --------------------------
(***************************************************************************)
(* tools/ResourceUpdater: the maintainers' program that writes the files   *)
(* of resource/ from two repositories with the data of the game.  It takes *)
(* one step after the other and returns at the first that fails; what the  *)
(* steps before it have written stays.  A file is cut when it is opened    *)
(* and written then, so a process that ends in between leaves it cut, and  *)
(* so does a write that fails; one of the files, infrast.json, is also     *)
(* read, for what was put into it by hand.                                 *)
(***************************************************************************)
EXTENDS Integers

CONSTANTS
  Region,        \* of global_dirs
  Checked,       \* those whose names in Integrated Strategies are looked at
  SkillsOf,      \* the skills of the base in each version of the data
  NoPicture,     \* the skills that have none: of the dormitory
  MaxRuns, MaxFaults

VARIABLES
  tool,      \* the process
  repo,      \* the version of each repository, where it is published and where it is checked out
  out,       \* the files in resource/, by their kind and their region
  infrast       \* what infrast.json and the pictures beside it hold

toolVars == <<tool, repo, out, infrast>>

Old == 0   \* what is in resource/ before
Left(data, whole) == [of |-> data, cut |-> ~whole]
Made(data) == Left(data, TRUE)
China == "China"   \* the region of the files in resource/ itself
InChina(kind) == <<kind, China>>
Files == ({"levels", "english", "infrast", "stages", "chars", "recruit", "items"} \X {China}) \cup ({"recruit", "items", "rogue"} \X Region)

ToolInit ==
  /\ tool = [at |-> "idle", left |-> {}, runs |-> 0, faults |-> 0, rated |-> Old, short |-> {}]
  /\ repo = [there |-> 1, bot |-> Old, game |-> Old]
  /\ out = [f \in Files |-> Made(Old)]
  /\ infrast = [hand |-> TRUE, skills |-> {}, pictures |-> {}]

Publish == tool.at = "idle" /\ repo.there + 1 \in DOMAIN SkillsOf /\ repo' = [repo EXCEPT !.there = @ + 1] /\ UNCHANGED <<tool, out, infrast>>

To(place) == tool' = [tool EXCEPT !.at = place]
Begins == tool.at = "idle" /\ tool.runs < MaxRuns /\ tool' = [tool EXCEPT !.at = "bot", !.runs = @ + 1, !.short = {}]
          /\ UNCHANGED <<repo, out, infrast>>

\* main() returns -1: the network, a file that cannot be parsed, a name that is not known.
Fails(step) == /\ tool.at = step /\ tool.faults < MaxFaults
               /\ tool' = [tool EXCEPT !.at = "idle", !.faults = @ + 1] /\ UNCHANGED <<repo, out, infrast>>

\* A file is written.  Nobody looks at the stream: when not all of it could be written, it
\* is cut, and the run goes on.
Puts(f, data, whole) ==
  /\ whole \/ tool.faults < MaxFaults
  /\ out' = [out EXCEPT ![f] = Left(data, whole)]
Wrote(f, whole) == IF whole THEN tool ELSE [tool EXCEPT !.faults = @ + 1, !.short = @ \cup {f}]

\* A step that writes one file
Writes(step, kind, data, next) ==
  /\ tool.at = step /\ UNCHANGED <<repo, infrast>>
  /\ \E whole \in BOOLEAN : Puts(InChina(kind), data, whole) /\ tool' = [Wrote(InChina(kind), whole) EXCEPT !.at = next]
-----------------------------------------------------------------------------
\* git clone, or git pull
PullBot == \/ tool.at = "bot" /\ To("levels") /\ repo' = [repo EXCEPT !.bot = repo.there] /\ UNCHANGED <<out, infrast>>
           \/ Fails("bot")

UpdateLevels == Writes("levels", "levels", repo.bot, "english") \/ Fails("levels")

\* What it returns is not looked at.
EnglishNames == Writes("english", "english", repo.bot, "infrast") \/ (tool.at = "english" /\ To("infrast") /\ UNCHANGED <<repo, out, infrast>>)

InfrastWritten(skills, hand) ==
  /\ tool.at = "infrast" /\ UNCHANGED repo
  /\ \E whole \in BOOLEAN :
       /\ Puts(InChina("infrast"), repo.bot, whole) /\ tool' = [Wrote(InChina("infrast"), whole) EXCEPT !.at = "pictures"]
       /\ infrast' = IF whole THEN [infrast EXCEPT !.skills = skills, !.hand = hand] ELSE [infrast EXCEPT !.skills = {}, !.hand = FALSE]

\* Fault: what is in the file is not read.
InfrastDataAnew == InfrastWritten(SkillsOf[repo.bot], FALSE)

\* Into what is there; a file that was cut cannot be read, by this run or a later one.
InfrastData ==
  \/ ~out[InChina("infrast")].cut /\ InfrastWritten(infrast.skills \cup SkillsOf[repo.bot], infrast.hand)
  \/ tool.at = "infrast" /\ out[InChina("infrast")].cut /\ To("idle") /\ UNCHANGED <<repo, out, infrast>>
  \/ Fails("infrast")

InfrastPictures ==
  /\ tool.at = "pictures" /\ To("stages") /\ UNCHANGED <<repo, out>>
  /\ infrast' = [infrast EXCEPT !.pictures = @ \cup (SkillsOf[repo.bot] \ NoPicture)]

\* Of another server, at this moment
UpdateStages == Writes("stages", "stages", repo.there, "chars") \/ Fails("stages")

UpdateChars == Writes("chars", "chars", repo.bot, "game") \/ Fails("chars")

PullGame == \/ tool.at = "game" /\ To("recruit") /\ repo' = [repo EXCEPT !.game = repo.there] /\ UNCHANGED <<out, infrast>>
            \/ Fails("game")

\* is_base: the ratings and the tags are remembered for the other regions.
RecruitBase ==
  \/ /\ tool.at = "recruit" /\ UNCHANGED <<repo, infrast>>
     /\ \E whole \in BOOLEAN :
          /\ Puts(InChina("recruit"), repo.game, whole)
          /\ tool' = [Wrote(InChina("recruit"), whole) EXCEPT !.at = "recruitRegions", !.left = Region, !.rated = repo.game]
  \/ Fails("recruit")

\* In the order in which the map of the regions has them; nothing follows one that fails.
ForEach(step, kind, data, next, after) ==
  /\ tool.at = step /\ UNCHANGED <<repo, infrast>>
  /\ \/ tool.left = {} /\ tool' = [tool EXCEPT !.at = next, !.left = after] /\ UNCHANGED out
     \/ \E r \in tool.left, whole \in BOOLEAN :
          Puts(<<kind, r>>, data, whole) /\ tool' = [Wrote(<<kind, r>>, whole) EXCEPT !.left = @ \ {r}]

RecruitRegion == ForEach("recruitRegions", "recruit", tool.rated, "items", {}) \/ Fails("recruitRegions")

\* Items without an icon are passed over; their pictures are made on the way.
ItemsBase ==
  \/ /\ tool.at = "items" /\ UNCHANGED <<repo, infrast>>
     /\ \E whole \in BOOLEAN :
          /\ Puts(InChina("items"), repo.bot, whole)
          /\ tool' = [Wrote(InChina("items"), whole) EXCEPT !.at = "itemsRegions", !.left = Region]
  \/ Fails("items")

ItemsRegion == ForEach("itemsRegions", "items", repo.game, "rogue", Checked) \/ Fails("itemsRegions")

\* The names to be replaced that tasks.json does not have yet, for a maintainer to take
CheckRogue == ForEach("rogue", "rogue", repo.game, "done", {}) \/ Fails("rogue")

AllSuccess == tool.at = "done" /\ To("idle") /\ UNCHANGED <<repo, out, infrast>>
-----------------------------------------------------------------------------
\* What a step writes
FilesOf(step) ==
  CASE step = "recruitRegions" -> {"recruit"} \X tool.left
    [] step = "itemsRegions" -> {"items"} \X tool.left
    [] step = "rogue" -> {"rogue"} \X tool.left
    [] OTHER -> Files \cap ({step} \X {China})

\* The process ends: it is killed, or by an exception of at(), of a picture that cannot
\* be read, or of as_object(); in the middle of a file or before it.
Ends ==
  /\ tool.at \notin {"idle", "done"} /\ tool.faults < MaxFaults
  /\ tool' = [tool EXCEPT !.at = "idle", !.faults = @ + 1] /\ UNCHANGED repo
  /\ \/ UNCHANGED <<out, infrast>>
     \/ \E f \in FilesOf(tool.at) :
          /\ out' = [out EXCEPT ![f].cut = TRUE]
          /\ infrast' = IF tool.at = "infrast" THEN [infrast EXCEPT !.hand = FALSE, !.skills = {}] ELSE infrast

ToolNext ==
  \/ Publish \/ Begins \/ PullBot \/ UpdateLevels \/ EnglishNames \/ InfrastData \/ InfrastPictures \/ UpdateStages \/ UpdateChars
  \/ PullGame \/ RecruitBase \/ RecruitRegion \/ ItemsBase \/ ItemsRegion \/ CheckRogue \/ AllSuccess \/ Ends
-----------------------------------------------------------------------------
\* However runs before it have failed or ended: when a run says that all has succeeded,
\* the only files that are cut are those that it could not write, which it does not see;
\* every other is of the data that this run has pulled, the regions are rated by the same
\* data as the base, every skill that may have a picture has it, and what was put into
\* infrast.json by hand is still there; that is lost only with the file.
DataIsOfOneRun ==
  LET Whole(f, data) == out[f] = Made(data) \/ f \in tool.short IN
  /\ tool.at = "done" =>
       /\ \A kind \in {"levels", "infrast", "chars", "items"} : Whole(InChina(kind), repo.bot)
       /\ \A r \in Region \cup {China} : Whole(<<"recruit", r>>, repo.game)
       /\ \A r \in Region : Whole(<<"items", r>>, repo.game) /\ (r \in Checked => Whole(<<"rogue", r>>, repo.game))
       /\ SkillsOf[repo.bot] \subseteq infrast.skills \/ InChina("infrast") \in tool.short
       /\ infrast.skills \ NoPicture \subseteq infrast.pictures
  /\ ~out[InChina("infrast")].cut => infrast.hand
=============================================================================
