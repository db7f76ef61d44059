----------------------------- MODULE Resources -----------------------------
(***************************************************************************)
(* ResourceLoader: one directory after the other is loaded, the one of a   *)
(* region over the one of the program.  A load reads the configs in one    *)
(* thread, the tiles and the models for texts in two others; what becomes  *)
(* of a config that is there already each parse decides by itself.  A file *)
(* that a directory does not have is no error once something is loaded:    *)
(* m_loaded, which the threads read while load() writes it.                *)
(***************************************************************************)
EXTENDS Integers

CONSTANTS
  RegionHas,   \* the files of the directory of a region
  OddFiles,    \* those that may be absent or wrong in one of the loads
  MaxLoads

VARIABLES
  loader,     \* m_loaded, the load that runs, and its threads
  content     \* of each config: from which directory each of its keys is

resources == <<loader, content>>

\* In the order in which they are read
ConfigFuture ==
  <<"General", "Recruit", "Stages", "Copilot", "RogueRecruit", "Shopping", "Battle", "Tasks", "Infrast", "Items", "Avatars">>
OcrFuture == <<"WordOcr", "CharOcr">>
Configs == {ConfigFuture[i] : i \in DOMAIN ConfigFuture} \cup {OcrFuture[i] : i \in DOMAIN OcrFuture} \cup {"Tiles"}

\* A file of the program says "old", one of a region says it anew, and "new" besides.
KeysOf(dir) == IF dir = "program" THEN {"old"} ELSE {"old", "new"}
FileOf(dir, keys) == [k \in keys |-> dir]
NoOdd == [file |-> "none", how |-> "none"]
Hows(n) ==
  CASE n \in {"WordOcr", "CharOcr"} -> {"absent", "half"}
    [] n = "Tasks" -> {"absent", "throws", "noPicture"}
    [] n = "Infrast" -> {"absent", "throws", "newSkill"}
    [] OTHER -> {"absent", "throws", "noJson"}
Odds == {NoOdd} \cup {odd \in [file : OddFiles, how : UNION {Hows(n) : n \in OddFiles}] : odd.how \in Hows(odd.file)}

-----------------------------------------------------------------------------
\* What each parse makes of the keys it has when it is given those of a file.
Overridden(old, f) == [k \in DOMAIN old \cup DOMAIN f |-> IF k \in DOMAIN f THEN f[k] ELSE old[k]]
KeptFirst(old, f) == Overridden(f, old)

GeneralParse(old, f) == Overridden(old, f)
RecruitParse(f) == f
StagesParse(old, f) == KeptFirst(old, f)
CopilotParse(old, f) == KeptFirst(old, f)
RogueRecruitParse(f) == f
ShoppingParse(f) == f
BattleParse(old, f) == KeptFirst(old, f)
TasksParse(old, f) == Overridden(old, f)
ItemsParse(f) == f

\* The skills of a facility are kept or taken as a whole.
InfrastParse(old, f) == IF old = <<>> THEN f ELSE old

\* Of the pictures in the cache those whose operators are known
AvatarsLoad(old) == KeptFirst(old, [k \in DOMAIN content["Battle"] |-> "cache"])

Parse(n, old, f) ==
  [General |-> GeneralParse(old, f), Recruit |-> RecruitParse(f), Stages |-> StagesParse(old, f),
   Copilot |-> CopilotParse(old, f), RogueRecruit |-> RogueRecruitParse(f), Shopping |-> ShoppingParse(f),
   Battle |-> BattleParse(old, f), Tasks |-> TasksParse(old, f), Infrast |-> InfrastParse(old, f), Items |-> ItemsParse(f)][n]

\* Only the first pictures that are required must be there; a group of skills may name
\* one that the facility, as it was kept, does not have.
Missing(how) == how = "noPicture" /\ ~loader.pictures
UnknownSkill(how, old) == how = "newSkill" /\ old # <<>>

-----------------------------------------------------------------------------
ResourcesInit ==
  /\ loader = [loaded |-> FALSE, pictures |-> FALSE, dir |-> "none", odd |-> NoOdd, oddities |-> 0, loads |-> 0,
               config |-> 1, tiles |-> "run", ocr |-> 1, failed |-> {}, main |-> "idle", lacked |-> {}]
  /\ content = [n \in Configs |-> <<>>]

\* AsstLoadResource, up to the last of the three std::async
LoadResource(dir) ==
  /\ loader.main = "idle" /\ loader.loads < MaxLoads
  /\ dir = "region" => loader.loaded      \* the clients load it after a load that has succeeded
  /\ \E odd \in Odds :
       /\ odd # NoOdd => loader.oddities = 0
       /\ loader' = [loader EXCEPT !.dir = dir, !.odd = odd, !.oddities = IF odd = NoOdd THEN @ ELSE 1, !.loads = @ + 1,
                                   !.config = 1, !.tiles = "run", !.ocr = 1, !.failed = {}, !.main = "begun",
                                   !.lacked = IF odd.how = "absent" THEN {odd.file} ELSE @]
  /\ UNCHANGED content

HasFile(n) == (loader.dir = "program" \/ n \in RegionHas) /\ loader.odd # [file |-> n, how |-> "absent"]
How(n) == IF loader.odd.file = n THEN loader.odd.how ELSE "whole"
Going == loader.main # "idle"

\* load_resource of the config n in the thread t: whether it succeeds, and what its
\* content is then
Reads(n, t, ok, c, next) ==
  /\ loader' = [next EXCEPT !.failed = IF ok THEN @ ELSE @ \cup {t}]
  /\ content' = [content EXCEPT ![n] = c]

ReadsConfig(n, ok, c, pictures) ==
  Reads(n, "config", ok, c, [loader EXCEPT !.config = @ + 1, !.pictures = pictures])

\* A config without a file is read from nowhere.  The pictures of the tasks are loaded
\* with them.
LoadConfig ==
  /\ Going /\ "config" \notin loader.failed /\ loader.config \in DOMAIN ConfigFuture
  /\ LET n == ConfigFuture[loader.config]
         old == content[n]
         From(keys) == Parse(n, old, FileOf(loader.dir, keys))
         all == KeysOf(loader.dir)
         pictures == loader.pictures \/ (n = "Tasks" /\ (HasFile(n) \/ loader.loaded) /\ How(n) # "throws")
         refused == How(n) = "noJson" \/ UnknownSkill(How(n), old)
     IN  \/ n = "Avatars" /\ ReadsConfig(n, TRUE, AvatarsLoad(old), pictures)
         \/ n # "Avatars" /\ ~HasFile(n) /\ ReadsConfig(n, loader.loaded, old, pictures)
         \/ /\ n # "Avatars" /\ HasFile(n)
            /\ \/ refused /\ ReadsConfig(n, FALSE, old, pictures)
               \/ How(n) = "throws" /\ \E part \in SUBSET all : ReadsConfig(n, FALSE, From(part), pictures)
               \/ Missing(How(n)) /\ ReadsConfig(n, FALSE, From(all), FALSE)
               \/ ~refused /\ How(n) # "throws" /\ ~Missing(How(n)) /\ ReadsConfig(n, TRUE, From(all), pictures)

\* A new calculator with the levels of this directory only
LoadTiles ==
  /\ Going /\ loader.tiles = "run"
  /\ LET next == [loader EXCEPT !.tiles = "done"]
     IN  IF ~HasFile("Tiles") THEN Reads("Tiles", "tiles", loader.loaded, content["Tiles"], next)
         ELSE IF How("Tiles") # "whole" THEN Reads("Tiles", "tiles", FALSE, content["Tiles"], next)
         ELSE Reads("Tiles", "tiles", TRUE, FileOf(loader.dir, KeysOf(loader.dir)), next)

\* The detector and the recognizer, each taken over if the directory does not have it
LoadOcr ==
  /\ Going /\ "ocr" \notin loader.failed /\ loader.ocr \in DOMAIN OcrFuture
  /\ LET n == OcrFuture[loader.ocr]
         next == [loader EXCEPT !.ocr = @ + 1]
         models == Overridden(content[n], FileOf(loader.dir, IF How(n) = "half" THEN {"old"} ELSE {"old", "new"}))
     IN  IF ~HasFile(n) THEN Reads(n, "ocr", loader.loaded, content[n], next)
         ELSE Reads(n, "ocr", DOMAIN models = {"old", "new"}, models, next)

\* load() goes on while its threads run; then it waits for one after the other.
MarkLoaded == loader.main = "begun" /\ loader' = [loader EXCEPT !.loaded = TRUE, !.main = "config"] /\ UNCHANGED content

FutureReady(t) ==
  \/ t \in loader.failed
  \/ t = "config" /\ loader.config \notin DOMAIN ConfigFuture
  \/ t = "tiles" /\ loader.tiles = "done"
  \/ t = "ocr" /\ loader.ocr \notin DOMAIN OcrFuture
Then(t) == [config |-> "tiles", tiles |-> "ocr", ocr |-> "idle"][t]

\* Fault: the last thread alone decides.
GetFutureLast ==
  /\ loader.main \in {"config", "tiles", "ocr"} /\ FutureReady(loader.main)
  /\ loader' = [loader EXCEPT !.loaded = loader.main \notin loader.failed, !.main = Then(@)]
  /\ UNCHANGED content

GetFuture ==
  /\ loader.main \in {"config", "tiles", "ocr"} /\ FutureReady(loader.main)
  /\ loader' = [loader EXCEPT !.loaded = @ /\ loader.main \notin loader.failed, !.main = Then(@)]
  /\ UNCHANGED content

ResourcesNext ==
  \/ \E dir \in {"program", "region"} : LoadResource(dir)
  \/ LoadConfig \/ LoadTiles \/ LoadOcr \/ MarkLoaded \/ GetFuture
-----------------------------------------------------------------------------
\* No picture of an operator is known without the file of the operators.
Lacking(n) == n \in loader.lacked \/ (n = "Avatars" /\ "Battle" \in loader.lacked)

\* Once a load has succeeded, everything its directory has is known, in its words where
\* the parse overrides or clears, and without a rest of what was read before where it
\* clears; the tasks have their first pictures; and no config is empty but one whose
\* file was missing, which the threads may take for loaded when they look late.
ResourcesAreWhole ==
  loader.main = "idle" /\ loader.loaded =>
    /\ loader.pictures
    /\ \A n \in Configs : content[n] = <<>> => Lacking(n)
    /\ \A n \in Configs \ {"Avatars"} : HasFile(n) => "old" \in DOMAIN content[n]
    /\ \A n \in {"General", "Tasks", "WordOcr", "CharOcr"} : HasFile(n) => content[n]["old"] = loader.dir
    /\ \A n \in {"Recruit", "RogueRecruit", "Shopping", "Items", "Tiles"} : HasFile(n) => content[n] = FileOf(loader.dir, KeysOf(loader.dir))
=============================================================================
