------------------------------- MODULE TaskData -------------------------------
(***************************************************************************)
(* The definitions of the tasks: loaded from tasks.json, and once more     *)
(* over them from the file of another server, one definition derived from  *)
(* another, and looked up by name while tasks run.                         *)
(*                                                                         *)
(* A name is the sequence of its parts: "A@B" is <<"A", "B">>.  An entry   *)
(* of a list is a name and what is meant by it: the task itself, or, for   *)
(* "A@B#next", its list; the name is empty for "#next".  Two of the five   *)
(* lists are modelled, and of the other members the algorithm and what it  *)
(* looks for (mark): a picture, or texts or hashes.                        *)
(***************************************************************************)
EXTENDS Integers, Sequences, FiniteSets, SequencesExt

CONSTANTS
  Keys,        \* the names of tasks.json, in its order
  Definitions, \* what a file may say of each name: its base, its algorithm or "", and of
               \* each list, and of the texts, <<>> or <<the list>>
  Overrides,   \* what the file of another server may say
  Names        \* the names that are looked up

VARIABLE res

Unknown == [next |-> <<>>, sub |-> <<>>, algo |-> "match", mark |-> <<"?">>]   \* no such task, nullptr
Failed == <<<<>>>>   \* no such list
NoBase == <<>>     \* no "baseTask"
Clean == <<"">>    \* "baseTask": ""
Lists == {"next", "sub"}

\* default_task_info_ptr
DefaultInfo == [next |-> <<>>, sub |-> <<>>, algo |-> "match", mark |-> <<>>]

\* append_prefix, which leaves alone what has the prefix already
AppendPrefix(entry, p) ==
  IF \E i \in 1..(Len(entry.name) - 1) : entry.name[i] = p
  THEN entry ELSE [entry EXCEPT !.name = <<p>> \o @]

\* _generate_task_info: the task "p@..." made of the one without prefix
Derived(info, p) ==
  LET prefixed(list) == [i \in DOMAIN list |-> AppendPrefix(list[i], p)]
  IN  [info EXCEPT !.next = prefixed(@), !.sub = prefixed(@)]

RECURSIVE GetRaw(_, _)
GetRaw(raw, n) ==
  IF n \in DOMAIN raw THEN raw[n]
  ELSE IF Len(n) < 2 \/ GetRaw(raw, Tail(n)) = Unknown THEN Unknown
  ELSE Derived(GetRaw(raw, Tail(n)), Head(n))

\* append_base_task_info: a list that the file leaves open is inherited.
ListsOf(def, base) == [l \in Lists |-> IF def[l] = <<>> THEN base[l] ELSE def[l][1]]

\* generate_ocr_task_info, generate_hash_task_info: so are the texts.
TextsOf(def, texts) == IF def.mark = <<>> THEN texts ELSE def.mark[1]

\* generate_match_task_info: the picture is not, it has the task's own name.
PictureOf(n) == n

\* generate_task_info: what belongs to the algorithm is inherited from the same
\* algorithm only.
Overlaid(n, def, base) ==
  LET algo == IF def.algo = "" THEN base.algo ELSE def.algo
  IN  [next |-> ListsOf(def, base).next, sub |-> ListsOf(def, base).sub, algo |-> algo,
       mark |-> IF algo = "match" THEN PictureOf(n)
                ELSE TextsOf(def, IF base.algo = algo THEN base.mark ELSE <<>>)]

-----------------------------------------------------------------------------
(* expend_sharp_task *)

\* One list: each entry once, the lists of others in place of "A#next".
RECURSIVE Expanded(_, _, _, _, _)
Expanded(raw, self, todo, seen, list) ==
  IF todo = <<>> THEN list
  ELSE LET e == Head(todo)
           Goes(more, names) == Expanded(raw, self, more \o Tail(todo), seen \cup {e}, list \o names)
           other == IF e.name = <<>> THEN DefaultInfo ELSE GetRaw(raw, e.name)
       IN  CASE e \in seen -> Expanded(raw, self, Tail(todo), seen, list)
             [] e \notin seen /\ e.what = "task" -> Goes(<<>>, <<e.name>>)
             [] e \notin seen /\ e.what = "self" -> Goes(<<>>, <<self>>)
             [] e \notin seen /\ e.what \notin {"task", "self"} /\ other = Unknown -> Failed
             [] e \notin seen /\ e.what = "back" /\ other # Unknown ->
                  Goes(<<>>, IF e.name = <<>> THEN <<>> ELSE <<e.name>>)
             [] e \notin seen /\ e.what \in Lists /\ other # Unknown -> Goes(other[e.what], <<>>)

Expansion(raw, n) ==
  LET info == GetRaw(raw, n)
      list(l) == Expanded(raw, n, info[l], {}, <<>>)
  IN  IF info = Unknown \/ (\E l \in Lists : list(l) = Failed) THEN Unknown
      ELSE [info EXCEPT !.next = list("next"), !.sub = list("sub")]

\* The table of expanded tasks after some were expanded; one that fails stays as it was.
WithExpansions(all, raw, names) ==
  LET good == {n \in names : Expansion(raw, n) # Unknown}
  IN  [n \in DOMAIN all \cup good |-> IF n \in good THEN Expansion(raw, n) ELSE all[n]]

-----------------------------------------------------------------------------
(* parse: each task after the one it is made of *)

Stored(s, n, info) ==
  [s EXCEPT !.raw = [k \in DOMAIN @ \cup {n} |-> IF k = n THEN info ELSE @[k]],
            !.status[n] = "done", !.ok = TRUE]

No(s) == [s EXCEPT !.ok = FALSE]

\* Fault: a task may be made of one that is still to be generated.
RECURSIVE GenerateAsItComes(_, _)
GenerateAsItComes(s, n) ==
  LET def == s.file[n]
      old == IF def.base \in {NoBase, Clean} THEN n ELSE def.base
  IN  IF n \notin DOMAIN s.file THEN No(s)
      ELSE Stored(s, n, Overlaid(n, def, IF GetRaw(s.raw, old) = Unknown THEN DefaultInfo ELSE GetRaw(s.raw, old)))

\* generate_fun; s is the table of statuses, the tasks so far and the last answer.
RECURSIVE Generate(_, _)
Generate(s, n) ==
  LET status == IF n \in DOMAIN s.status THEN s.status[n] ELSE "done"
      def == s.file[n]
      t == [s EXCEPT !.status[n] = "generating"]
      ofBase == Generate(t, def.base)
      ofTail == Generate(t, Tail(n))
  IN CASE status = "done" /\ n \in DOMAIN s.raw -> [s EXCEPT !.ok = TRUE]
       [] status = "done" /\ n \notin DOMAIN s.raw -> IF Len(n) > 1 THEN Generate(s, Tail(n)) ELSE No(s)
       [] status = "generating" -> No(s)
       [] status = "to do" /\ def.base \notin {NoBase, Clean} ->
            IF ofBase.ok THEN Stored(ofBase, n, Overlaid(n, def, GetRaw(ofBase.raw, def.base))) ELSE ofBase
       [] status = "to do" /\ def.base = NoBase /\ n \in DOMAIN s.raw ->
            Stored(t, n, Overlaid(n, def, s.raw[n]))
       [] status = "to do" /\ (def.base = Clean \/ (def.base = NoBase /\ n \notin DOMAIN s.raw)) ->
            IF Len(n) > 1 /\ ofTail.ok
            THEN Stored(ofTail, n, Overlaid(n, def, Derived(GetRaw(ofTail.raw, Tail(n)), Head(n))))
            ELSE LET u == IF Len(n) > 1 THEN ofTail ELSE t
                 IN  Stored(u, n, Overlaid(n, def, DefaultInfo))

\* A file: what it says of some of the names.
Files(said) == UNION {{f \in [K -> UNION {said[k] : k \in K}] : \A k \in K : f[k] \in said[k]} : K \in SUBSET ToSet(Keys)}

None == [k \in {} |-> Unknown]

ResInit ==
  res = [at |-> "none", file |-> None, todo |-> <<>>, status |-> None, raw |-> None, all |-> None,
         loads |-> 0, before |-> None, early |-> {}]

\* AsstLoadResource, the second time for the files of another server
LoadTasks ==
  /\ res.at \in {"none", "ready"} /\ res.loads < 2
  /\ \E f \in Files(IF res.loads = 0 THEN Definitions ELSE Overrides) :
       res' = [res EXCEPT !.at = "parse", !.file = f, !.todo = SelectSeq(Keys, LAMBDA k : k \in DOMAIN f),
                 !.status = [k \in DOMAIN f |-> "to do"], !.loads = @ + 1, !.before = res.raw,
                 !.early = {n \in DOMAIN res.all : n \notin DOMAIN res.raw}]

GenerateNext ==
  /\ res.at = "parse" /\ res.todo # <<>>
  /\ LET s == Generate([status |-> res.status, raw |-> res.raw, file |-> res.file, ok |-> TRUE], Head(res.todo))
     IN  res' = [res EXCEPT !.todo = Tail(@), !.status = s.status, !.raw = s.raw]

ExpandAll ==
  /\ res.at = "parse" /\ res.todo = <<>>
  /\ res' = [res EXCEPT !.at = "ready", !.status = None, !.all = WithExpansions(@, res.raw, DOMAIN res.raw)]

\* get(), at any time from any task
GetTask(n) ==
  /\ res.at = "ready" /\ n \notin DOMAIN res.all
  /\ res' = [res EXCEPT !.all = WithExpansions(@, res.raw, {n})]

ResNext == LoadTasks \/ GenerateNext \/ ExpandAll \/ \E n \in Names : GetTask(n)

-----------------------------------------------------------------------------
\* What a definition is made of, for a file over the tasks there were before.
Origin(n) ==
  LET def == res.file[n] IN
  IF n \notin DOMAIN res.file THEN IF n \in DOMAIN res.before \/ Len(n) = 1 THEN <<>> ELSE Tail(n)
  ELSE IF def.base \notin {NoBase, Clean} THEN def.base
  ELSE IF def.base = NoBase /\ n \in DOMAIN res.before THEN <<>>
  ELSE Tail(n)

RECURSIVE Chain(_, _)
Chain(n, seen) == n = <<>> \/ (n \notin seen /\ Chain(Origin(n), seen \cup {n}))

RECURSIVE Meant(_)
Meant(n) ==
  LET o == Origin(n)
      m == Meant(o)
      own == n \in DOMAIN res.file
      base == IF own /\ res.file[n].base \notin {NoBase, Clean} THEN m
              ELSE IF o # <<>> THEN IF m = Unknown THEN IF own THEN DefaultInfo ELSE Unknown ELSE Derived(m, Head(n))
              ELSE IF n \in DOMAIN res.before /\ ~(own /\ res.file[n].base = Clean) THEN res.before[n]
              ELSE IF own THEN DefaultInfo ELSE Unknown
  IN  IF base = Unknown \/ ~own THEN base ELSE Overlaid(n, res.file[n], base)

\* Whatever the order of the names and the way a task is made of others, each means
\* what its file says of it and of those it is made of, unless they are made of each
\* other; and a look into the table finds what an expansion would give now, unless
\* it is left from a lookup before another file was loaded.
TasksAreMeant ==
  res.at = "ready" =>
    /\ \A n \in DOMAIN res.file : Chain(n, {}) =>
         IF Meant(n) = Unknown THEN n \notin DOMAIN res.raw \/ n \in DOMAIN res.before
         ELSE n \in DOMAIN res.raw /\ res.raw[n] = Meant(n)
    /\ \A n \in DOMAIN res.all \ res.early :
         res.all[n] = Expansion(res.raw, n) \/ Expansion(res.raw, n) = Unknown
=============================================================================
