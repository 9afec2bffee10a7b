--------------------------- MODULE BenchmarkTask ---------------------------
(***************************************************************************)
(* How a benchmark's task becomes a TaskSpec: the loaders of DeepSWE and   *)
(* SWE-bench Pro V2 (adapters/benchmarks/deepswe.py, swe_bench_pro.py,     *)
(* swe_bench_pro_v2.py) on a corpus in a working tree that other programs  *)
(* may check out anew at any time.                                         *)
(*                                                                         *)
(* The visible files of a task are a record of what the loaders look at.   *)
(* A digest stands for what it is taken of, line endings aside.  Nothing   *)
(* under tests/ or solution/ appears here: no loader opens it.             *)
(***************************************************************************)
EXTENDS Integers

CONSTANTS
  Ids,        \* task directories
  Commits,    \* full commit IDs
  Images,     \* image references
  Digests,    \* image IDs
  Languages,  \* supported languages
  None        \* what is absent

\* task.toml and instruction.md.  commit is the full ID the recorded one belongs to,
\* abbreviated or not; a field that is FALSE or None is one the loaders refuse.
VisibleType ==
  [schema : BOOLEAN, tables : BOOLEAN, offline : BOOLEAN, linux : BOOLEAN, named : BOOLEAN,
   numbers : BOOLEAN, instruction : {"text", "delivery", "blank"},
   language : Languages \cup {None}, commit : Commits \cup {None}, abbreviated : BOOLEAN,
   image : Images \cup {None}, crlf : BOOLEAN]

\* A row of the V1 split as projected, without the columns that hold answers.
RowType == [complete : BOOLEAN, language : Languages \cup {None}, commit : Commits \cup {None}]

\* What the pin file, or the command line of V2, says about one task.
OptionType ==
  [commit : Commits \cup {None}, language : Languages \cup {None}, reason : BOOLEAN,
   digest : Digests \cup {None}]

TaskType == [id : Ids, language : Languages, commit : Commits, image : Images,
             digest : Digests \cup {None}]

IsCorpus(c) == DOMAIN c \subseteq Ids /\ \A d \in DOMAIN c : c[d] \in VisibleType
IsSplit(s)  == DOMAIN s \subseteq Ids /\ \A d \in DOMAIN s : s[d] \in RowType

----------------------------------------------------------------------------
(* Identity of a corpus.                                                   *)

\* agent_files_digest(), v2_visible_corpus_digest(): equal for equal visible files, of
\* whatever line endings.
DigestOf(corpus) == [d \in DOMAIN corpus |-> [corpus[d] EXCEPT !.crlf = FALSE]]

\* The number of tasks and the digest; the digest covers the names.
MatchesPin(corpus, pinned) == DigestOf(corpus) = DigestOf(pinned)

----------------------------------------------------------------------------
(* DeepSWE.                                                                *)

\* project_deepswe_task() and the name of the directory.
Projects(v) == v.schema /\ v.tables /\ v.offline /\ v.linux /\ v.named

\* format_deepswe_instruction(): Harbor's delivery line is not an instruction.
Instructs(v) == v.instruction = "text"

\* pinned_load_options()
OptionsAllowed(o) == o.language # None => o.reason

LanguageAllowed(v, o) ==
  /\ v.language # None
  /\ o.language # None => o.language # v.language

\* An abbreviated commit needs the full one it is a prefix of.
CommitAllowed(v, o) ==
  /\ v.commit # None
  /\ IF o.commit = None THEN ~v.abbreviated ELSE o.commit = v.commit

\* load_deepswe_task() and TaskSpec.__post_init__
Normalizes(v, o) ==
  /\ LanguageAllowed(v, o)
  /\ CommitAllowed(v, o)
  /\ v.image # None
  /\ Instructs(v)
  /\ v.numbers

DeepSWETask(d, v, o) ==
  [id |-> d, language |-> IF o.language = None THEN v.language ELSE o.language,
   commit |-> v.commit, image |-> v.image, digest |-> o.digest]

----------------------------------------------------------------------------
(* SWE-bench Pro V2 on top of V1.                                          *)

\* load_swe_bench_pro_task() of one projected row
RowAllowed(row) == row.complete /\ row.language # None /\ row.commit # None

\* load_tasks() of V1, without a request: all rows or none.
SplitAllowed(split) == \A d \in DOMAIN split : RowAllowed(split[d])

\* The image of a V2 task is the one that is named for its directory.
V2Allowed(v, named) ==
  /\ v.schema /\ v.tables /\ v.named /\ v.offline /\ v.linux
  /\ v.image = named
  /\ v.numbers
  /\ v.instruction # "blank"

V2Task(d, v, row, o) ==
  [id |-> d, language |-> row.language, commit |-> row.commit, image |-> v.image,
   digest |-> o.digest]
=============================================================================
