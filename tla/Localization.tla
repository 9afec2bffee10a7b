---------------------------- MODULE Localization ----------------------------
(***************************************************************************)
(* How one run comes from the replies of its localization stages to the     *)
(* source a repair prompt shows and the lines its repair may edit:          *)
(* localization/ and the stages of workflow/fixed.py.                      *)
(*                                                                         *)
(* A reply is a sequence of lines: a path, a location (label and name), a  *)
(* line location, the boundary between two fenced blocks, or anything else. *)
(* A file is a record                                                      *)
(*   [suffix, directories, broken, tops, symbols, globals, lines, split]   *)
(* where tops are the types of its top nodes, symbols and globals what     *)
(* resolution looks at: the symbols of a Python module with their methods  *)
(* as children and its assignments, all symbols of another file.  It has   *)
(* two counts of lines: the language adapters know that of                 *)
(* str.splitlines(), rendering splits at line feeds only.  Intervals are   *)
(* sets of pairs, since merging sorts them.                                *)
(***************************************************************************)
EXTENDS LanguageSpecs, Integers, Sequences, FiniteSets

CONSTANTS
  Languages,     \* of the task
  FilesOf,       \* repository of each language: path -> file
  FileReplies, SymbolReplies, EditReplies,   \* what each stage may be answered, by language
  Window,        \* lines of context around a location; 10
  MaxFiles,      \* files a reply may select; 5
  Samples        \* edit-localization samples of a run

ASSUME WindowAssumption == Window \in Nat /\ MaxFiles \in Nat \ {0} /\ Samples \in Nat \ {0}

\* get_language_adapter()
ASSUME LanguagesAssumption == Languages \subseteq DOMAIN Specs \cup {"python"}

IsRegion(symbol) ==
  symbol.first \in Nat /\ symbol.last \in Nat /\ symbol.first <= symbol.last

\* A symbol begins in its file; int() also reads numbers that no line has.
ASSUME LocalizeAssumption ==
  \A l \in Languages :
    /\ \A f \in DOMAIN FilesOf[l] :
         LET file == FilesOf[l][f]
         IN  /\ file.lines \in Nat /\ file.split \in Nat \ {0}
             /\ \A i \in DOMAIN file.symbols :
                  LET symbol == file.symbols[i]
                  IN  /\ IsRegion(symbol)
                      /\ IF l # "python" THEN symbol.first <= file.lines
                         ELSE \A j \in DOMAIN symbol.children : IsRegion(symbol.children[j])
             /\ \A name \in DOMAIN file.globals : IsRegion(file.globals[name])
    /\ \A reply \in SymbolReplies[l] \cup EditReplies[l] : \A i \in DOMAIN reply :
         i \in Nat /\ (reply[i].is = "line" => reply[i].n \in Int)

VARIABLES
  language, mode,   \* of the run; mode: "coarse", "single" or "samples"
  stage,            \* the reply the run waits for, "repair" or "failed"
  selected,         \* files that are localized
  nodes,            \* path -> what is known of the file
  coarse,           \* path -> intervals of the symbol stage
  repairPlan        \* one entry per repair context

lvars == <<language, mode, stage, selected, nodes, coarse, repairPlan>>

SourceFiles == FilesOf[language]

LocalizeInit ==
  /\ language \in Languages
  /\ mode \in {"coarse", "single", "samples"}
  /\ stage = "files"
  /\ selected = {}
  /\ nodes = <<>>
  /\ coarse = <<>>
  /\ repairPlan = <<>>

FailToLocalize ==
  /\ stage' = "failed"
  /\ UNCHANGED <<language, mode, selected, nodes, coarse, repairPlan>>

Earliest(indices) == {i \in indices : \A j \in indices : i <= j}
Latest(indices)   == {i \in indices : \A j \in indices : j <= i}

----------------------------------------------------------------------------
(* Files.                                                                  *)

IsSource(file) ==
  IF language = "python" THEN file.suffix = ".py"
  ELSE /\ file.suffix \in Specs[language].extensions
       /\ file.directories \cap Specs[language].skipped = {}

Known == {f \in DOMAIN SourceFiles : IsSource(SourceFiles[f])}

\* parse_file_locations(): known paths, with or without the name of the repository, once
\* each; the rest is skipped.
ParseFiles(reply) ==
  LET Names(i)  == reply[i].form # "unsafe" /\ reply[i].path \in Known
      Before(i) == {reply[j].path : j \in {j \in 1..(i - 1) : Names(j)}}
  IN  {reply[i].path : i \in {i \in DOMAIN reply : Names(i) /\ Cardinality(Before(i)) < MaxFiles}}

\* A file with a syntax error, without what its language requires or not in UTF-8.
Parses(f) ==
  /\ ~SourceFiles[f].broken
  /\ language # "python" => Specs[language].requires \subseteq SourceFiles[f].tops

Localize(chosen) ==
  IF Known = {} \/ chosen = {} \/ \E f \in chosen : ~Parses(f)
    THEN FailToLocalize
    ELSE /\ selected' = chosen
         /\ nodes' = [f \in chosen |-> SourceFiles[f]]
         /\ stage' = "symbols"
         /\ UNCHANGED <<language, mode, coarse, repairPlan>>

FileReply(reply) == stage = "files" /\ Localize(ParseFiles(reply))

----------------------------------------------------------------------------
(* Locations of one file.                                                  *)

Labels ==
  [function |-> {"function", "method"}, method |-> {"method"},
   type |-> {"type", "struct", "interface", "enum", "trait"}, trait |-> {"trait"},
   impl |-> {"impl"}, module |-> {"module"}, class |-> {"class"}, field |-> {"field"},
   variable |-> {"variable", "constant", "object"}, constant |-> {"constant"}]

Span(symbol) == <<symbol.first, symbol.last>>
Spans(symbols, indices) == {Span(symbols[i]) : i \in indices}

\* resolve_symbol_locations(): a name must be of exactly one symbol.
NeutralRegions(f, location) ==
  LET Matches(s) ==
        /\ location.label \in DOMAIN Labels /\ s.kind \in Labels[location.label]
        /\ s.qualified = location.name \/ (Len(location.name) = 1 /\ s.name = location.name)
      matches == {i \in DOMAIN nodes[f].symbols : Matches(nodes[f].symbols[i])}
  IN  IF location.is = "line"
        THEN IF location.n \in 1..nodes[f].lines THEN {<<location.n, location.n>>} ELSE {}
        ELSE IF Cardinality(matches) = 1 THEN Spans(nodes[f].symbols, matches) ELSE {}

OfKind(f, kind) == {i \in DOMAIN nodes[f].symbols : nodes[f].symbols[i].kind = kind}
Named(symbols, name) == {i \in DOMAIN symbols : symbols[i].name = <<name>>}
Class(f, name) == Earliest(OfKind(f, "class") \cap Named(nodes[f].symbols, name))
MethodSpans(f, classes, name) ==
  UNION {LET methods == nodes[f].symbols[i].children
         IN  Spans(methods, Earliest(Named(methods, name))) : i \in classes}

\* _resolve_agentless_locations(): the first symbol of a name counts; a plain function is
\* one of the module, else of the class last named, else the only method of that name.
PythonRegions(f, location, scope) ==
  LET name == location.name
      functions == OfKind(f, "function") \cap Named(nodes[f].symbols, name[1])
      methods == UNION {{i} \X Named(nodes[f].symbols[i].children, name[1]) : i \in OfKind(f, "class")}
      globals == nodes[f].globals
  IN  IF location.is = "line" THEN {<<location.n, location.n>>}
      ELSE IF location.label = "class" /\ Len(name) = 1 THEN Spans(nodes[f].symbols, Class(f, name[1]))
      ELSE IF Len(name) > 1 THEN MethodSpans(f, Class(f, name[1]), name[2])
      ELSE IF location.label = "function" THEN
        IF functions # {} THEN Spans(nodes[f].symbols, Earliest(functions))
        ELSE IF scope # {} THEN MethodSpans(f, scope, name[1])
        ELSE IF Cardinality(methods) = 1 THEN MethodSpans(f, {m[1] : m \in methods}, name[1]) ELSE {}
      ELSE IF location.label = "variable" /\ name[1] \in DOMAIN globals THEN {Span(globals[name[1]])}
      ELSE {}

\* What of a reply is about file f: a path starts the locations of a file, what follows a
\* path that is not selected is dropped, and blocks do not matter.
LocationsOf(f, reply) ==
  {i \in DOMAIN reply :
     /\ reply[i].is \in {"symbol", "line"}
     /\ \E j \in Latest({j \in 1..i : reply[j].is = "file"}) : reply[j].path = f}

\* The class a location names, and that named last before location i.
ClassNamed(f, location) ==
  IF location.is = "symbol" /\ location.label = "class" /\ Len(location.name) = 1
    THEN Class(f, location.name[1]) ELSE {}
Scope(f, reply, i) ==
  LET naming == {j \in LocationsOf(f, reply) : j < i /\ ClassNamed(f, reply[j]) # {}}
  IN  UNION {ClassNamed(f, reply[j]) : j \in Latest(naming)}

RegionsOf(f, location, scope) ==
  IF language = "python" THEN PythonRegions(f, location, scope) ELSE NeutralRegions(f, location)

\* parse_locations_for_files(), resolve_locations()
SymbolRegions(reply) ==
  [f \in selected |->
     UNION {RegionsOf(f, reply[i], Scope(f, reply, i)) : i \in LocationsOf(f, reply)}]

----------------------------------------------------------------------------
(* Intervals and what they show.                                           *)

Least(a, b) == IF a < b THEN a ELSE b
Most(a, b) == IF a > b THEN a ELSE b

Widened(f, span) ==
  LET from == span[1] - Window
      to   == span[2] + Window
  IN  IF language = "python"
        THEN <<Least(Most(from, 0), nodes[f].split), Most(Least(to, nodes[f].split), 0)>>
        ELSE <<Most(1, from), Least(nodes[f].lines, to)>>

\* merge_intervals(): what overlaps is one interval.  It begins where no interval that
\* began before reaches, ends where none goes on, and no other one begins in between.
Merge(intervals) ==
  LET starts == {s[1] : s \in {s \in intervals : \A t \in intervals : t[1] >= s[1] \/ t[2] < s[1]}}
      ends   == {s[2] : s \in {s \in intervals : \A t \in intervals : t[1] > s[2] \/ t[2] <= s[2]}}
  IN  {m \in starts \X ends : m[1] <= m[2] /\ \A c \in starts : c <= m[1] \/ c > m[2]}

\* construct_selected_context(): files without any resolved location are left out.
Context(regions) ==
  [f \in {g \in DOMAIN regions : regions[g] # {}} |-> Merge({Widened(f, s) : s \in regions[f]})]

FromOne(f, span) == <<Most(1, span[1]), span[2]>>

\* Mutant: intervals keep the end that the adapter gave them.
ShownOnlyFromOne(f, span) == FromOne(f, span)

\* visible_intervals: no line behind the last one that is rendered.
Shown(f, span) == <<Most(1, span[1]), Least(nodes[f].split, span[2])>>

\* Intervals as a repair context takes them, or as the numbered context shows them.
Over(intervals, visible) ==
  [f \in DOMAIN intervals |->
     {IF visible THEN Shown(f, s) ELSE FromOne(f, s) : s \in intervals[f]}]

LinesOf(intervals) == UNION {s[1]..s[2] : s \in intervals}

\* _line_wrap_content(): an interval is shown from its first line on, and that line always.
RenderedLines(f, intervals) ==
  {l \in 1..nodes[f].split :
     \E s \in intervals : l >= s[1] /\ (l <= s[2] \/ l = Most(1, s[1]))}

Rendered(intervals) == [f \in DOMAIN intervals |-> RenderedLines(f, intervals[f])]

----------------------------------------------------------------------------
(* Symbols.                                                                *)

\* Mutant: a repair may edit what the symbol stage selected.
EntryOfSymbols(regions, targets) ==
  [shown |-> Rendered(Context(regions)), authorized |-> Over(coarse, TRUE), targets |-> targets]

\* A repair context: the lines its prompt shows, those a repair may edit.
Entry(regions, targets) ==
  [shown |-> Rendered(Context(regions)), authorized |-> Over(Context(regions), TRUE),
   targets |-> targets]

SymbolReply(reply) ==
  LET context == Context(SymbolRegions(reply))
  IN  /\ stage = "symbols"
      /\ IF DOMAIN context = {} THEN FailToLocalize
         ELSE /\ coarse' = context
              /\ stage' = IF mode = "coarse" THEN "repair" ELSE "edit"
              /\ repairPlan' = IF mode # "coarse" THEN repairPlan
                               ELSE <<[shown |-> Rendered(context), authorized |-> Over(context, FALSE),
                                       targets |-> <<>>]>>
              /\ UNCHANGED <<language, mode, selected, nodes>>

----------------------------------------------------------------------------
(* Lines to edit.                                                          *)

VisibleIntervals == Over(coarse, TRUE)

\* The file that line i of a reply is about: named last, and in the same block.
TargetFile(reply, i) ==
  {reply[j].path : j \in {j \in Latest({j \in 1..i : reply[j].is \in {"file", "boundary"}}) :
                            reply[j].is = "file"}}

\* parse_edit_locations(): lines of files, as they were shown; anything else is an error.
IsTarget(reply, i) ==
  \/ reply[i].is = "boundary"
  \/ reply[i].is = "file" /\ reply[i].path \in DOMAIN VisibleIntervals
  \/ /\ reply[i].is = "line" /\ reply[i].n >= 1
     /\ \E f \in TargetFile(reply, i) :
          f \in DOMAIN VisibleIntervals /\ reply[i].n \in LinesOf(VisibleIntervals[f])

ParseTargets(reply) ==
  LET LinesIn(f) == {i \in DOMAIN reply : reply[i].is = "line" /\ f \in TargetFile(reply, i)}
  IN  [f \in {f \in DOMAIN VisibleIntervals : LinesIn(f) # {}} |->
         {reply[i].n : i \in LinesIn(f)}]

TargetRegions(targets) ==
  [f \in DOMAIN targets |->
     UNION {RegionsOf(f, [is |-> "line", n |-> n], {}) : n \in targets[f]}]

EditReply(reply) ==
  LET targets == ParseTargets(reply)
  IN  /\ stage = "edit"
      /\ IF DOMAIN targets = {} \/ \E i \in DOMAIN reply : ~IsTarget(reply, i)
           THEN FailToLocalize
           ELSE /\ repairPlan' = Append(repairPlan, Entry(TargetRegions(targets), targets))
                /\ stage' = IF mode = "samples" /\ Len(repairPlan') < Samples
                              THEN "edit" ELSE "repair"
                /\ UNCHANGED <<language, mode, selected, nodes, coarse>>

----------------------------------------------------------------------------
LocalizeNext ==
  \/ \E reply \in FileReplies[language] : FileReply(reply)
  \/ \E reply \in SymbolReplies[language] : SymbolReply(reply)
  \/ \E reply \in EditReplies[language] : EditReply(reply)

LocalizeSpec == LocalizeInit /\ [][LocalizeNext]_lvars

----------------------------------------------------------------------------
(* Properties.                                                             *)

\* A repair can be authorized to edit a line only if its own prompt shows that line,
\* whatever lines, symbols and files the replies name and however lines are counted.
AuthorizedLinesAreShown ==
  \A i \in DOMAIN repairPlan : \A f \in DOMAIN repairPlan[i].authorized :
    /\ f \in DOMAIN repairPlan[i].shown
    /\ LinesOf(repairPlan[i].authorized[f]) \cap (1..nodes[f].split) \subseteq repairPlan[i].shown[f]

\* A line that an edit-localization reply names and the run accepts was in the numbered
\* context of its prompt, and its own repair may edit it.
TargetsAreEditable ==
  \A i \in DOMAIN repairPlan : \A f \in DOMAIN repairPlan[i].targets :
    /\ f \in DOMAIN coarse /\ repairPlan[i].targets[f] \subseteq RenderedLines(f, coarse[f])
    /\ f \in DOMAIN repairPlan[i].authorized
    /\ repairPlan[i].targets[f] \subseteq LinesOf(repairPlan[i].authorized[f])
=============================================================================
