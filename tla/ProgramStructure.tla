-------------------------- MODULE ProgramStructure --------------------------
(***************************************************************************)
(* What localization knows about a source file: its symbols with their edit *)
(* regions (structure/engine.py; for Python adapters/languages/python.py)  *)
(* and what of it the skeleton in the symbol prompt still shows            *)
(* (structure/skeleton.py; for Python _SkeletonTransformer).               *)
(*                                                                         *)
(* A parse tree is a function from places to nodes.  The place of the root *)
(* is <<>>, that of child i of the node at p is Append(p, i).  A node is a *)
(* record                                                                  *)
(*   [type, role, text, first, last, flush, kids]                          *)
(* where role is the field of its parent that it fills, first and last are *)
(* the lines it touches, flush says that it ends before the first          *)
(* character of last, and kids is the number of its children.  A name is a *)
(* sequence of identifiers; how they are joined is left out.               *)
(***************************************************************************)
EXTENDS LanguageSpecs, Integers, Sequences

CONSTANT None

Above(p) == {SubSeq(p, 1, n) : n \in 0..(Len(p) - 1)}
Kids(tree, p) == {Append(p, i) : i \in 1..tree[p].kids}

\* child_by_field_name()
ChildAt(tree, p, field) ==
  LET filling == {i \in 1..tree[p].kids : tree[Append(p, i)].role = field}
  IN  IF filling = {} THEN None
      ELSE Append(p, CHOOSE i \in filling : \A j \in filling : i <= j)

FirstChildAt(tree, p, fields) ==
  LET filled == {i \in DOMAIN fields : ChildAt(tree, p, fields[i]) # None}
  IN  IF filled = {} THEN None
      ELSE ChildAt(tree, p, fields[CHOOSE i \in filled : \A j \in filled : i <= j])

----------------------------------------------------------------------------
(* Names and declarations.                                                 *)

\* Naming.resolve(): chains of members are joined, and what is computed has no name.
NameOf(spec, tree, place) ==
  LET name[p \in DOMAIN tree] ==
        LET owner  == ChildAt(tree, p, "object")
            member == ChildAt(tree, p, "property")
        IN  IF tree[p].type \notin spec.chains
              THEN IF spec.literal = {} \/ tree[p].type \in spec.literal
                     THEN <<tree[p].text>> ELSE None
            ELSE IF owner = None \/ member = None THEN None
            ELSE IF name[owner] = None \/ name[member] = None THEN None
            ELSE name[owner] \o name[member]
  IN  IF place = None THEN None ELSE name[place]

\* impl Counter, impl Reset for Counter
ImplName(tree, p) ==
  LET type == tree[ChildAt(tree, p, "type")].text
      trait == ChildAt(tree, p, "trait")
  IN  <<IF trait = None THEN type ELSE "<" \o type \o " as " \o tree[trait].text \o ">">>

\* The type of a Go receiver, without pointer and type arguments.
Receiver(tree, p) ==
  LET typeOf(q) == ChildAt(tree, q, "type")
      target(q) == IF tree[q].type = "pointer_type" THEN Append(q, 1) ELSE q
      plain(q)  == IF tree[q].type = "generic_type" THEN typeOf(q) ELSE q
  IN  <<tree[plain(target(typeOf(Append(ChildAt(tree, p, "receiver"), 1))))].text>>

Declaration(owner, name, kind, span, qualifier) ==
  [owner |-> owner, name |-> name, kind |-> kind, span |-> span, qualifier |-> qualifier]

Or(a, b) == IF a = None THEN b ELSE a
Get(map, key, default) == IF key \in DOMAIN map THEN map[key] ELSE default

\* The name a rule reads off a node.
RuleName(spec, tree, rule, p) ==
  IF rule.names = "impl" THEN ImplName(tree, p)
  ELSE NameOf(spec, tree, FirstChildAt(tree, p, rule.fields))

DeclaredKind(rule, tree, p, scope) ==
  LET typed == ChildAt(tree, p, "type")
  IN  IF rule.typed # NoKinds /\ typed # None THEN Get(rule.typed, tree[typed].type, rule.kind)
      ELSE Get(rule.within, scope.kind, rule.kind)

\* declares()
Declared(spec, tree, rule, p, scope) ==
  LET Named(name) ==
        IF name = None THEN <<>>
        ELSE <<Declaration(p, name, DeclaredKind(rule, tree, p, scope), None,
                           IF rule.owner = "receiver" THEN Receiver(tree, p) ELSE None)>>
  IN  Named(RuleName(spec, tree, rule, p))

\* declares_each()
DeclaredEach(spec, tree, rule, p) ==
  LET Names(i) == LET q == tree[Append(p, i)] IN q.role = "name" /\ q.text # "_"
  IN  [i \in {i \in 1..tree[p].kids : Names(i)} |->
         Declaration(p, NameOf(spec, tree, Append(p, i)), rule.kind, None, None)]

\* A value owns the symbol, what binds it keeps the span.
Valued(tree, rule, value, name, span) ==
  Declaration(value, name, Get(rule.values, tree[value].type, rule.kind), span, None)

\* binds(), with _binding_kind()
Bound(spec, tree, rule, p) ==
  LET constant == rule.names = "keyword" /\ tree[p].text = "const"
      Binding(name, value) ==
        IF name = None THEN <<>>
        ELSE IF value # None /\ tree[value].type \in DOMAIN rule.values
          THEN <<Valued(tree, rule, value, name, p)>>
        ELSE <<Declaration(p, name, IF constant THEN "constant" ELSE rule.kind, p, None)>>
  IN  Binding(RuleName(spec, tree, rule, p), ChildAt(tree, p, "value"))

\* _default_export(): the export wrapper handles exported declarations.
Exported(spec, tree, rule, p) ==
  LET Export(value) ==
        IF ChildAt(tree, p, "declaration") # None \/ value = None THEN <<>>
        ELSE <<Valued(tree, rule, value,
                      Or(NameOf(spec, tree, ChildAt(tree, value, "name")), <<"default">>), p)>>
  IN  Export(ChildAt(tree, p, "value"))

\* _top_level_assignment(): CommonJS exports and functions assigned to members.
Assigned(spec, tree, rule, p) ==
  LET assignment == Append(p, 1)
      Begins(target, prefix) == Len(target) > Len(prefix) /\ SubSeq(target, 1, Len(prefix)) = prefix
      Exports(target) == \/ target = <<"module", "exports">>
                         \/ Begins(target, <<"exports">>) \/ Begins(target, <<"module", "exports">>)
      Member(left, right) == tree[left].type = "member_expression" /\ tree[right].type \in FunctionNodes
      Assigning(left, right, target) ==
        IF target = None THEN <<>>
        ELSE IF Exports(target) \/ Member(left, right)
          THEN <<Valued(tree, rule, right, target, assignment)>> ELSE <<>>
      Between(left, right) == Assigning(left, right, NameOf(spec, tree, left))
  IN  IF tree[p].kids # 1 THEN <<>>
      ELSE IF tree[assignment].type # "assignment_expression" THEN <<>>
      ELSE Between(ChildAt(tree, assignment, "left"), ChildAt(tree, assignment, "right"))

----------------------------------------------------------------------------
(* Symbols.                                                                *)

\* The nodes that one call of _walk() visits and what it knows of them: the container they
\* are in, and the wrapper whose span their symbols take.
WalkOf(nodes, kind, prefix, member, span) ==
  [nodes |-> nodes, kind |-> kind, prefix |-> prefix, member |-> member, span |-> span]

Top(tree) == WalkOf(Kids(tree, <<>>), "", <<>>, FALSE, None)

\* What a rule finds at a node, and what the rules do.
FoundBy(spec, tree, rule, p, walk) ==
  CASE rule.form = "declares" -> Declared(spec, tree, rule, p, walk)
    [] rule.form = "each"     -> DeclaredEach(spec, tree, rule, p)
    [] rule.form = "binds"    -> Bound(spec, tree, rule, p)
    [] rule.form = "export"   -> Exported(spec, tree, rule, p)
    [] OTHER                    -> Assigned(spec, tree, rule, p)

Found(spec, tree, p, walk) ==
  LET rules == IF walk.member THEN spec.members ELSE spec.declarations
  IN  IF \/ tree[p].type \in spec.ignored \cup spec.leading
         \/ tree[p].type \notin DOMAIN rules THEN <<>>
      ELSE FoundBy(spec, tree, rules[tree[p].type], p, walk)

Qualified(found, walk) == Or(found.qualifier, walk.prefix) \o found.name

\* The node whose children are the members of a symbol.
Members(spec, tree, found) ==
  IF found.kind \notin DOMAIN spec.containers THEN None
  ELSE IF spec.containers[found.kind] = "" THEN found.owner
  ELSE ChildAt(tree, found.owner, spec.containers[found.kind])

\* _symbol() walks the members of a symbol, _walk() what a wrapper without one contains.
Inside(spec, tree, walk, found) ==
  LET holding == {i \in DOMAIN found : Members(spec, tree, found[i]) # None}
  IN  {WalkOf(Kids(tree, Members(spec, tree, found[i])), found[i].kind, Qualified(found[i], walk),
              DOMAIN spec.members # {}, None) : i \in holding}

Wrapped(spec, tree, p, walk) ==
  LET wrapper == spec.wrappers[tree[p].type]
      child == ChildAt(tree, p, wrapper.field)
      inner == IF wrapper.field = "" THEN Kids(tree, p) ELSE {child} \ {None}
  IN  IF walk.member \/ tree[p].type \notin DOMAIN spec.wrappers THEN {}
      ELSE {WalkOf(inner, walk.kind, walk.prefix, FALSE, IF wrapper.widens THEN p ELSE walk.span)}

Opened(spec, tree, p, walk) ==
  LET Behind(found) == IF DOMAIN found # {} THEN Inside(spec, tree, walk, found)
                       ELSE Wrapped(spec, tree, p, walk)
  IN  Behind(Found(spec, tree, p, walk))

\* The walks that come by a node: that of the file, or one that a node above it opened.
WalksBy(spec, tree, walks, p) ==
  {walk \in {Top(tree)} \cup UNION {UNION {Opened(spec, tree, q, w) : w \in walks[q]} : q \in Above(p)} :
     p \in walk.nodes}

Walks(spec, tree) ==
  LET walks[p \in DOMAIN tree] == WalksBy(spec, tree, walks, p)
  IN  walks

\* A span that ends before the first character of a line ends on the line before.
LastLine(node) == node.last - (IF node.flush THEN 1 ELSE 0)

\* Attributes belong to what they annotate; anything else in between is not an attribute.
Leading(spec, tree, p, walk) ==
  LET Place(q) == q[Len(q)]
      before == {q \in walk.nodes : Place(q) < Place(p)}
      run == {q \in before : /\ tree[q].type \in spec.leading
                             /\ \A r \in before : Place(q) < Place(r) =>
                                  tree[r].type \in spec.leading \cup spec.ignored}
  IN  IF run = {} THEN None ELSE CHOOSE q \in run : \A r \in run : Place(q) <= Place(r)

SymbolOf(spec, tree, p, walk, found) ==
  LET Spanning(span) ==
        [kind |-> found.kind, name |-> found.name, qualified |-> Qualified(found, walk),
         node |-> found.owner, first |-> tree[Or(Leading(spec, tree, p, walk), span)].first,
         last |-> LastLine(tree[span])]
  IN  Spanning(Or(found.span, Or(walk.span, found.owner)))

Visits(tree, walks) == UNION {{p} \X walks[p] : p \in DOMAIN tree}

\* All symbols of a file, however deep: resolution looks through them in no order.
Symbols(spec, tree) ==
  LET FoundAt(visit) == Found(spec, tree, visit[1], visit[2])
  IN  [s \in UNION {{v} \X DOMAIN FoundAt(v) : v \in Visits(tree, Walks(spec, tree))} |->
         SymbolOf(spec, tree, s[1][1], s[1][2], FoundAt(s[1])[s[2]])]

----------------------------------------------------------------------------
(* Python: the classes and functions of the module and the methods of those *)
(* classes, by their number among the statements; decorators are outside   *)
(* of a region.                                                            *)

PythonFunctions == {"FunctionDef", "AsyncFunctionDef"}
PythonDefinitions == PythonFunctions \cup {"ClassDef"}

\* The numbers of the children of some types.
KidsOfType(tree, p, types) == {i \in 1..tree[p].kids : tree[Append(p, i)].type \in types}

PythonSymbol(tree, p, kind, prefix, children) ==
  [kind |-> kind, name |-> <<tree[p].text>>, qualified |-> prefix \o <<tree[p].text>>, node |-> p,
   first |-> tree[p].first, last |-> tree[p].last, children |-> children]

PythonMethods(tree, p) ==
  [j \in KidsOfType(tree, p, PythonFunctions) |->
     PythonSymbol(tree, Append(p, j), "method", <<tree[p].text>>, <<>>)]

PythonSymbols(tree) ==
  [i \in KidsOfType(tree, <<>>, PythonDefinitions) |->
     IF tree[<<i>>].type = "ClassDef"
       THEN PythonSymbol(tree, <<i>>, "class", <<>>, PythonMethods(tree, <<i>>))
       ELSE PythonSymbol(tree, <<i>>, "function", <<>>, <<>>)]

\* Module-level assignments of one or several names; the last one of a name counts.
PythonGlobals(tree) ==
  LET assigns == KidsOfType(tree, <<>>, {"Assign"})
      Targets(i) == {tree[q].text : q \in {q \in Kids(tree, <<i>>) : tree[q].role = "target"}}
      Binding(name) == {i \in assigns : name \in Targets(i)}
  IN  [name \in UNION {Targets(i) : i \in assigns} |->
         tree[<<CHOOSE i \in Binding(name) : \A j \in Binding(name) : j <= i>>]]

----------------------------------------------------------------------------
(* Skeletons.                                                              *)

\* Mutant: every body is hidden.
HidesAny(spec, tree, p) == ChildAt(tree, p, "body") # None

\* hide_bodies(): a body of these nodes becomes a marker.
Hides(spec, tree, p) == tree[p].type \in spec.elided /\ ChildAt(tree, p, "body") # None

\* The nodes a skeleton still shows, at least with their first lines.
Survivors(spec, tree) == {p \in DOMAIN tree : \A q \in Above(p) : ~Hides(spec, tree, q)}

\* Only definitions and assignments stay in a module; bodies of functions go.
PythonSurvivors(tree) ==
  LET top == {<<i>> : i \in KidsOfType(tree, <<>>, PythonDefinitions \cup {"Assign"})}
      classes == {p \in top : tree[p].type = "ClassDef"}
  IN  top \cup UNION {{q \in Kids(tree, p) : tree[q].type # "Docstring"} : p \in classes}
=============================================================================
