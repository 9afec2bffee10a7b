--------------------------- MODULE MCLocalization ---------------------------
(***************************************************************************)
(* Small instances of LocalizedProgram for TLC: repositories of up to      *)
(* three files in each of the languages that differ, and replies of a few  *)
(* lines.  Trees are written as terms.                                     *)
(***************************************************************************)
EXTENDS LocalizedProgram

CONSTANT none

\* A node, a node that fills a field, and names.
N(type, text, first, last, kids) ==
  [type |-> type, role |-> "", text |-> text, first |-> first, last |-> last, flush |-> FALSE, kids |-> kids]
At(role, node) == [node EXCEPT !.role = role]
Id(type, text, line) == At("name", N(type, text, line, line, <<>>))
Leaf(type, line) == N(type, "", line, line, <<>>)
Block(first, last, kids) == At("body", N("block", "", first, last, kids))

Root(kids) == N("root", "", 1, 20, kids)

----------------------------------------------------------------------------
PyA ==
  LET target(x) == At("target", Leaf("Name", 2))
      Def(name, first, last) == N("FunctionDef", name, first, last, <<Leaf("Expr", last)>>)
  IN  Root(<<Leaf("Import", 1),
             N("Assign", "", 2, 2, <<[At("target", Leaf("Name", 2)) EXCEPT !.text = "X"]>>),
             N("ClassDef", "C", 3, 6, <<Leaf("Docstring", 3), Def("m", 4, 5), Def("n", 6, 6)>>),
             N("ClassDef", "D", 7, 8, <<Def("m", 8, 8)>>),
             Def("f", 9, 10)>>)

GoA ==
  LET Name(text, line) == Id("identifier", text, line)
      Receiver_ == At("receiver", N("parameter_list", "", 5, 5, <<
                     N("parameter_declaration", "", 5, 5, <<
                       At("type", N("pointer_type", "", 5, 5, <<N("type_identifier", "T", 5, 5, <<>>)>>))>>)>>))
  IN  Root(<<Leaf("package_clause", 1),
             N("type_declaration", "", 2, 2, <<
               N("type_spec", "", 2, 2, <<Name("T", 2), At("type", Leaf("struct_type", 2))>>)>>),
             N("function_declaration", "", 3, 4, <<Name("F", 3), Block(3, 4, <<Leaf("call", 4)>>)>>),
             N("method_declaration", "", 5, 6, <<Receiver_, Name("M", 5), Block(5, 6, <<>>)>>),
             N("const_declaration", "", 7, 7, <<
               N("const_spec", "", 7, 7, <<Name("c", 7), Name("_", 7), Name("d", 7)>>)>>),
             N("type_declaration", "", 8, 9, <<
               N("type_spec", "", 8, 9, <<Name("I", 8),
                 At("type", N("interface_type", "", 8, 9, <<N("method_elem", "", 9, 9, <<Name("M", 9)>>)>>))>>)>>)>>)

GoB == Root(<<Leaf("package_clause", 1),
              N("function_declaration", "", 2, 3, <<Id("identifier", "G", 2), Block(2, 3, <<>>)>>)>>)

RustA ==
  LET Fn(name, first, last, kids) ==
        N("function_item", "", first, last, <<Id("identifier", name, first), Block(first, last, kids)>>)
  IN  Root(<<Leaf("attribute_item", 1), Leaf("line_comment", 2),
             N("struct_item", "", 3, 4, <<Id("type_identifier", "S", 3),
               Block(3, 4, <<N("field_declaration", "", 4, 4, <<Id("field_identifier", "x", 4)>>)>>)>>),
             N("impl_item", "", 5, 7, <<At("type", N("type_identifier", "S", 5, 5, <<>>)),
               At("trait", N("type_identifier", "R", 5, 5, <<>>)), Block(5, 7, <<Fn("m", 6, 7, <<>>)>>)>>),
             [N("mod_item", "", 8, 10, <<Id("identifier", "h", 8), Block(8, 10, <<Fn("f", 9, 9, <<>>)>>)>>)
                EXCEPT !.flush = TRUE],
             Fn("f", 11, 13, <<Fn("inner", 12, 12, <<>>)>>)>>)

TsA ==
  LET Name(text, line) == Id("identifier", text, line)
      Arrow(role, first, last) == At(role, N("arrow_function", "", first, last, <<Block(first, last, <<>>)>>))
      Chain(a, b, line) ==
        At("left", N("member_expression", "", line, line,
          <<At("object", N("identifier", a, line, line, <<>>)),
            At("property", N("property_identifier", b, line, line, <<>>))>>))
  IN  Root(<<N("export_statement", "", 1, 4, <<
               At("declaration", N("class_declaration", "", 2, 4, <<Name("C", 2),
                 Block(2, 4, <<N("method_definition", "", 3, 3, <<Name("m", 3), Block(3, 3, <<>>)>>),
                               N("public_field_definition", "", 4, 4, <<Name("g", 4), Arrow("value", 4, 4)>>)>>)>>))>>),
             N("lexical_declaration", "", 5, 6, <<
               N("variable_declarator", "const", 5, 6, <<Name("o", 5),
                 At("value", N("object", "", 5, 6, <<
                   N("pair", "", 6, 6, <<At("key", N("property_identifier", "p", 6, 6, <<>>)), Arrow("value", 6, 6)>>)>>))>>),
               N("variable_declarator", "const", 6, 6, <<Name("k", 6)>>)>>),
             N("expression_statement", "", 7, 8, <<
               N("assignment_expression", "", 7, 8, <<Chain("exports", "add", 7), Arrow("right", 7, 8)>>)>>),
             N("export_statement", "", 9, 10, <<Arrow("value", 9, 10)>>)>>)

\* The parse tree of a term.
RECURSIVE Places(_, _)
Places(term, p) ==
  {<<p, [term EXCEPT !.kids = Len(term.kids)]>>}
    \cup UNION {Places(term.kids[i], Append(p, i)) : i \in DOMAIN term.kids}

TreeOf(term) ==
  LET nodesOf == Places(term, <<>>)
  IN  [p \in {n[1] : n \in nodesOf} |-> (CHOOSE n \in nodesOf : n[1] = p)[2]]

\* The files of a repository: a path, and what its file is like but for its language.
Source(suffix, term, split, lines) ==
  [suffix |-> suffix, term |-> term, split |-> split, lines |-> lines,
   directories |-> {}, broken |-> FALSE]

Sources ==
  [python |-> [a |-> Source(".py", PyA, 11, 10),
               broken |-> [Source(".py", Root(<<>>), 2, 1) EXCEPT !.broken = TRUE],
               notes |-> Source(".txt", Root(<<>>), 2, 1)],
   go |-> [a |-> Source(".go", GoA, 10, 9), b |-> Source(".go", GoB, 4, 6),
           broken |-> Source(".go", Root(<<>>), 2, 1)],
   rust |-> [a |-> Source(".rs", RustA, 14, 13),
             vendored |-> [Source(".rs", RustA, 14, 13) EXCEPT !.directories = {"vendor"}]],
   typescript |-> [a |-> Source(".ts", TsA, 10, 10),
                   b |-> Source(".js", N("root", "", 1, 1, <<>>), 1, 0)]]

FileOf(l, source) ==
  LET tree == TreeOf(source.term)
  IN  [suffix |-> source.suffix, directories |-> source.directories, broken |-> source.broken,
       tree |-> tree, tops |-> TopsOf(tree), symbols |-> SymbolsOf(l, tree),
       globals |-> GlobalsOf(l, tree), split |-> source.split, lines |-> source.lines]

MCFilesOf ==
  [l \in DOMAIN Sources |-> [f \in DOMAIN Sources[l] |-> FileOf(l, Sources[l][f])]]

----------------------------------------------------------------------------
P(path)  == [is |-> "file", path |-> path]
S(label, name) == [is |-> "symbol", label |-> label, name |-> name]
L(n)     == [is |-> "line", n |-> n]
Boundary == [is |-> "boundary"]
Other    == [is |-> "other"]

MCFileReplies ==
  [lang \in DOMAIN Sources |->
     {<<>>} \cup {<<[path |-> f, form |-> form]>> : f \in DOMAIN Sources[lang] \cup {"new"}, form \in {"plain", "unsafe"}}
       \cup {<<[path |-> f, form |-> "plain"], [path |-> g, form |-> "plain"]>> : f, g \in DOMAIN Sources[lang]}]

SymbolLines ==
  [python |-> {S("class", <<"C">>), S("function", <<"m">>), S("function", <<"n">>), S("function", <<"D", "m">>),
               S("function", <<"f">>), S("variable", <<"X">>), S("method", <<"m">>), L(11), L(14), L(0 - 3)},
   go |-> {S("method", <<"T", "M">>), S("function", <<"M">>), S("type", <<"I">>), S("constant", <<"d">>),
           S("function", <<"G">>), L(1), L(6), L(9)},
   rust |-> {S("type", <<"S">>), S("function", <<"f">>), S("function", <<"h", "f">>), S("impl", <<"<S as R>">>),
             S("function", <<"inner">>), S("module", <<"h">>), L(13), L(14)},
   typescript |-> {S("class", <<"C">>), S("method", <<"C", "g">>), S("function", <<"exports", "add">>),
                   S("function", <<"default">>), S("variable", <<"o">>), S("constant", <<"k">>), L(1), L(10)}]

MCSymbolReplies ==
  [lang \in DOMAIN Sources |->
     LET locations == SymbolLines[lang]
     IN  {<<>>, <<P("new"), CHOOSE l \in locations : TRUE>>}
           \cup {<<P("a"), l>> : l \in locations}
           \cup {<<P("a"), l, m>> : l, m \in locations}
           \cup {<<P("a"), l, Boundary, P("b"), m>> : l, m \in locations}]

MCEditReplies ==
  LET numbers == {0, 1, 2, 4, 5, 6, 9, 10, 11}
  IN  [lang \in DOMAIN Sources |->
         {<<>>, <<P("a")>>, <<L(1)>>, <<P("a"), Other>>, <<P("a"), L(4), Boundary, L(5)>>, <<P("new"), L(1)>>}
           \cup {<<P(f), L(n)>> : f \in {"a", "b"}, n \in numbers}
           \cup {<<P("a"), L(n), Boundary, P("b"), L(m)>> : n \in {4, 9}, m \in {1, 4, 6}}]
=============================================================================
