-------------------------- MODULE LocalizedProgram --------------------------
(***************************************************************************)
(* Localization over parsed files: what resolution looks at is what the    *)
(* adapters find in a parse tree (parse_file(), _global_assignments()),    *)
(* and what a reply can name is what the skeleton of that tree shows.      *)
(***************************************************************************)
EXTENDS ProgramStructure, Localization

TopsOf(tree) == {tree[p].type : p \in Kids(tree, <<>>)}

\* parse_file(); the resolver flattens what is not Python.
SymbolsOf(l, tree) == IF l = "python" THEN PythonSymbols(tree) ELSE Symbols(Specs[l], tree)

GlobalsOf(l, tree) == IF l = "python" THEN PythonGlobals(tree) ELSE <<>>

IsTree(tree) ==
  /\ <<>> \in DOMAIN tree
  /\ \A p \in DOMAIN tree : /\ p \in Seq(Nat)
                            /\ tree[p].kids \in Nat
                            /\ Above(p) \cup Kids(tree, p) \subseteq DOMAIN tree

\* What the grammars promise: a file is no function, an assignment has a value, and
\* declarations other than functions have a list of members, no function, for a body.
IsGrammatical(spec, tree) ==
  /\ tree[<<>>].type \notin spec.elided
  /\ \A p \in DOMAIN tree :
       /\ tree[p].type = "assignment_expression" => ChildAt(tree, p, "right") # None
       /\ tree[p].type \in DOMAIN spec.declarations \ spec.elided =>
            \A kind \in DOMAIN spec.containers :
              LET members == ChildAt(tree, p, spec.containers[kind])
              IN  spec.containers[kind] # "" /\ members # None =>
                    tree[members].type \notin spec.elided

ASSUME TreesAssumption ==
  \A l \in Languages : \A f \in DOMAIN FilesOf[l] :
    LET file == FilesOf[l][f]
        tree == file.tree
    IN  /\ IsTree(tree) /\ (l # "python" => IsGrammatical(Specs[l], tree))
        /\ file.tops = TopsOf(tree)
        /\ file.symbols = SymbolsOf(l, tree)
        /\ file.globals = GlobalsOf(l, tree)

----------------------------------------------------------------------------
(* Properties.                                                             *)

\* What a reply can name as a symbol of a selected file, the skeleton in the symbol
\* prompt shows: no declaration that resolves is inside a body that was hidden.
SymbolsAreInSkeleton ==
  \A f \in selected :
    LET tree    == nodes[f].tree
        symbols == nodes[f].symbols
    IN  IF language = "python"
          THEN \A i \in DOMAIN symbols :
                 /\ symbols[i].node \in PythonSurvivors(tree)
                 /\ \A j \in DOMAIN symbols[i].children :
                      symbols[i].children[j].node \in PythonSurvivors(tree)
          ELSE \A s \in DOMAIN symbols : symbols[s].node \in Survivors(Specs[language], tree)
=============================================================================
