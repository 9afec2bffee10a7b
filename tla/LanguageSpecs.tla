--------------------------- MODULE LanguageSpecs ---------------------------
(***************************************************************************)
(* The languages that are described to the structure engine (structure/    *)
(* spec.py and adapters/languages/go.py, rust.py, javascript.py): which     *)
(* syntax nodes declare symbols, which contain members, which have bodies  *)
(* to hide.                                                                *)
(*                                                                         *)
(* A rule is a record; a slot that a rule leaves at its default is absent  *)
(* from the arguments of its constructor.  Prompts are left out.           *)
(***************************************************************************)
AllTo(types, value) == [type \in types |-> value]

\* One table of rules out of two that have no type in common.
Joined(f, g) ==
  [type \in DOMAIN f \cup DOMAIN g |-> IF type \in DOMAIN f THEN f[type] ELSE g[type]]

NoKinds == <<>>

Rule(form, kind) ==
  [form |-> form, kind |-> kind, fields |-> <<"name">>, within |-> NoKinds, typed |-> NoKinds,
   values |-> NoKinds, names |-> "name", owner |-> "parent"]

Declares(kind)      == Rule("declares", kind)
DeclaresEach(kind)  == Rule("each", kind)
Binds(kind, values) == [Rule("binds", kind) EXCEPT !.values = values]

----------------------------------------------------------------------------
\* Methods are top-level; their receiver qualifies them.
Go ==
  LET Type == [Declares("type") EXCEPT
                 !.typed = [struct_type |-> "struct", interface_type |-> "interface"]]
  IN  [extensions |-> {".go"}, skipped |-> {"vendor", "testdata", ".hidden", "_hidden"},
       requires |-> {"package_clause"},
       declarations |-> [function_declaration |-> Declares("function"),
                         method_declaration |-> [Declares("method") EXCEPT !.owner = "receiver"],
                         type_spec |-> Type, type_alias |-> Type,
                         var_spec |-> DeclaresEach("variable"),
                         const_spec |-> DeclaresEach("constant")],
       wrappers |-> AllTo({"type_declaration", "var_declaration", "var_spec_list",
                           "const_declaration"}, [field |-> "", widens |-> FALSE]),
       containers |-> [interface |-> "type"],
       members |-> [method_elem |-> Declares("method")],
       leading |-> {}, ignored |-> {},
       literal |-> {}, chains |-> {},
       elided |-> {"function_declaration", "method_declaration"}]

----------------------------------------------------------------------------
\* A function in an impl or a trait is a method; attributes belong to what they annotate.
\* Members are found as at the top.
Rust ==
  [extensions |-> {".rs"}, skipped |-> {"target", "vendor", ".hidden"}, requires |-> {},
   declarations |->
     [function_item |-> [Declares("function") EXCEPT
                           !.within = [impl |-> "method", trait |-> "method"]],
      function_signature_item |-> Declares("method"),
      struct_item |-> Declares("struct"), enum_item |-> Declares("enum"),
      union_item |-> Declares("type"), trait_item |-> Declares("trait"),
      type_item |-> Declares("type"), associated_type |-> Declares("type"),
      const_item |-> Declares("constant"), static_item |-> Declares("variable"),
      mod_item |-> Declares("module"), field_declaration |-> Declares("field"),
      enum_variant |-> Declares("variant"),
      impl_item |-> [Declares("impl") EXCEPT !.names = "impl"]],
   wrappers |-> <<>>,
   containers |-> AllTo({"impl", "trait", "module", "struct", "enum", "type"}, "body"),
   members |-> <<>>,
   leading |-> {"attribute_item"}, ignored |-> {"line_comment", "block_comment"},
   literal |-> {}, chains |-> {},
   elided |-> {"function_item"}]

----------------------------------------------------------------------------
FunctionNodes ==
  {"function_declaration", "generator_function_declaration", "function_expression",
   "generator_function", "arrow_function", "function_signature"}
ClassNodes  == {"class", "class_declaration", "abstract_class_declaration"}
MethodNodes == {"method_definition", "method_signature", "abstract_method_signature"}
FieldNodes  == {"field_definition", "public_field_definition", "property_signature", "pair"}
MemberName  == <<"name", "key", "property">>

ValueKinds ==
  Joined(AllTo(FunctionNodes, "function"),
         Joined(AllTo(ClassNodes, "class"), [object |-> "object"]))

\* Bound values own their symbols; an export widens what it exports.
JavaScript ==
  [extensions |-> {".js", ".jsx", ".mjs", ".cjs"},
   skipped |-> {"node_modules", "vendor", "dist", "build", "coverage", ".hidden"}, requires |-> {},
   declarations |->
     Joined(Joined(AllTo(FunctionNodes, Declares("function")), AllTo(ClassNodes, Declares("class"))),
            [interface_declaration |-> Declares("interface"),
             type_alias_declaration |-> Declares("type"),
             enum_declaration |-> Declares("enum"),
             variable_declarator |-> [Binds("variable", ValueKinds) EXCEPT !.names = "keyword"],
             export_statement |-> [Rule("export", "constant") EXCEPT !.values = ValueKinds],
             expression_statement |-> [Rule("assignment", "variable") EXCEPT !.values = ValueKinds]]),
   wrappers |-> [export_statement |-> [field |-> "declaration", widens |-> TRUE],
                 ambient_declaration |-> [field |-> "", widens |-> TRUE],
                 lexical_declaration |-> [field |-> "", widens |-> FALSE],
                 variable_declaration |-> [field |-> "", widens |-> FALSE]],
   containers |-> [class |-> "body", interface |-> "body", object |-> ""],
   members |->
     Joined(AllTo(MethodNodes, [Declares("method") EXCEPT !.fields = MemberName]),
            AllTo(FieldNodes, [Binds("field", AllTo(FunctionNodes, "method")) EXCEPT
                                 !.fields = MemberName])),
   leading |-> {}, ignored |-> {},
   literal |-> {"identifier", "type_identifier", "property_identifier",
                "private_property_identifier", "number", "string"},
   chains |-> {"member_expression"},
   elided |-> FunctionNodes \cup MethodNodes]

\* Each file chooses its grammar; both grammars name their nodes alike.
TypeScript ==
  [JavaScript EXCEPT !.extensions = @ \cup {".ts", ".tsx", ".mts", ".cts"}]

Specs == [go |-> Go, rust |-> Rust, javascript |-> JavaScript, typescript |-> TypeScript]
=============================================================================
