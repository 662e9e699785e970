---------------------------- MODULE ClangLayout ----------------------------
(***************************************************************************)
(* What the translation promises: the blocks have the layout of the OCaml  *)
(* types (parsers/c/lib/parser/Clang_AST.ml), the graph they form is that  *)
(* of the program, and sharing is kept.                                    *)
(***************************************************************************)
EXTENDS ClangToMl

(* The type at which OCaml reads what a translator returns, as the         *)
(* comments of the translators give it.                                    *)
OCamlType ==
  "Decl" :> "decl" @@ "DeclKind" :> "decl_kind" @@ "NamedDecl" :> "name" @@
  "VarDecl" :> "var_decl" @@ "FunctionDecl" :> "function_decl" @@
  "EnumConstantDecl" :> "enum_cst_decl" @@ "EnumDecl" :> "enum_decl" @@
  "FieldDecl" :> "field_decl" @@ "RecordDecl" :> "record_decl" @@
  "TypedefNameDecl" :> "typedef_decl" @@ "BlockDecl" :> "block_decl" @@ "Capture" :> "capture" @@
  "NamespaceDecl" :> "namespace_decl" @@ "NamespaceAliasDecl" :> "namespace_alias_decl" @@
  "CXXBaseSpecifier" :> "cxx_base_specifier" @@ "CXXMethodDecl" :> "cxx_method_decl" @@
  "CXXMethodKind" :> "cxx_method_kind" @@ "CXXConstructorDecl" :> "cxx_constructor_decl" @@
  "CXXCtorInitializer" :> "cxx_constructor_initializer" @@ "FriendDecl" :> "friend_decl" @@
  "TemplateParameterList" :> "template_parameter_list" @@
  "TemplateTemplateParmDecl" :> "template_template_param_decl" @@
  "NonTypeTemplateParmDecl" :> "non_type_template_param_decl" @@
  "TemplateTypeParmDecl" :> "template_type_param_decl" @@
  "ClassTemplateDecl" :> "class_template_decl" @@
  "FunctionTemplateDecl" :> "function_template_decl" @@ "VarTemplateDecl" :> "var_template_decl" @@
  "ClassTemplateSpecializationDecl" :> "class_template_specialization" @@
  "FunctionTemplateSpecializationDecl" :> "function_template_specialization" @@
  "VarTemplateSpecializationDecl" :> "var_template_specialization" @@
  "TemplateArgumentLoc" :> "template_argument_loc" @@ "TemplateArgument" :> "template_argument" @@
  "TemplateName" :> "template_name" @@ "DeclarationName" :> "declaration_name" @@
  "UnresolvedUsingTypenameDecl" :> "unresolved_using_typename_decl" @@
  "UnresolvedUsingValueDecl" :> "unresolved_using_value_decl" @@ "UsingDecl" :> "using_decl" @@
  "UsingPackDecl" :> "using_pack_decl" @@ "UsingShadowDecl" :> "using_shadow_decl" @@
  "IndirectFieldDecl" :> "indirect_field_decl" @@ "NestedNameSpecifier" :> "name_specifier" @@
  "NestedNameSpecifierLoc" :> "name_specifier_loc" @@ "Expr" :> "expr" @@ "ExprKind" :> "expr_kind" @@
  "CXXConstructExpr" :> "cxx_construct_expr" @@ "OpaqueValueExpr" :> "opaque_expr" @@
  "LambdaCapture" :> "lambda_capture" @@ "Designator" :> "designator" @@
  "OffsetOfNode" :> "offsetof_node" @@ "Stmt" :> "stmt" @@ "StmtKind" :> "stmt_kind" @@
  "CXXCatchStmt" :> "cxx_catch_stmt" @@ "QualType" :> "type_qual" @@ "Type" :> "typ" @@
  "FunctionProtoType" :> "fun_proto_type" @@ "FunctionNoProtoType" :> "fun_no_proto_type" @@
  "ArrayType" :> "array_type" @@ "ArraySize" :> "array_size" @@
  "TemplateTypeParmType" :> "template_type_param_type"

(* The constructors whose OCaml name is not that of the class, or of the   *)
(* enumerator.                                                             *)
Renamed ==
  "TypedefNameDecl" :> "TypedefDecl" @@ "Expr" :> "ExprStmt" @@
  "CXXConstructorDecl" :> "Method_Constructor" @@ "CXXDestructorDecl" :> "Method_Destructor" @@
  "CXXConversionDecl" :> "Method_Conversion" @@ "CXXMethodDecl" :> "Method_Regular" @@
  "ConstantArrayType" :> "Size_Constant" @@ "VariableArrayType" :> "Size_Variable" @@
  "IncompleteArrayType" :> "Size_Incomplete" @@ "DependentSizedArrayType" :> "Size_Dependent" @@
  "Identifier" :> "Name_Identifier" @@ "CXXConstructorName" :> "Name_CXXConstrucorName" @@
  "CXXDestructorName" :> "Name_CXXDestructorName" @@
  "CXXConversionFunctionName" :> "Name_CXXConversionFunctionName" @@
  "CXXDeductionGuideName" :> "Name_CXXDeductionGuideName" @@
  "CXXOperatorName" :> "Name_CXXOperatorName" @@
  "CXXLiteralOperatorName" :> "Name_CXXLiteralOperatorName" @@
  "CXXUsingDirective" :> "Name_CXXUsingDirective" @@
  "LANG_C" :> "Lang_C" @@ "LANG_CXX" :> "Lang_CXX" @@
  "SIZE_NORMAL" :> "Size_Normal" @@ "SIZE_STATIC" :> "Size_Static" @@ "SIZE_STAR" :> "Size_Star" @@
  "TTK_Struct" :> "Record_Struct" @@ "TTK_Union" :> "Record_Union" @@
  "TTK_Class" :> "Record_Class" @@ "TTK_Interface" :> "Record_Interface"
OCamlName(c) == IF c \in DOMAIN Renamed THEN Renamed[c] ELSE c

(* The block of a type that has a tag, the record an indirect constructor  *)
(* takes, and the type of a block.                                         *)
Variants(t, tag) == {i \in 1..Len(Schema[t].blocks) : i = tag + 1}
Argument(fn, ctor) == Schema[OCamlType[fn]].blocks[BlockTag(fn, ctor) + 1].fields[1][2]
TypeOf(b) == IF b.part = "whole" THEN OCamlType[b.fn] ELSE Argument(b.fn, b.ctor)

IsConstantOf(t, i, c) == i < Len(Schema[t].consts) /\ OCamlName(c) = Schema[t].consts[i + 1]
HasType(v, t) == IF v[1] = "ref" THEN TypeOf(heap[v[2]]) = t ELSE IsConstantOf(t, v[2], v[3])

(* The immediate 0 is false, None, [] and the first constant of a type; an *)
(* empty array is a block.                                                 *)
Empty == {"opt", "list", "opt list"}
LeafConforms(how, s) ==
  how = s[2] \/ (how = "unit" /\ s[2] \in {"imm", "opt imm", "opt boxed", "comment list"})
UnitConforms(s) == s[1] \in Empty \/ (s[1] = "one" /\ Schema[s[2]].consts # <<>>)
FieldConforms(f, s) ==
  IF s[1] = "leaf" THEN LeafConforms(f.how, s)
  ELSE IF f.how = "unit" THEN UnitConforms(s)
  ELSE /\ f.how = s[1] \/ (f.vs = <<>> /\ {f.how, s[1]} \subseteq Empty)
       /\ \A i \in 1..Len(f.vs) : HasType(f.vs[i], s[2])

(* A record may have more fields than its type: OCaml never sees them.     *)
BlockConforms(b) ==
  \E i \in Variants(TypeOf(b), b.tag) :
     LET c == Schema[TypeOf(b)].blocks[i] IN
     /\ c.ctor = "record" \/ c.ctor = OCamlName(b.ctor)
     /\ Len(c.fields) <= Len(b.fields)
     /\ \A k \in 1..Len(c.fields) : FieldConforms(b.fields[k], c.fields[k])

(* The same of the tables: what a translator stores in a field, whatever   *)
(* the node, is what the type has there.                                   *)
Switching(f) == f[1] \in {"switch", "opt switch"}
FieldAgrees(f, s) ==
  IF Translating(f) THEN s = <<f[1], OCamlType[Target(f[2])]>>
  ELSE IF Switching(f) THEN f[2] \in DOMAIN SwitchTags /\ s = <<IF f[1] = "switch" THEN "one" ELSE "opt", f[2]>>
  ELSE IF f = Uid THEN s = Imm
  ELSE IF f[1] = "leaf" THEN s[1] = "leaf" /\ LeafConforms(f[2], s)
  ELSE f # Failwith => IF s[1] = "leaf" THEN LeafConforms("unit", s) ELSE UnitConforms(s)
BlockAgrees(t, tag, ctor, fields) ==
  \E i \in Variants(t, tag) :
     LET c == Schema[t].blocks[i] IN
     /\ c.ctor = "record" \/ c.ctor = OCamlName(ctor)
     /\ Len(c.fields) <= Len(fields)
     /\ \A k \in 1..Len(c.fields) : FieldAgrees(fields[k], c.fields[k])
WrapperAgrees(t, tag, ctor, arg) ==
  \E i \in Variants(t, tag) :
     LET c == Schema[t].blocks[i] IN (c.ctor = "record" \/ c.ctor = OCamlName(ctor)) /\ c.fields = <<T(arg)>>
ShapeAgrees(fn, s) ==
  LET t   == OCamlType[fn]
      tag == BlockTag(fn, s.cls)
  IN CASE s.how = "constant" -> IsConstantOf(t, TagOf(ConstantTags(fn), s.cls), s.cls)
       [] s.how = "indirect" -> /\ WrapperAgrees(t, tag, s.cls, Argument(fn, s.cls))
                                /\ BlockAgrees(Argument(fn, s.cls), 0, s.cls, s.fields)
       [] OTHER              -> BlockAgrees(t, tag, s.cls, s.fields)

(* The constructors that do not, and the enumerator sent to another.       *)
Disagreeing == {<<"ExprKind", "ChooseExpr">>, <<"Type", "UnaryTransformType">>,
                <<"TemplateArgumentLoc", "record">>}
Misnamed == {"LANG_CXX"}
ASSUME LayoutAssumption ==
  /\ \A fn \in Translators : \A s \in ShapesOf(fn) : <<fn, s.cls>> \notin Disagreeing => ShapeAgrees(fn, s)
  /\ \A sw \in DOMAIN SwitchTags : \A i \in 1..Len(SwitchTags[sw]) :
       SwitchTags[sw][i] \notin Misnamed => IsConstantOf(sw, SwitchTag(sw, SwitchTags[sw][i]), SwitchTags[sw][i])

(***************************************************************************)
(* Properties.                                                             *)
(***************************************************************************)

TypeOK ==
  /\ \A i \in 1..Len(stack) :
       stack[i].blk \in 1..Len(heap) /\ stack[i].next \in 1..Len(heap[stack[i].blk].fields) + 1
  /\ uid \in 0..Len(heap)
  /\ status \in {"running", "done", "exception", "abort", "overflow"}

(* A cache answers for a node with a block that a translator of this cache *)
(* made for this very node: no entry is lost or moved when the OCaml block *)
(* is doubled, none overwrites the entry of another node.                  *)
Entry(c, key) == Get(c, key)[2]
CacheSound ==
  \A c \in CacheNames : \A key \in DOMAIN caches[c].map :
    /\ Get(c, key)[1] = "ref" /\ Entry(c, key) \in 1..Len(heap)
    /\ heap[Entry(c, key)].node = key /\ CacheOf(heap[Entry(c, key)].fn) = c

(* What OCaml receives has, at every place, the tag and the fields its     *)
(* type gives it: OCaml reads blocks by number and never checks them.      *)
LayoutAgrees ==
  status = "done" => \A b \in 1..Len(heap) : BlockConforms(heap[b])

(* Every field holds, in order, the translations of the nodes its accessor *)
(* gives, each made by the translator of the field: whether a cache, keyed *)
(* by the address of the node alone, answered or not, however often it     *)
(* grew and whichever translators share it.                                *)
StandsFor(v, fn, n) ==
  IF v[1] = "ref" THEN LET b == heap[v[2]] IN b.fn = fn /\ b.node = n /\ b.part = "whole"
  ELSE Shape(fn, n).cls = v[3]
Filled(b) ==
  LET s == Shape(b.fn, b.node) IN
  IF s.how = "indirect" /\ b.part = "whole" THEN {}
  ELSE {k \in 1..Len(s.fields) : Translating(s.fields[k]) /\ b.fields[k] # Unset}
FieldFaithful(b, k) ==
  LET f  == Shape(b.fn, b.node).fields[k]
      vs == b.fields[k].vs
      ns == NodesOf(prog, b.node, f)
  IN Len(vs) = Len(ns) /\ \A i \in 1..Len(vs) : StandsFor(vs[i], Target(f[2]), ns[i])
GraphFaithful ==
  status = "done" => \A b \in 1..Len(heap) : \A k \in Filled(heap[b]) : FieldFaithful(heap[b], k)

(* What the last property relies on: for the nodes of a program, one       *)
(* translator of each cache only is ever asked for.  asked holds what is   *)
(* asked for, from the root on.                                            *)
AskedFor(p, asked) ==
  /\ <<"Decl", Root(p)>> \in asked
  /\ \A r \in asked : \A k \in 1..Len(ShapeIn(p, r[1], r[2]).fields) :
       LET f  == ShapeIn(p, r[1], r[2]).fields[k]
           ns == NodesOf(p, r[2], f)
       IN Translating(f) =>
            /\ Len(ns) \in Nat
            /\ \A i \in 1..Len(ns) : ~RejectedIn(p, f[2], ns[i]) => <<Target(f[2]), ns[i]>> \in asked
SeparateCaches(asked) == \A q, r \in asked :
  q[2] = r[2] /\ CacheOf(q[1]) = CacheOf(r[1]) /\ CacheOf(q[1]) # "none" => q[1] = r[1]
OneTranslator == \A p \in Programs : \E asked : AskedFor(p, asked) /\ SeparateCaches(asked)

(* What the layout relies on besides: none of the nodes asked for is of a  *)
(* class, or has an enumerator, for which the tables disagree.             *)
Agreeing(p, asked) == \A r \in asked :
  LET s == ShapeIn(p, r[1], r[2]) IN
  /\ <<r[1], s.cls>> \notin Disagreeing
  /\ \A k \in 1..Len(s.fields) : Switching(s.fields[k]) =>
        Enumerator(p, r[2], s.fields[k]) \cap Misnamed = {}
AgreeingPrograms == \A p \in Programs : \E asked :
  AskedFor(p, asked) /\ SeparateCaches(asked) /\ Agreeing(p, asked)

(* Sharing is kept: a translator with a cache makes one block for a node.  *)
SharesBlocks(fn) == CacheOf(fn) # "none" /\ fn # "QualType"
OneBlock(fn) == \A b, c \in 1..Len(heap) :
  heap[b].fn = fn /\ heap[c].fn = fn /\ heap[b].node = heap[c].node
    /\ heap[b].part = heap[c].part => b = c
SharingKept == \A fn \in DOMAIN OCamlType : SharesBlocks(fn) => OneBlock(fn)

(* The recursion ends on cyclic trees, and the calls of a small tree fit   *)
(* the C++ stack: the same call may run twice at a time only through one   *)
(* that shares its block, which is then cached.                            *)
NoOverflow == status # "overflow"

(* A small tree: of what is asked for, as many calls share their block as  *)
(* the stack holds, with the calls that may run between two of them.  They *)
(* go down the tree: each has a lesser height.                             *)
Descends(p, asked, height) ==
  \A r \in asked : \A k \in 1..Len(ShapeIn(p, r[1], r[2]).fields) :
    LET f  == ShapeIn(p, r[1], r[2]).fields[k]
        ns == NodesOf(p, r[2], f)
    IN Translating(f) => \A i \in 1..Len(ns) :
         LET q == <<Target(f[2]), ns[i]>> IN
         q \in asked /\ ~SharesBlocks(q[1]) => height[q] < height[r]
Fits(p, asked, height, most) ==
  /\ AskedFor(p, asked) /\ IsFiniteSet(asked)
  /\ (\A r \in asked : height[r] \in 0..most) /\ Descends(p, asked, height)
  /\ Cardinality({r \in asked : SharesBlocks(r[1])}) * (most + 1) <= MaxDepth
FittingPrograms == \A p \in Programs : \E asked, height : \E most \in Nat : Fits(p, asked, height, most)
=============================================================================
