------------------------------ MODULE ClangAst ------------------------------
(***************************************************************************)
(* The OCaml types of the C and C++ syntax tree (parsers/c/lib/parser/     *)
(* Clang_AST.ml), as their run-time representation.  A value is an         *)
(* immediate or a block; a block has a tag and fields; constructors without*)
(* arguments are immediates and those with arguments blocks, numbered in   *)
(* the order of the type; a record or a tuple is a block of tag 0.  OCaml  *)
(* relies on this layout and never checks it at run time.                  *)
(***************************************************************************)
EXTENDS Naturals, Sequences, TLC

(* The type of a field: a leaf of the tree, or how many values of a type.  *)
Leaf(k) == <<"leaf", k>>
Imm     == Leaf("imm")       \* int, bool
Boxed   == Leaf("boxed")     \* string, Z.t, Int32.t, Int64.t
OptImm  == Leaf("opt imm")   \* int option, bool option
OptBox  == Leaf("opt boxed") \* string option
Qual    == Leaf("qual")
Loc     == Leaf("loc")
SrcRange   == Leaf("range")
Coms    == Leaf("comment list")

T(t)       == <<"one", t>>
Opt(t)     == <<"opt", t>>
List(t)    == <<"list", t>>
Array(t)   == <<"array", t>>
OptList(t) == <<"opt list", t>>

(* consts: the constructors without arguments; blocks: the others.         *)
C(c, fs)        == [ctor |-> c, fields |-> fs]
Variant(ks, bs) == [consts |-> ks, blocks |-> bs]
Enum(ks)        == Variant(ks, <<>>)
Record(fs)      == Variant(<<>>, <<C("record", fs)>>)

E == T("expr")
S == T("stmt")
D == T("decl")
N == T("name")
Q == T("type_qual")
P == T("template_parameter_list")

(* Declarations.                                                           *)
DeclTypes ==
   "name" :> Record(<<Boxed, Boxed, T("declaration_name")>>) @@
   "enum_decl" :> Record(<<Imm, N, Imm, Imm, Imm, Opt("type_qual"), Opt("type_qual"),
        List("enum_cst_decl"), Opt("typedef_decl"), SrcRange, Coms>>) @@
   "enum_cst_decl" :> Record(<<Imm, N, Boxed, SrcRange, Coms>>) @@
   "field_decl" :> Record(<<Imm, N, Imm, Q, OptImm, Imm, Imm, Boxed, Opt("expr"), SrcRange,
        Coms>>) @@
   "record_decl" :> Record(<<Imm, N, T("record_kind"), Imm, Imm, Imm, Imm, Imm, Boxed,
        Boxed, Boxed, List("field_decl"), Opt("typedef_decl"), SrcRange, Coms,
        Opt("class_template_specialization"), List("cxx_base_specifier"),
        List("function_decl"), List("friend_decl")>>) @@
   "cxx_base_specifier" :> Record(<<Imm, Imm, Imm, Imm, T("access_specifier"), Q>>) @@
   "record_kind" :> Enum(<<"Record_Struct", "Record_Union", "Record_Class",
        "Record_Interface">>) @@
   "typedef_decl" :> Record(<<Imm, N, Q, SrcRange, Coms>>) @@
   "function_decl" :> Record(<<Imm, N, Opt("stmt"), Imm, Imm, Imm, T("storage_class"), Q,
        Array("var_decl"), SrcRange, SrcRange, Coms, Opt("function_template_specialization"),
        Opt("overloaded_operator"), Opt("cxx_method_decl")>>) @@
   "cxx_method_decl" :> Record(<<T("record_decl"), Imm, Imm, List("decl"),
        T("ref_qualifier"), T("cxx_method_kind")>>) @@
   "cxx_method_kind" :> Variant(<<"Method_Regular", "Method_Destructor">>,
        <<C("Method_Constructor", <<T("cxx_constructor_decl")>>),
        C("Method_Conversion", <<Imm>>)>>) @@
   "cxx_constructor_decl" :> Record(<<List("cxx_constructor_initializer"), Imm, Imm, Imm,
        Opt("function_decl"), Opt("function_decl")>>) @@
   "cxx_constructor_initializer" :> Variant(<<>>,
        <<C("Constructor_init_Base", <<Q, Imm, E>>),
        C("Constructor_init_Field", <<T("field_decl"), E>>),
        C("Constructor_init_Indirect_field", <<T("indirect_field_decl"), E>>),
        C("Constructor_init_Delegating", <<Q, E>>)>>) @@
   "var_decl" :> Record(<<Imm, N, Q, T("storage_class"), Opt("expr"), Imm, Imm, SrcRange, Coms,
        Opt("var_template_specialization")>>) @@
   "storage_class" :> Enum(<<"SC_None", "SC_Extern", "SC_Static", "SC_PrivateExtern",
        "SC_Auto", "SC_Register">>) @@
   "decl_kind" :> Variant(<<"EmptyDecl", "AccessSpecDecl">>,
        <<C("TranslationUnitDecl", <<List("decl")>>), C("FieldDecl", <<T("field_decl")>>),
        C("EnumConstantDecl", <<T("enum_cst_decl")>>), C("FileScopeAsmDecl", <<Boxed>>),
        C("LinkageSpecDecl", <<T("lang"), List("decl")>>), C("LabelDecl", <<N>>),
        C("EnumDecl", <<T("enum_decl")>>), C("RecordDecl", <<T("record_decl")>>),
        C("TypedefDecl", <<T("typedef_decl")>>), C("FunctionDecl", <<T("function_decl")>>),
        C("VarDecl", <<T("var_decl")>>), C("BlockDecl", <<T("block_decl")>>),
        C("FriendDecl", <<T("friend_decl")>>),
        C("StaticAssertDecl", <<T("static_assert")>>),
        C("NamespaceAliasDecl", <<T("namespace_alias_decl")>>),
        C("NamespaceDecl", <<T("namespace_decl")>>),
        C("BuiltinTemplateDecl", <<T("builtin_template_decl")>>),
        C("ClassTemplateDecl", <<T("class_template_decl")>>),
        C("FunctionTemplateDecl", <<T("function_template_decl")>>),
        C("TypeAliasTemplateDecl", <<T("type_alias_template_decl")>>),
        C("VarTemplateDecl", <<T("var_template_decl")>>),
        C("TemplateTemplateParmDecl", <<T("template_template_param_decl")>>),
        C("TemplateTypeParmDecl", <<T("template_type_param_decl")>>),
        C("TypeAliasDecl", <<T("typedef_decl")>>),
        C("UnresolvedUsingTypenameDecl", <<T("unresolved_using_typename_decl")>>),
        C("UsingDecl", <<T("using_decl")>>),
        C("UsingDirectiveDecl", <<T("using_directive_decl")>>),
        C("UsingPackDecl", <<T("using_pack_decl")>>),
        C("UsingShadowDecl", <<T("using_shadow_decl")>>),
        C("BindingDecl", <<T("binding_decl")>>),
        C("IndirectFieldDecl", <<T("indirect_field_decl")>>),
        C("UnresolvedUsingValueDecl", <<T("unresolved_using_value_decl")>>),
        C("NonTypeTemplateParmDecl", <<T("non_type_template_param_decl")>>),
        C("UnknownDecl", <<Imm, Boxed>>)>>) @@
   "decl" :> Record(<<T("decl_kind"), T("access_specifier"), SrcRange, Coms>>) @@
   "access_specifier" :> Enum(<<"AS_public", "AS_protected", "AS_private", "AS_none">>) @@
   "lang" :> Enum(<<"Lang_C", "Lang_CXX">>) @@
   "block_decl" :> Record(<<Opt("stmt"), Array("var_decl"), Array("capture"), Imm, Imm, Imm,
        Imm>>) @@
   "capture" :> Record(<<T("var_decl"), Imm, Imm, Opt("expr")>>)

(* Types.                                                                  *)
TypeTypes ==
   "type_qual" :> Record(<<T("typ"), Qual>>) @@
   "typ" :> Variant(<<>>, <<C("DecayedType", <<Q, Q>>), C("ArrayType", <<T("array_type")>>),
        C("AtomicType", <<Q>>), C("AttributedType", <<Q>>),
        C("BuiltinType", <<T("builtin_type")>>), C("ComplexType", <<Q>>),
        C("FunctionProtoType", <<T("fun_proto_type")>>),
        C("FunctionNoProtoType", <<T("fun_no_proto_type")>>), C("ParenType", <<Q>>),
        C("PointerType", <<Q>>), C("EnumType", <<T("enum_decl")>>),
        C("RecordType", <<T("record_decl")>>), C("TypedefType", <<T("typedef_decl")>>),
        C("ElaboratedType", <<Q>>), C("UnaryTransformType", <<T("unary_transform_type")>>),
        C("TypeOfExprType", <<E>>), C("TypeOfType", <<Q>>),
        C("DecltypeType", <<E, Opt("type_qual")>>), C("AutoType", <<Imm>>),
        C("DeducedTemplateSpecializationType", <<T("template_name")>>),
        C("DependentSizedExtVectorType", <<E, Q>>),
        C("InjectedClassNameType", <<Q, Opt("template_name"), T("record_decl"), Array("template_argument")>>),
        C("MemberPointerType", <<Q, T("typ")>>), C("PackExpansionType", <<Q, OptImm>>),
        C("LValueReferenceType", <<Q>>), C("RValueReferenceType", <<Q>>),
        C("SubstTemplateTypeParmPackType", <<Boxed, T("template_type_param_decl"), T("template_argument")>>),
        C("SubstTemplateTypeParmType", <<T("template_type_param_decl"), Q>>),
        C("TemplateSpecializationType", <<Opt("type_qual"), T("template_name"), Array("template_argument")>>),
        C("TemplateTypeParmType", <<T("template_type_param_type")>>),
        C("DependentNameType", <<List("name_specifier"), Boxed>>),
        C("DependentTemplateSpecializationType", <<List("name_specifier"), Boxed, Array("template_argument")>>),
        C("UnresolvedUsingType", <<T("unresolved_using_typename_decl")>>),
        C("VectorType", <<Q, Imm, Imm>>), C("UnknownType", <<Imm, Boxed>>)>>) @@
   "builtin_type" :> Enum(<<"Type_Void", "Type_Bool", "Type_Char_U", "Type_UChar",
        "Type_WChar_U", "Type_Char16", "Type_Char32", "Type_UShort", "Type_UInt",
        "Type_ULong", "Type_ULongLong", "Type_UInt128", "Type_Char_S", "Type_SChar",
        "Type_WChar_S", "Type_Short", "Type_Int", "Type_Long", "Type_LongLong",
        "Type_Int128", "Type_Half", "Type_Float", "Type_Double", "Type_LongDouble",
        "Type_Float128", "Type_NullPtr", "Type_ObjCId", "Type_ObjCClass", "Type_ObjCSel",
        "Type_OCLSampler", "Type_OCLEvent", "Type_OCLClkEvent", "Type_OCLQueue",
        "Type_OCLReserveID", "Type_Dependent", "Type_Overload", "Type_BoundMember",
        "Type_PseudoObject", "Type_UnknownAny", "Type_BuiltinFn", "Type_ARCUnbridgedCast",
        "Type_OMPArraySection">>) @@
   "unary_transform_type" :> Record(<<Q, Q, T("unary_transform_kind")>>) @@
   "unary_transform_kind" :> Enum(<<"EnumUnderlyingType">>) @@
   "array_type" :> Record(<<Q, T("array_size"), T("array_size_modifier")>>) @@
   "array_size" :> Variant(<<"Size_Incomplete", "Size_Dependent">>,
        <<C("Size_Constant", <<Boxed>>), C("Size_Variable", <<Opt("expr")>>)>>) @@
   "array_size_modifier" :> Enum(<<"Size_Normal", "Size_Static", "Size_Star">>) @@
   "fun_proto_type" :> Record(<<Q, Q, Qual, Array("type_qual"), Imm,
        T("exception_specification_type"), T("noexcept_result"), Array("type_qual"), Imm,
        T("ref_qualifier")>>) @@
   "exception_specification_type" :> Enum(<<"EST_None", "EST_DynamicNone", "EST_Dynamic",
        "EST_MSAny", "EST_BasicNoexcept", "EST_ComputedNoexcept", "EST_Unevaluated",
        "EST_Uninstantiated", "EST_Unparsed", "EST_DependentNoexcept", "EST_NoexceptFalse",
        "EST_NoexceptTrue">>) @@
   "noexcept_result" :> Enum(<<"NR_NoNoexcept", "NR_BadNoexcept", "NR_Dependent",
        "NR_Throw", "NR_Nothrow">>) @@
   "fun_no_proto_type" :> Record(<<Q>>) @@
   "ref_qualifier" :> Enum(<<"RQ_None", "RQ_LValue", "RQ_RValue">>) @@
   "template_type_param_type" :> Record(<<Imm, Imm, Imm, Opt("template_type_param_decl"),
        OptBox>>)

(* Statements.                                                             *)
StmtTypes ==
   "stmt_kind" :> Variant(<<"AsmStmt", "NullStmt">>, <<C("AttributedStmt", <<S>>),
        C("BreakStmt", <<Loc>>), C("CompoundStmt", <<List("stmt")>>),
        C("ContinueStmt", <<Loc>>), C("DeclStmt", <<List("decl")>>),
        C("DoStmt", <<T("do_stmt")>>), C("ExprStmt", <<E>>),
        C("ForStmt", <<T("for_stmt")>>), C("GotoStmt", <<N, Loc>>),
        C("IfStmt", <<T("if_stmt")>>), C("IndirectGotoStmt", <<E, Opt("name")>>),
        C("LabelStmt", <<N, S>>), C("ReturnStmt", <<Opt("expr")>>),
        C("CaseStmt", <<T("case_stmt")>>), C("DefaultStmt", <<S>>),
        C("SwitchStmt", <<T("switch_stmt")>>), C("WhileStmt", <<T("while_stmt")>>),
        C("CXXForRangeStmt", <<T("cxx_for_range_stmt")>>),
        C("CXXTryStmt", <<T("cxx_try_stmt")>>), C("UnknownStmt", <<Imm, Boxed>>)>>) @@
   "stmt" :> Record(<<T("stmt_kind"), SrcRange>>) @@
   "do_stmt" :> Record(<<S, E>>) @@
   "for_stmt" :> Record(<<Opt("stmt"), Opt("expr"), Opt("expr"), S>>) @@
   "if_stmt" :> Record(<<Opt("expr"), Opt("stmt"), Opt("stmt"), Opt("stmt")>>) @@
   "case_stmt" :> Record(<<E, Opt("expr"), S>>) @@
   "switch_stmt" :> Record(<<Opt("stmt"), E, S>>) @@
   "while_stmt" :> Record(<<E, S>>) @@
   "cxx_for_range_stmt" :> Record(<<T("var_decl"), E, S>>) @@
   "cxx_try_stmt" :> Record(<<S, Array("cxx_catch_stmt")>>) @@
   "cxx_catch_stmt" :> Record(<<Opt("var_decl"), Opt("type_qual"), S>>)

(* Templates, namespaces and names.                                        *)
TemplateTypes ==
   "friend_decl" :> Record(<<Opt("type_qual"), Opt("decl"), Imm,
        Array("template_parameter_list"), SrcRange, Coms>>) @@
   "template_parameter_list" :> Record(<<Array("decl"), Opt("expr")>>) @@
   "static_assert" :> Record(<<E, Boxed, Imm>>) @@
   "namespace_decl" :> Record(<<N, Imm, Imm>>) @@
   "namespace_alias_decl" :> Record(<<N, T("namespace_decl"), D,
        List("name_specifier_loc")>>) @@
   "builtin_template_decl" :> Record(<<N, P, Opt("decl"), Opt("expr"),
        T("builtin_template_kind")>>) @@
   "builtin_template_kind" :> Enum(<<"BTK__make_integer_seq", "BTK__type_pack_element">>) @@
   "class_template_decl" :> Record(<<N, P, T("record_decl"), Opt("expr"),
        List("record_decl"), Q>>) @@
   "class_template_specialization" :> Record(<<T("class_template_decl"),
        Array("template_argument")>>) @@
   "function_template_decl" :> Record(<<N, P, T("function_decl"), Opt("expr"),
        List("function_decl")>>) @@
   "function_template_specialization" :> Record(<<T("function_template_decl"),
        Array("template_argument")>>) @@
   "type_alias_template_decl" :> Record(<<N, P, T("typedef_decl"), Opt("expr")>>) @@
   "var_template_decl" :> Record(<<N, P, T("var_decl"), Opt("expr"), List("var_decl")>>) @@
   "var_template_specialization" :> Record(<<T("var_template_decl"),
        Array("template_argument")>>) @@
   "template_template_param_decl" :> Record(<<N, P, Opt("decl"), Opt("expr"), Imm, Imm,
        Array("template_parameter_list"), Opt("template_argument_loc")>>) @@
   "template_type_param_decl" :> Record(<<N, Opt("type_qual")>>) @@
   "unresolved_using_typename_decl" :> Record(<<N, List("name_specifier_loc"), Imm>>) @@
   "using_decl" :> Record(<<N, List("name_specifier_loc"), Imm>>) @@
   "using_directive_decl" :> Record(<<N, List("name_specifier"), T("namespace_decl")>>) @@
   "using_pack_decl" :> Record(<<N, D, Array("decl")>>) @@
   "using_shadow_decl" :> Record(<<N, D, T("using_decl")>>) @@
   "binding_decl" :> Record(<<N, Q, E, Opt("var_decl")>>) @@
   "indirect_field_decl" :> Record(<<N, Q, T("field_decl"), Opt("var_decl"),
        Array("decl")>>) @@
   "unresolved_using_value_decl" :> Record(<<N, Q, List("name_specifier_loc"), Imm, Imm>>)
        @@
   "non_type_template_param_decl" :> Record(<<N, Q, Opt("expr"), Imm, Imm,
        Array("type_qual")>>) @@
   "subst_non_type_template_param_expr" :> Record(<<E, T("non_type_template_param_decl")>>)
        @@
   "subst_non_type_template_param_pack_expr" :> Record(<<T("non_type_template_param_decl"),
        T("template_argument")>>) @@
   "name_specifier" :> Variant(<<"Name_specifier_Global">>,
        <<C("Name_specifier_Identifier", <<Boxed>>),
        C("Name_specifier_Namespace", <<T("namespace_decl")>>),
        C("Name_specifier_NamespaceAlias", <<T("namespace_alias_decl")>>),
        C("Name_specifier_TypeSpec", <<T("typ")>>),
        C("Name_specifier_TypeSpecWithTemplate", <<T("typ")>>)>>) @@
   "name_specifier_loc" :> Record(<<T("name_specifier"), SrcRange>>) @@
   "declaration_name" :> Variant(<<>>, <<C("Name_Identifier", <<Boxed>>),
        C("Name_CXXConstrucorName", <<Q>>), C("Name_CXXDestructorName", <<Q>>),
        C("Name_CXXConversionFunctionName", <<Q>>), C("Name_CXXDeductionGuideName", <<D>>),
        C("Name_CXXOperatorName", <<T("overloaded_operator")>>),
        C("Name_CXXLiteralOperatorName", <<Boxed>>),
        C("Name_CXXUsingDirective", <<Boxed>>)>>) @@
   "template_argument_loc" :> Record(<<T("template_argument"), Loc>>) @@
   "template_argument" :> Variant(<<"Template_argument_Null">>,
        <<C("Template_argument_Type", <<Q>>), C("Template_argument_Declaration", <<D>>),
        C("Template_argument_NullPtr", <<Q>>),
        C("Template_argument_Integral", <<Q, Boxed>>),
        C("Template_argument_Template", <<T("template_name")>>),
        C("Template_argument_Expression", <<E>>),
        C("Template_argument_Pack", <<T("template_argument"), Array("template_argument")>>)>>)
        @@
   "template_name" :> Variant(<<>>, <<C("Template_name_Template", <<D>>),
        C("Template_name_OverloadedTemplate", <<List("decl")>>),
        C("Template_name_QualifiedTemplate", <<List("name_specifier"), T("template_name")>>),
        C("Template_name_DependentTemplate", <<List("name_specifier"), OptBox, Opt("overloaded_operator")>>),
        C("Template_name_SubstTemplateTemplateParm", <<D, T("template_name")>>),
        C("Template_name_SubstTemplateTemplateParmPack", <<D, T("template_argument")>>)>>)

(* Expressions.                                                            *)
ExprTypes ==
   "expr_kind" :> Variant(<<"ArrayInitIndexExpr", "GNUNullExpr", "ImplicitValueInitExpr",
        "NoInitExpr", "CXXNullPtrLiteralExpr", "CXXScalarValueInitExpr">>,
        <<C("ConditionalOperator", <<T("conditional_operator")>>),
        C("BinaryConditionalOperator", <<T("binary_conditional_operator")>>),
        C("AddrLabelExpr", <<N>>), C("ArrayInitLoopExpr", <<T("array_init_loop_expr")>>),
        C("ArraySubscriptExpr", <<T("array_subscript_expr")>>),
        C("AtomicExpr", <<T("atomic_expr")>>),
        C("CompoundAssignOperator", <<T("compound_assign_expr")>>),
        C("BinaryOperator", <<E, T("binary_operator"), E>>),
        C("UnaryOperator", <<T("unary_operator"), E>>), C("CallExpr", <<T("call_expr")>>),
        C("CastExpr", <<E, T("cast_kind")>>),
        C("CharacterLiteral", <<Boxed, T("character_kind")>>),
        C("ChooseExpr", <<T("choose_expr")>>), C("CompoundLiteralExpr", <<E, Imm>>),
        C("DeclRefExpr", <<D>>), C("DesignatedInitExpr", <<Array("designator"), E>>),
        C("FloatingLiteral", <<Boxed>>),
        C("GenericSelectionExpr", <<T("generic_selection_expr")>>),
        C("ImaginaryLiteral", <<E>>), C("InitListExpr", <<T("init_list_expr")>>),
        C("IntegerLiteral", <<Boxed>>), C("MemberExpr", <<T("member_expr")>>),
        C("OffsetOfExpr", <<Array("offsetof_node"), OptBox>>),
        C("OpaqueValueExpr", <<T("opaque_expr")>>), C("ParenExpr", <<E>>),
        C("ParenListExpr", <<Array("expr")>>),
        C("PredefinedExpr", <<T("ident_type"), Boxed>>),
        C("PseudoObjectExpr", <<T("pseudo_object_expr")>>), C("StmtExpr", <<List("stmt")>>),
        C("StringLiteral", <<Boxed, T("character_kind")>>),
        C("UnaryExprOrTypeTraitExpr", <<T("unary_expr_or_type"), Q>>),
        C("VAArgExpr", <<E>>), C("FullExpr", <<E>>), C("ConstantExpr", <<E>>),
        C("ArrayTypeTraitExpr", <<T("array_type_trait_expr")>>),
        C("CXXBindTemporaryExpr", <<E>>), C("CXXBoolLiteralExpr", <<Imm>>),
        C("CXXConstructExpr", <<T("cxx_construct_expr")>>),
        C("CXXDefaultArgExpr", <<T("var_decl"), E>>),
        C("CXXDefaultInitExpr", <<T("field_decl"), E>>),
        C("CXXDeleteExpr", <<T("cxx_delete_expr")>>),
        C("CXXDependentScopeMemberExpr", <<T("cxx_dependent_scope_member_expr")>>),
        C("CXXFoldExpr", <<T("cxx_fold_expr")>>),
        C("CXXInheritedCtorInitExpr", <<T("cxx_inherited_ctor")>>),
        C("CXXNewExpr", <<T("cxx_new_expr")>>), C("CXXNoexceptExpr", <<E, Imm>>),
        C("CXXPseudoDestructorExpr", <<T("cxx_pseudo_destructor_expr")>>),
        C("CXXStdInitializerListExpr", <<E>>), C("CXXThisExpr", <<Imm>>),
        C("CXXThrowExpr", <<T("cxx_throw_expr")>>),
        C("CXXTypeidExpr", <<T("cxx_typeid_expr")>>),
        C("CXXUnresolvedConstructExpr", <<T("cxx_unresolved_construct_expr")>>),
        C("DependentScopeDeclRefExpr", <<T("dependent_scope_decl_ref_expr")>>),
        C("ExpressionTraitExpr", <<T("expression_trait_expr")>>),
        C("ExprWithCleanups", <<T("expr_with_cleanups")>>),
        C("FunctionParmPackExpr", <<T("var_decl"), Array("var_decl")>>),
        C("MaterializeTemporaryExpr", <<T("materialize_tmp_expr")>>),
        C("PackExpansionExpr", <<T("pack_expansion_expr")>>),
        C("SizeOfPackExpr", <<T("size_of_pack_expr")>>),
        C("SubstNonTypeTemplateParmExpr", <<T("subst_non_type_template_param_expr")>>),
        C("SubstNonTypeTemplateParmPackExpr", <<T("subst_non_type_template_param_pack_expr")>>),
        C("TypeTraitExpr", <<T("type_trait_expr")>>),
        C("UnresolvedLookupExpr", <<T("unresolved_lookup_expr")>>),
        C("UnresolvedMemberExpr", <<T("unresolved_member_expr")>>),
        C("LambdaExpr", <<T("lambda_expr")>>), C("ConvertVectorExpr", <<E>>),
        C("ExtVectorElementExpr", <<E, Boxed>>), C("ShuffleVectorExpr", <<Array("expr")>>),
        C("UnknownExpr", <<Imm, Boxed>>)>>) @@
   "conditional_operator" :> Record(<<E, E, E>>) @@
   "binary_conditional_operator" :> Record(<<E, E>>) @@
   "array_init_loop_expr" :> Record(<<T("opaque_expr"), E, Boxed>>) @@
   "array_subscript_expr" :> Record(<<E, E>>) @@
   "atomic_expr" :> Record(<<Imm, E, E>>) @@
   "compound_assign_expr" :> Record(<<E, Q, T("compound_assign_operator"), E, Q>>) @@
   "call_expr" :> Record(<<E, Opt("function_decl"), Array("expr"),
        Opt("overloaded_operator")>>) @@
   "choose_expr" :> Record(<<E, E, E, Imm>>) @@
   "designator" :> Variant(<<>>, <<C("Designator_Field", <<T("field_decl")>>),
        C("Designator_Array", <<E>>), C("Designator_ArrayRange", <<E, E>>)>>) @@
   "generic_selection_expr" :> Record(<<E, Array("expr"), Imm>>) @@
   "init_list_expr" :> Record(<<Array("expr"), Opt("field_decl"), Opt("expr")>>) @@
   "member_expr" :> Record(<<E, D, Imm, OptList("name_specifier_loc"),
        Array("template_argument_loc"), T("declaration_name")>>) @@
   "pseudo_object_expr" :> Record(<<E, Array("expr"), OptImm>>) @@
   "offsetof_node" :> Variant(<<>>, <<C("Offsetof_Array", <<E>>),
        C("Offsetof_Field", <<T("field_decl")>>), C("Offsetof_Identifier", <<Boxed>>)>>) @@
   "opaque_expr" :> Record(<<Opt("expr"), Q, SrcRange>>) @@
   "array_type_trait_expr" :> Record(<<T("array_type_trait"), Q, Boxed, E>>) @@
   "unresolved_lookup_expr" :> Record(<<Imm, Imm, Opt("record_decl"), T("declaration_name"),
        List("decl"), Array("template_argument_loc")>>) @@
   "unresolved_member_expr" :> Record(<<Opt("expr"), Q, Imm, Imm, Opt("record_decl"),
        T("declaration_name"), T("declaration_name"), List("decl"),
        Array("template_argument_loc")>>) @@
   "lambda_expr" :> Record(<<T("lambda_capture_default"), List("lambda_capture"),
        List("expr"), T("record_decl"), T("function_decl"), Opt("template_parameter_list"),
        Imm, S, Imm, Imm, Imm>>) @@
   "lambda_capture" :> Record(<<T("lambda_capture_kind"), Imm, Imm, Opt("decl"), Imm, Imm>>)
        @@
   "cxx_construct_expr" :> Record(<<T("function_decl"), T("construction_kind"),
        Array("expr"), Imm, Imm>>) @@
   "cxx_delete_expr" :> Record(<<E, Opt("function_decl"), Opt("type_qual"), Imm, Imm, Imm>>)
        @@
   "cxx_dependent_scope_member_expr" :> Record(<<Opt("expr"), Q, Imm,
        List("name_specifier_loc"), Opt("decl"), T("declaration_name"),
        Array("template_argument_loc")>>) @@
   "cxx_fold_expr" :> Record(<<E, Opt("expr"), Imm, T("binary_operator")>>) @@
   "cxx_inherited_ctor" :> Record(<<T("function_decl"), T("construction_kind"), Imm, Imm>>)
        @@
   "cxx_new_expr" :> Record(<<Q, Opt("function_decl"), Opt("function_decl"), Opt("expr"),
        Imm, T("initialization_style"), Opt("expr"), Array("expr"),
        Opt("cxx_construct_expr"), Imm, Imm>>) @@
   "cxx_pseudo_destructor_expr" :> Record(<<E, OptList("name_specifier_loc"), Imm, Q>>) @@
   "cxx_throw_expr" :> Record(<<Opt("expr"), Imm>>) @@
   "cxx_typeid_expr" :> Record(<<Opt("type_qual"), Opt("expr"), Imm>>) @@
   "cxx_unresolved_construct_expr" :> Record(<<Q, Array("expr")>>) @@
   "dependent_scope_decl_ref_expr" :> Record(<<T("declaration_name"),
        List("name_specifier_loc"), Array("template_argument_loc")>>) @@
   "expression_trait_expr" :> Record(<<T("expression_trait"), E, Imm>>) @@
   "expr_with_cleanups" :> Record(<<E, Array("block_decl")>>) @@
   "materialize_tmp_expr" :> Record(<<E, T("storage_duration"), Opt("decl"), Imm>>) @@
   "pack_expansion_expr" :> Record(<<E, OptImm>>) @@
   "size_of_pack_expr" :> Record(<<D, OptImm, Imm, Array("template_argument")>>) @@
   "type_trait_expr" :> Record(<<T("type_trait"), OptImm, Array("type_qual")>>) @@
   "expr" :> Record(<<T("expr_kind"), Opt("type_qual"), SrcRange>>)

(* Operators and other enumerations of expressions.                        *)
EnumTypes ==
   "binary_operator" :> Enum(<<"BO_Mul", "BO_Div", "BO_Rem", "BO_Add", "BO_Sub", "BO_Shl",
        "BO_Shr", "BO_LT", "BO_GT", "BO_LE", "BO_GE", "BO_EQ", "BO_NE", "BO_And", "BO_Xor",
        "BO_Or", "BO_LAnd", "BO_LOr", "BO_Comma", "BO_Assign", "BO_PtrMemD", "BO_PtrMemI">>)
        @@
   "compound_assign_operator" :> Enum(<<"BO_MulAssign", "BO_DivAssign", "BO_RemAssign",
        "BO_AddAssign", "BO_SubAssign", "BO_ShlAssign", "BO_ShrAssign", "BO_AndAssign",
        "BO_XorAssign", "BO_OrAssign">>) @@
   "unary_operator" :> Enum(<<"UO_PostInc", "UO_PostDec", "UO_PreInc", "UO_PreDec",
        "UO_AddrOf", "UO_Deref", "UO_Plus", "UO_Minus", "UO_Not", "UO_LNot", "UO_Real",
        "UO_Imag", "UO_Extension", "UO_Coawait">>) @@
   "cast_kind" :> Enum(<<"CStyleCast", "CXXFunctionalCast", "CXXConstCast",
        "CXXDynamicCast", "CXXReinterpretCast", "CXXStaticCast", "ImplicitCast">>) @@
   "character_kind" :> Enum(<<"Char_Ascii", "Char_Wide", "Char_UTF8", "Char_UTF16",
        "Char_UTF32">>) @@
   "ident_type" :> Enum(<<"Ident_Func", "Ident_Function", "Ident_LFunction",
        "Ident_FuncDName", "Ident_FuncSig", "Ident_PrettyFunction",
        "Ident_PrettyFunctionNoVirtual">>) @@
   "unary_expr_or_type" :> Enum(<<"UETT_SizeOf", "UETT_AlignOf", "UETT_PreferredAlignOf">>)
        @@
   "array_type_trait" :> Enum(<<"ATT_ArrayRank", "ATT_ArrayExtent">>) @@
   "lambda_capture_default" :> Enum(<<"LCD_None", "LCD_ByCopy", "LCD_ByRef">>) @@
   "lambda_capture_kind" :> Enum(<<"LCK_This", "LCK_StarThis", "LCK_ByCopy", "LCK_ByRef",
        "LCK_VLAType">>) @@
   "construction_kind" :> Enum(<<"CK_Complete", "CK_NonVirtualBase", "CK_VirtualBase",
        "CK_Delegating">>) @@
   "expression_trait" :> Enum(<<"ET_IsLValueExpr", "ET_IsRValueExpr">>) @@
   "type_trait" :> Enum(<<"UTT_HasNothrowAssign", "UTT_HasNothrowMoveAssign",
        "UTT_HasNothrowCopy", "UTT_HasNothrowConstructor", "UTT_HasTrivialAssign",
        "UTT_HasTrivialMoveAssign", "UTT_HasTrivialCopy",
        "UTT_HasTrivialDefaultConstructor", "UTT_HasTrivialMoveConstructor",
        "UTT_HasTrivialDestructor", "UTT_HasVirtualDestructor", "UTT_IsAbstract",
        "UTT_IsArithmetic", "UTT_IsArray", "UTT_IsClass", "UTT_IsCompleteType",
        "UTT_IsCompound", "UTT_IsConst", "UTT_IsDestructible", "UTT_IsEmpty", "UTT_IsEnum",
        "UTT_IsFinal", "UTT_IsFloatingPoint", "UTT_IsFunction", "UTT_IsFundamental",
        "UTT_IsIntegral", "UTT_IsInterfaceClass", "UTT_IsLiteral", "UTT_IsLvalueReference",
        "UTT_IsMemberFunctionPointer", "UTT_IsMemberObjectPointer", "UTT_IsMemberPointer",
        "UTT_IsNothrowDestructible", "UTT_IsObject", "UTT_IsPOD", "UTT_IsPointer",
        "UTT_IsPolymorphic", "UTT_IsReference", "UTT_IsRvalueReference", "UTT_IsScalar",
        "UTT_IsSealed", "UTT_IsSigned", "UTT_IsStandardLayout", "UTT_IsTrivial",
        "UTT_IsTriviallyCopyable", "UTT_IsUnion", "UTT_IsUnsigned", "UTT_IsVoid",
        "UTT_IsVolatile", "BTT_IsBaseOf", "BTT_IsConvertible", "BTT_IsConvertibleTo",
        "BTT_IsSame", "BTT_TypeCompatible", "BTT_IsAssignable", "BTT_IsNothrowAssignable",
        "BTT_IsTriviallyAssignable", "TT_IsConstructible", "TT_IsNothrowConstructible",
        "TT_IsTriviallyConstructible">>) @@
   "storage_duration" :> Enum(<<"SD_FullExpression", "SD_Automatic", "SD_Thread",
        "SD_Static", "SD_Dynamic">>) @@
   "overloaded_operator" :> Enum(<<"OO_New", "OO_Delete", "OO_Array_New", "OO_Array_Delete",
        "OO_Plus", "OO_Minus", "OO_Star", "OO_Slash", "OO_Percent", "OO_Caret", "OO_Amp",
        "OO_Pipe", "OO_Tilde", "OO_Exclaim", "OO_Equal", "OO_Less", "OO_Greater",
        "OO_PlusEqual", "OO_MinusEqual", "OO_StarEqual", "OO_SlashEqual", "OO_PercentEqual",
        "OO_CaretEqual", "OO_AmpEqual", "OO_PipeEqual", "OO_LessLess", "OO_GreaterGreater",
        "OO_LessLessEqual", "OO_GreaterGreaterEqual", "OO_EqualEqual", "OO_ExclaimEqual",
        "OO_LessEqual", "OO_GreaterEqual", "OO_AmpAmp", "OO_PipePipe", "OO_PlusPlus",
        "OO_MinusMinus", "OO_Comma", "OO_ArrowStar", "OO_Arrow", "OO_Call", "OO_Subscript",
        "OO_Conditional", "OO_Coawait">>) @@
   "initialization_style" :> Enum(<<"New_NoInit", "New_CallInit", "New_ListInit">>)

Schema == DeclTypes @@ TypeTypes @@ StmtTypes @@ TemplateTypes @@ ExprTypes @@ EnumTypes

=============================================================================
