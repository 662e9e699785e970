------------------------------ MODULE MC_Clang ------------------------------
(***************************************************************************)
(* Small translation units: one for each class of nodes, without its       *)
(* optional children and with them, one for each enumerator, cyclic ones,  *)
(* and some the translator rejects.                                        *)
(***************************************************************************)
EXTENDS ClangLayout, FiniteSetsExt

(* The classes of Clang that inherit from a class a macro tests, as far as *)
(* the translators rely on it.                                             *)
Base ==
  "CompoundAssignOperator" :> "BinaryOperator" @@ "ConstantExpr" :> "FullExpr" @@
  "ExprWithCleanups" :> "FullExpr" @@ "ImplicitCastExpr" :> "CastExpr" @@
  "BuiltinBitCastExpr" :> "CastExpr" @@ "CXXOperatorCallExpr" :> "CallExpr" @@
  "CXXTemporaryObjectExpr" :> "CXXConstructExpr" @@
  "TypedefDecl" :> "TypedefNameDecl" @@ "TypeAliasDecl" :> "TypedefNameDecl" @@
  "ParmVarDecl" :> "VarDecl" @@ "VarTemplateSpecializationDecl" :> "VarDecl" @@
  "CXXMethodDecl" :> "FunctionDecl" @@ "CXXConstructorDecl" :> "CXXMethodDecl" @@
  "CXXDestructorDecl" :> "CXXMethodDecl" @@ "CXXConversionDecl" :> "CXXMethodDecl" @@
  "CXXRecordDecl" :> "RecordDecl" @@ "ClassTemplateSpecializationDecl" :> "CXXRecordDecl" @@
  "ConstructorUsingShadowDecl" :> "UsingShadowDecl" @@ "GCCAsmStmt" :> "AsmStmt" @@
  "ConstantArrayType" :> "ArrayType" @@ "VariableArrayType" :> "ArrayType" @@
  "IncompleteArrayType" :> "ArrayType" @@ "DependentSizedArrayType" :> "ArrayType" @@
  "UnknownArrayType" :> "ArrayType"
ExprClasses == {Kinds["ExprKind"][i].cls : i \in DOMAIN Kinds["ExprKind"]}
  \cup {"ImplicitCastExpr", "BuiltinBitCastExpr", "CXXOperatorCallExpr", "CXXTemporaryObjectExpr", "RecoveryExpr"}
Up(cs) == cs \cup {Base[c] : c \in cs \cap DOMAIN Base}
SupersOf == [c \in DOMAIN Base |-> Up(Up(Up({c})))]
Supers(cls) == (IF cls \in DOMAIN Base THEN SupersOf[cls] ELSE {cls})
  \cup (IF cls \in ExprClasses THEN {"Expr"} ELSE {})

(* A node nothing is said about bears the name of the translator it is     *)
(* for, and has the plainest class.                                        *)
Plain == "Decl" :> "EmptyDecl" @@ "Expr" :> "IntegerLiteral" @@ "Stmt" :> "NullStmt" @@
  "Type" :> "BuiltinType" @@ "NamedDecl" :> "LabelDecl" @@ "DeclarationName" :> "Identifier" @@
  "NestedNameSpecifier" :> "Name_specifier_Identifier" @@
  "NestedNameSpecifierLoc" :> "Name_specifier_Global" @@
  "TemplateArgument" :> "Template_argument_Null" @@ "TemplateName" :> "Template_name_Template" @@
  "TypedefNameDecl" :> "TypedefDecl" @@ "ArrayType" :> "ConstantArrayType" @@
  "CXXCtorInitializer" :> "Constructor_init_Base" @@ "Designator" :> "Designator_Field" @@
  "OffsetOfNode" :> "Offsetof_Identifier" @@ "BaseUsingDecl" :> "UsingDecl" @@
  "tu" :> "TranslationUnitDecl" @@ "v" :> "VarDecl" @@ "f" :> "FunctionDecl"

(* A program: its classes, its children, the nodes that have all their     *)
(* optional children, and the enumerators it uses.                         *)
Program(class, kids, full, enums) ==
  [class |-> class, kids |-> kids, full |-> full, enums |-> enums]
MCRoot(p) == "tu"
MCClassOf(p, n) ==
  IF n \in DOMAIN p.class THEN p.class[n] ELSE IF n \in DOMAIN Plain THEN Plain[n] ELSE n

(* A declaration is its own specialisation, and its own method.            *)
Itself == {"VarTemplateSpecializationDecl", "ClassTemplateSpecializationDecl", "CXXMethodDecl"}
MCChildren(p, n, f) ==
  IF <<n, f[3]>> \in DOMAIN p.kids THEN p.kids[<<n, f[3]>>]
  ELSE IF f[1] = "one" THEN <<f[2]>>
  ELSE IF f[2] \in Itself THEN IF f[2] \in Supers(MCClassOf(p, n)) THEN <<n>> ELSE <<>>
  ELSE IF f[3] \in {"bases", "methods", "friends"} /\ "CXXRecordDecl" \notin Supers(MCClassOf(p, n)) THEN <<>>
  ELSE IF n \notin p.full \/ f[2] = "TemplateArgumentLoc" THEN <<>>
  ELSE IF f[2] = "FunctionTemplateSpecializationDecl" THEN <<n>>
  ELSE IF f[1] = "opt" THEN <<f[2]>> ELSE <<f[2], f[2]>>
MCEnumerator(p, n, f) ==
  IF f[1] = "opt switch" /\ n \notin p.full THEN {}
  ELSE IF f[2] \in DOMAIN p.enums THEN {p.enums[f[2]]} ELSE {SwitchTags[f[2]][1]}

(* Where a node "x" a translator applies to may stand.                     *)
InType(cls, acc) == Program("x" :> "?" @@ "t" :> cls,
  <<"tu", "decls">> :> <<"v">> @@ <<"QualType", "getTypePtr">> :> <<"t">> @@ <<"t", acc>> :> <<"x">>, {}, <<>>)
InExpr(cls, acc) == Program("e" :> cls,
  <<"tu", "decls">> :> <<"v">> @@ <<"v", "getInit">> :> <<"e">> @@ <<"e", acc>> :> <<"x">>, {}, <<>>)
InDecl(parent, acc) == Program(<<>>, <<"tu", "decls">> :> <<parent>> @@ <<parent, acc>> :> <<"x">>, {}, <<>>)
AtTop == Program(<<>>, <<"tu", "decls">> :> <<"x">>, {}, <<>>)
Context(kind) ==
  CASE kind \in {"DeclKind", "CXXMethodKind"} -> AtTop
    [] kind = "ExprKind" -> InDecl("v", "getInit")
    [] kind = "StmtKind" -> InDecl("f", "getBody")
    [] kind \in {"Type", "ArraySize"} -> Program(<<>>,
         <<"tu", "decls">> :> <<"v">> @@ <<"QualType", "getTypePtr">> :> <<"x">>, {}, <<>>)
    [] kind = "DeclarationName" -> InDecl("v", "getDeclName")
    [] kind = "CXXCtorInitializer" -> [InDecl("c", "inits") EXCEPT !.class = "c" :> "CXXConstructorDecl"]
    [] kind = "Designator" -> InExpr("DesignatedInitExpr", "getDesignator")
    [] kind = "OffsetOfNode" -> InExpr("OffsetOfExpr", "getComponent")
    [] kind = "TemplateArgument" -> InType("TemplateSpecializationType", "template_arguments")
    [] kind = "TemplateName" -> InType("TemplateSpecializationType", "getTemplateName")
    [] kind = "NestedNameSpecifier" -> InType("DependentNameType", "getQualifier")

Sample(kind, cls, full, enums) ==
  LET c == Context(kind) IN
  [c EXCEPT !.class = "x" :> cls @@ c.class, !.full = IF full THEN {"x"} ELSE {}, !.enums = enums]

(* The classes that have instances, and those no macro matches.            *)
Abstract == {"TypedefNameDecl", "CastExpr", "ArrayType", "FullExpr", "AsmStmt", "Expr"}
Concrete(kind) == {Kinds[kind][i].cls : i \in DOMAIN Kinds[kind]} \ Abstract
More == "DeclKind" :> {"TypedefDecl", "VarTemplateSpecializationDecl", "CXXMethodDecl",
            "CXXConstructorDecl", "CXXRecordDecl", "ClassTemplateSpecializationDecl",
            "ConstructorUsingShadowDecl", "ConceptDecl"} @@
        "ExprKind" :> {"ImplicitCastExpr", "CXXOperatorCallExpr", "CXXTemporaryObjectExpr", "RecoveryExpr"} @@
        "StmtKind" :> {"GCCAsmStmt", "IntegerLiteral", "SEHTryStmt"} @@
        "Type" :> {"ConstantArrayType", "VariableArrayType", "BitIntType"} @@
        "TemplateName" :> {"Template_name_AssumedTemplate"} @@ "ArraySize" :> {"UnknownArrayType"}
ClassesOf(kind) == Concrete(kind) \cup IF kind \in DOMAIN More THEN More[kind] ELSE {}

(* Without the classes for which the block filled is not of the OCaml type. *)
AgreeingOf(kind) == {c \in ClassesOf(kind) : <<kind, c>> \notin Disagreeing}
ClassSamples == UNION {{Sample(k, c, full, <<>>) : c \in AgreeingOf(k), full \in BOOLEAN} : k \in DOMAIN Kinds}

(* An enumerator, at a node that uses it; "other" stands for those later   *)
(* versions of Clang add.                                                  *)
UsedBy == "access_specifier" :> "EmptyDecl" @@ "builtin_template_kind" :> "BuiltinTemplateDecl" @@
  "lang" :> "LinkageSpecDecl" @@ "storage_class" :> "VarDecl" @@ "record_kind" :> "RecordDecl" @@
  "overloaded_operator" :> "FunctionDecl"
UsedByExpr == "storage_duration" :> "MaterializeTemporaryExpr" @@ "cast_kind" :> "ImplicitCastExpr" @@
  "character_kind" :> "StringLiteral" @@ "ident_type" :> "PredefinedExpr" @@
  "unary_expr_or_type" :> "UnaryExprOrTypeTraitExpr" @@ "array_type_trait" :> "ArrayTypeTraitExpr" @@
  "initialization_style" :> "CXXNewExpr" @@ "expression_trait" :> "ExpressionTraitExpr" @@
  "lambda_capture_default" :> "LambdaExpr" @@ "lambda_capture_kind" :> "LambdaExpr" @@
  "construction_kind" :> "CXXConstructExpr" @@ "type_trait" :> "TypeTraitExpr" @@
  "unary_operator" :> "UnaryOperator" @@ "binary_operator" :> "BinaryOperator" @@
  "compound_assign_operator" :> "CompoundAssignOperator"
UsedByType == "builtin_type" :> "BuiltinType" @@ "exception_specification_type" :> "FunctionProtoType" @@
  "array_size_modifier" :> "ConstantArrayType" @@ "ref_qualifier" :> "FunctionProtoType"
Enumerators(sw) == ({SwitchTags[sw][i] : i \in DOMAIN SwitchTags[sw]} \cup {"other"}) \ Misnamed
EnumSamples(kind, used) ==
  UNION {{Sample(kind, used[sw], TRUE, sw :> v) : v \in Enumerators(sw)} : sw \in DOMAIN used}

(* struct s { struct s *next; } v; two structures that refer to each other *)
(* directly; struct s; struct s *v; struct s { struct s *next; }; a        *)
(* recursive function; a variable whose initialiser refers to it; a class  *)
(* template specialisation and a method of it.                             *)
Decls(ds) == <<"tu", "decls">> :> ds
CyclicSamples ==
  {Program("s" :> "RecordDecl" @@ "p" :> "PointerType" @@ "t" :> "RecordType",
     Decls(<<"s", "v">>) @@ <<"s", "fields">> :> <<"m">> @@ <<"m", "getType">> :> <<"qp">> @@
     <<"qp", "getTypePtr">> :> <<"p">> @@ <<"p", "getPointeeType">> :> <<"qs">> @@
     <<"qs", "getTypePtr">> :> <<"t">> @@ <<"t", "getDecl">> :> <<"s">> @@ <<"v", "getType">> :> <<"qs">>,
     {}, <<>>),
   Program("a" :> "RecordDecl" @@ "b" :> "RecordDecl" @@ "ta" :> "RecordType" @@ "tb" :> "RecordType",
     Decls(<<"b", "a", "v">>) @@ <<"a", "fields">> :> <<"ma">> @@ <<"b", "fields">> :> <<"mb">> @@
     <<"ma", "getType">> :> <<"qb">> @@ <<"mb", "getType">> :> <<"qa">> @@ <<"qa", "getTypePtr">> :> <<"ta">> @@
     <<"qb", "getTypePtr">> :> <<"tb">> @@ <<"ta", "getDecl">> :> <<"a">> @@ <<"tb", "getDecl">> :> <<"b">>,
     {}, <<>>),
   Program("s0" :> "RecordDecl" @@ "s" :> "RecordDecl" @@ "p" :> "PointerType" @@ "t" :> "RecordType",
     Decls(<<"s0", "v", "s">>) @@ <<"v", "getType">> :> <<"qp">> @@ <<"qp", "getTypePtr">> :> <<"p">> @@
     <<"p", "getPointeeType">> :> <<"qs">> @@ <<"qs", "getTypePtr">> :> <<"t">> @@
     <<"t", "getDecl">> :> <<"s">> @@ <<"s", "fields">> :> <<"m">> @@ <<"m", "getType">> :> <<"qp">>,
     {}, <<>>),
   Program("e" :> "CallExpr" @@ "c" :> "DeclRefExpr",
     Decls(<<"f">>) @@ <<"f", "getBody">> :> <<"e">> @@ <<"e", "getCallee">> :> <<"c">> @@
     <<"c", "getDecl">> :> <<"f">> @@ <<"e", "getDirectCallee">> :> <<"f">>, {}, <<>>),
   Program("e" :> "DeclRefExpr", Decls(<<"v">>) @@ <<"v", "getInit">> :> <<"e">> @@ <<"e", "getDecl">> :> <<"v">>,
     {}, <<>>),
   Program("x" :> "ClassTemplateSpecializationDecl",
     Decls(<<"x", "x">>) @@ <<"x", "methods">> :> <<"g">> @@ <<"g", "getParent">> :> <<"x">>,
     {}, <<>>) }

(* __array_rank(T) has no dimension: the expression Clang returns is null. *)
NullSamples == {Program("e" :> "ArrayTypeTraitExpr", Decls(<<"v">>) @@ <<"v", "getInit">> :> <<"e">> @@
                        <<"e", "getDimensionExpression">> :> <<>>, {}, <<>>)}

MCPrograms == ClassSamples \cup EnumSamples("DeclKind", UsedBy) \cup EnumSamples("ExprKind", UsedByExpr)
  \cup EnumSamples("Type", UsedByType) \cup CyclicSamples \cup NullSamples

(* What the translators are asked for, from the root of a program on: one  *)
(* translator of each cache only for each node, no class the tables        *)
(* disagree about, and no more than the stack holds (OneTranslator,        *)
(* AgreeingPrograms, FittingPrograms).                                     *)
Requests(p, r) ==
  LET fields == ShapeIn(p, r[1], r[2]).fields
      Of(f) == LET ns == NodesOf(p, r[2], f) IN
        {<<Target(f[2]), ns[i]>> : i \in {j \in 1..Len(ns) : ~RejectedIn(p, f[2], ns[j])}}
  IN UNION {Of(fields[k]) : k \in {j \in 1..Len(fields) : Translating(fields[j])}}
RECURSIVE AskedFrom(_, _)
AskedFrom(p, asked) ==
  LET more == asked \cup UNION {Requests(p, r) : r \in asked}
  IN IF more = asked THEN asked ELSE AskedFrom(p, more)
RECURSIVE Height(_, _)
Height(p, r) ==
  LET below == {q \in Requests(p, r) : ~SharesBlocks(q[1])}
  IN IF below = {} THEN 0 ELSE 1 + Max({Height(p, q) : q \in below})
ASSUME SamplesAssumption == \A p \in MCPrograms :
  LET asked == AskedFrom(p, {<<"Decl", MCRoot(p)>>})
      height == [r \in asked |-> Height(p, r)]
  IN /\ AskedFor(p, asked) /\ SeparateCaches(asked) /\ Agreeing(p, asked)
     /\ Fits(p, asked, height, Max({height[r] : r \in asked}))
=============================================================================
