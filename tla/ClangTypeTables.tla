-------------------------- MODULE ClangTypeTables --------------------------
(***************************************************************************)
(* What the translators of statements and types store                      *)
(* (parsers/c/lib/parser/Clang_to_ml.cc), in the notation of               *)
(* ClangDeclTables.                                                        *)
(***************************************************************************)
EXTENDS ClangExprTables

(* The tags of stmt_kind and the record of TranslateStmt.                  *)
StmtTags ==
  <<"AttributedStmt", "BreakStmt", "CompoundStmt", "ContinueStmt", "DeclStmt", "DoStmt", "Expr",
    "ForStmt", "GotoStmt", "IfStmt", "IndirectGotoStmt", "LabelStmt", "ReturnStmt", "CaseStmt",
    "DefaultStmt", "SwitchStmt", "WhileStmt", "CXXForRangeStmt", "CXXTryStmt", "UnknownStmt">>
StmtConstants == <<"AsmStmt", "NullStmt">>

StmtFields == <<This("StmtKind"), SrcRange>>

StmtBranches ==
  <<Constant("AsmStmt"),
    Node("AttributedStmt", <<St("getSubStmt")>>),
    Node("BreakStmt", <<Loc>>),
    Node("CompoundStmt", <<ListOf("Stmt", "body")>>),
    Node("ContinueStmt", <<Loc>>),
    Node("DeclStmt", <<ListOf("Decl", "decls")>>),
    Indirect("DoStmt", <<St("getBody"), Ex("getCond")>>),
    Node("Expr", <<This("Expr")>>),
    Indirect("ForStmt", <<Option("Stmt", "getInit"), Option("Expr", "getCond"), Option("Expr", "getInc"),
       St("getBody")>>),
    Node("GotoStmt", <<One("NamedDecl", "getLabel"), Loc>>),
    Indirect("IfStmt", <<Option("Expr", "getCond"), Option("Stmt", "getThen"), Option("Stmt", "getElse"),
       Option("Stmt", "getInit")>>),
    Node("IndirectGotoStmt", <<Ex("getTarget"), Option("NamedDecl", "getConstantTarget")>>),
    Node("LabelStmt", <<One("NamedDecl", "getDecl"), St("getSubStmt")>>),
    Constant("NullStmt"),
    Node("ReturnStmt", <<Option("Expr", "getRetValue")>>),
    Indirect("CaseStmt", <<Ex("getLHS"), Option("Expr", "getRHS"), St("getSubStmt")>>),
    Node("DefaultStmt", <<St("getSubStmt")>>),
    Indirect("SwitchStmt", <<Option("Stmt", "getInit"), Ex("getCond"), St("getBody")>>),
    Indirect("WhileStmt", <<Ex("getCond"), St("getBody")>>),
    Indirect("CXXForRangeStmt", <<One("VarDecl", "getLoopVariable"), Ex("getRangeInit"), St("getBody")>>),
    Indirect("CXXTryStmt", <<St("getTryBlock"), ArrayOf("CXXCatchStmt", "getHandler")>>)>>

CXXCatchStmtFields == <<Option("VarDecl", "getExceptionDecl"), Option("QualType", "getCaughtType"),
   St("getHandlerBlock")>>

(* The tags of typ, and the branches of TranslateType.                     *)
TypeTags ==
  <<"DecayedType", "ArrayType", "AtomicType", "AttributedType", "BuiltinType", "ComplexType",
    "FunctionProtoType", "FunctionNoProtoType", "ParenType", "PointerType", "EnumType", "RecordType",
    "TypedefType", "ElaboratedType", "UnaryTransformType", "TypeOfExprType", "TypeOfType",
    "DecltypeType", "AutoType", "DeducedTemplateSpecializationType", "DependentSizedExtVectorType",
    "InjectedClassNameType", "MemberPointerType", "PackExpansionType", "LValueReferenceType",
    "RValueReferenceType", "SubstTemplateTypeParmPackType", "SubstTemplateTypeParmType",
    "TemplateSpecializationType", "TemplateTypeParmType", "DependentNameType",
    "DependentTemplateSpecializationType", "UnresolvedUsingType", "VectorType", "UnknownType">>

TypeBranches ==
  <<Node("DecayedType", <<Ty("getDecayedType"), Ty("getPointeeType")>>),
    Node("ArrayType", <<This("ArrayType")>>),
    Node("AtomicType", <<Ty("getValueType")>>),
    Node("AttributedType", <<Ty("getModifiedType")>>),
    Node("BuiltinType", <<Kind("builtin_type")>>),
    Node("ComplexType", <<Ty("getElementType")>>),
    Node("FunctionProtoType", <<This("FunctionProtoType")>>),
    Node("FunctionNoProtoType", <<This("FunctionNoProtoType")>>),
    Node("ParenType", <<Ty("getInnerType")>>),
    Node("PointerType", <<Ty("getPointeeType")>>),
    Node("EnumType", <<One("EnumDecl", "getDecl")>>),
    Node("RecordType", <<One("RecordDecl", "getDecl")>>),
    Node("TypedefType", <<One("TypedefNameDecl", "getDecl")>>),
    Node("ElaboratedType", <<Ty("getNamedType")>>),
    Node("UnaryTransformType", <<Ty("getUnderlyingType"), Ty("getBaseType"), ValUnit>>),
    Node("TypeOfExprType", <<Ex("getUnderlyingExpr")>>),
    Node("TypeOfType", <<Ty("desugar")>>)>>

TypeBranchesCXX ==
  <<Node("DecltypeType", <<Ex("getUnderlyingExpr"), Option("QualType", "getUnderlyingType")>>),
    Node("AutoType", <<Imm>>),
    Node("DeducedTemplateSpecializationType", <<One("TemplateName", "getTemplateName")>>),
    Node("DependentSizedExtVectorType", <<Ex("getSizeExpr"), Ty("getElementType")>>),
    Node("InjectedClassNameType", <<Ty("getInjectedSpecializationType"), Option("TemplateName", "getTemplateName"),
       One("RecordDecl", "getDecl"), ArrayOf("TemplateArgument", "template_arguments")>>),
    Node("MemberPointerType", <<Ty("getPointeeType"), One("Type", "getClass")>>),
    Node("PackExpansionType", <<Ty("getPattern"), OptImm>>),
    Node("LValueReferenceType", <<Ty("getPointeeType")>>),
    Node("RValueReferenceType", <<Ty("getPointeeType")>>),
    Node("SubstTemplateTypeParmPackType", <<Boxed, One("TemplateTypeParmDecl", "getReplacedParameter"),
       One("TemplateArgument", "getArgumentPack")>>),
    Node("SubstTemplateTypeParmType", <<One("TemplateTypeParmDecl", "getReplacedParameter"),
       Ty("getReplacementType")>>),
    Node("TemplateSpecializationType", <<Option("QualType", "getAliasedType"), One("TemplateName", "getTemplateName"),
       ArrayOf("TemplateArgument", "template_arguments")>>),
    Node("TemplateTypeParmType", <<This("TemplateTypeParmType")>>),
    Node("DependentNameType", <<ListOf("NestedNameSpecifier", "getQualifier"), Boxed>>),
    Node("DependentTemplateSpecializationType", <<ListOf("NestedNameSpecifier", "getQualifier"), Boxed,
       ArrayOf("TemplateArgument", "template_arguments")>>),
    Node("UnresolvedUsingType", <<One("UnresolvedUsingTypenameDecl", "getDecl")>>),
    Node("VectorType", <<Ty("getElementType"), Imm, Imm>>)>>

QualTypeFields == <<One("Type", "getTypePtr"), Qual>>

FunctionProtoTypeFields == <<Ty("getCallResultType"), Ty("getReturnType"), Qual,
   ArrayOf("QualType", "getParamType"), Imm, Kind("exception_specification_type"), ValUnit,
   ArrayOf("QualType", "getExceptionType"), Imm, Kind("ref_qualifier")>>

FunctionNoProtoTypeFields == <<Ty("getCallResultType")>>

ArrayTypeFields == <<Ty("getElementType"), This("ArraySize"), Kind("array_size_modifier")>>

ArraySizes ==
  <<Node("ConstantArrayType", <<Boxed>>),
    Node("VariableArrayType", <<Option("Expr", "getSizeExpr")>>),
    Constant("IncompleteArrayType"),
    Constant("DependentSizedArrayType")>>

TemplateTypeParmTypeFields == <<Imm, Imm, Imm, Option("TemplateTypeParmDecl", "getDecl"), OptBox>>
=============================================================================
