-------------------------- MODULE ClangExprTables --------------------------
(***************************************************************************)
(* What the translators of expressions and of their parts store            *)
(* (parsers/c/lib/parser/Clang_to_ml.cc), in the notation of               *)
(* ClangDeclTables.                                                        *)
(***************************************************************************)
EXTENDS ClangDeclTables

(* The tags of expr_kind.                                                  *)
ExprTags ==
  <<"ConditionalOperator", "BinaryConditionalOperator", "AddrLabelExpr", "ArrayInitLoopExpr",
    "ArraySubscriptExpr", "AtomicExpr", "CompoundAssignOperator", "BinaryOperator", "UnaryOperator",
    "CallExpr", "CastExpr", "CharacterLiteral", "ChooseExpr", "CompoundLiteralExpr", "DeclRefExpr",
    "DesignatedInitExpr", "FloatingLiteral", "GenericSelectionExpr", "ImaginaryLiteral",
    "InitListExpr", "IntegerLiteral", "MemberExpr", "OffsetOfExpr", "OpaqueValueExpr", "ParenExpr",
    "ParenListExpr", "PredefinedExpr", "PseudoObjectExpr", "StmtExpr", "StringLiteral",
    "UnaryExprOrTypeTraitExpr", "VAArgExpr", "FullExpr", "ConstantExpr", "ArrayTypeTraitExpr",
    "CXXBindTemporaryExpr", "CXXBoolLiteralExpr", "CXXConstructExpr", "CXXDefaultArgExpr",
    "CXXDefaultInitExpr", "CXXDeleteExpr", "CXXDependentScopeMemberExpr", "CXXFoldExpr",
    "CXXInheritedCtorInitExpr", "CXXNewExpr", "CXXNoexceptExpr", "CXXPseudoDestructorExpr",
    "CXXStdInitializerListExpr", "CXXThisExpr", "CXXThrowExpr", "CXXTypeidExpr",
    "CXXUnresolvedConstructExpr", "DependentScopeDeclRefExpr", "ExpressionTraitExpr",
    "ExprWithCleanups", "FunctionParmPackExpr", "MaterializeTemporaryExpr", "PackExpansionExpr",
    "SizeOfPackExpr", "SubstNonTypeTemplateParmExpr", "SubstNonTypeTemplateParmPackExpr",
    "TypeTraitExpr", "UnresolvedLookupExpr", "UnresolvedMemberExpr", "LambdaExpr",
    "ConvertVectorExpr", "ExtVectorElementExpr", "ShuffleVectorExpr", "UnknownExpr">>
ExprConstants ==
  <<"ArrayInitIndexExpr", "GNUNullExpr", "ImplicitValueInitExpr", "NoInitExpr",
    "CXXNullPtrLiteralExpr", "CXXScalarValueInitExpr">>

(* The record of TranslateExpr.                                            *)
ExprFields == <<This("ExprKind"), Option("QualType", "getType"), SrcRange>>

(* The kind of an expression: operators.  A CompoundAssignOperator is also *)
(* a BinaryOperator and must be tried first.                               *)
OperatorBranches ==
  <<Indirect("ConditionalOperator", <<Ex("getCond"), Ex("getTrueExpr"), Ex("getFalseExpr")>>),
    Indirect("BinaryConditionalOperator", <<Ex("getCond"), Ex("getFalseExpr")>>),
    Node("AddrLabelExpr", <<One("NamedDecl", "getLabel")>>),
    Constant("ArrayInitIndexExpr"),
    Indirect("ArrayInitLoopExpr", <<One("OpaqueValueExpr", "getCommonExpr"), Ex("getSubExpr"), Boxed>>),
    Indirect("ArraySubscriptExpr", <<Ex("getBase"), Ex("getIdx")>>),
    Indirect("AtomicExpr", <<Imm, Ex("getPtr"), Ex("getOrder")>>),
    Indirect("CompoundAssignOperator", <<Ex("getLHS"), Ty("getComputationLHSType"),
       Kind("compound_assign_operator"), Ex("getRHS"), Ty("getComputationResultType")>>),
    Node("BinaryOperator", <<Ex("getLHS"), Kind("binary_operator"), Ex("getRHS")>>),
    Node("UnaryOperator", <<Kind("unary_operator"), Ex("getSubExpr")>>),
    Indirect("CallExpr", <<Ex("getCallee"), Option("FunctionDecl", "getDirectCallee"),
       ArrayOf("Expr", "getArg"), OptKind("overloaded_operator")>>),
    Node("CastExpr", <<Ex("getSubExpr"), Kind("cast_kind")>>),
    Node("CharacterLiteral", <<Boxed, Kind("character_kind")>>),
    Indirect("ChooseExpr", <<Ex("getCond"), Ex("getLHS"), Ex("getRHS"), Ex("getLHS"), Imm>>),
    Node("CompoundLiteralExpr", <<Ex("getInitializer"), Imm>>),
    Node("DeclRefExpr", <<De("getDecl")>>),
    Node("DesignatedInitExpr", <<ArrayOf("Designator", "getDesignator"), Ex("getInit")>>),
    Node("FloatingLiteral", <<Boxed>>),
    Indirect("GenericSelectionExpr", <<Ex("getControllingExpr"), ArrayOf("Expr", "getAssocExprs"), Imm>>)>>

(* Literals, initialisers, members and the GNU extensions.                 *)
PrimaryBranches ==
  <<Constant("GNUNullExpr"),
    Node("ImaginaryLiteral", <<Ex("getSubExpr")>>),
    Constant("ImplicitValueInitExpr"),
    Indirect("InitListExpr", <<ArrayOf("Expr", "getInit"), Option("FieldDecl", "getInitializedFieldInUnion"),
       Option("Expr", "getArrayFiller")>>),
    Node("IntegerLiteral", <<Boxed>>),
    Indirect("MemberExpr", <<Ex("getBase"), De("getMemberDecl"), Imm,
       OptListOf("NestedNameSpecifierLoc", "getQualifierLoc"), ArrayOf("TemplateArgumentLoc", "getTemplateArgs"),
       One("DeclarationName", "getMemberNameInfo")>>),
    Constant("NoInitExpr"),
    Node("OffsetOfExpr", <<ArrayOf("OffsetOfNode", "getComponent"), OptBox>>),
    Node("OpaqueValueExpr", <<This("OpaqueValueExpr")>>),
    Node("ParenExpr", <<Ex("getSubExpr")>>),
    Node("ParenListExpr", <<ArrayOf("Expr", "getExpr")>>),
    Node("PredefinedExpr", <<Kind("ident_type"), Boxed>>),
    Indirect("PseudoObjectExpr", <<Ex("getSyntacticForm"), ArrayOf("Expr", "getSemanticExpr"), OptImm>>),
    Node("StmtExpr", <<ListOf("Stmt", "getSubStmt")>>),
    Node("StringLiteral", <<Boxed, Kind("character_kind")>>),
    Node("UnaryExprOrTypeTraitExpr", <<Kind("unary_expr_or_type"), Ty("getTypeOfArgument")>>),
    Node("VAArgExpr", <<Ex("getSubExpr")>>)>>

(* C++ expressions, until allocation.                                      *)
CXXBranches ==
  <<Indirect("ArrayTypeTraitExpr", <<Kind("array_type_trait"), Ty("getQueriedType"), Boxed,
       Ex("getDimensionExpression")>>),
    Node("CXXBindTemporaryExpr", <<Ex("getSubExpr")>>),
    Node("CXXBoolLiteralExpr", <<Imm>>),
    Node("CXXConstructExpr", <<This("CXXConstructExpr")>>),
    Node("CXXDefaultArgExpr", <<One("VarDecl", "getParam"), Ex("getExpr")>>),
    Node("CXXDefaultInitExpr", <<One("FieldDecl", "getField"), Ex("getExpr")>>),
    Indirect("CXXDeleteExpr", <<Ex("getArgument"), Option("FunctionDecl", "getOperatorDelete"),
       Option("QualType", "getDestroyedType"), Imm, Imm, Imm>>),
    Indirect("CXXDependentScopeMemberExpr", <<Option("Expr", "getBase"), Ty("getBaseType"), Imm,
       ListOf("NestedNameSpecifierLoc", "getQualifierLoc"), Option("Decl", "getFirstQualifierFoundInScope"),
       One("DeclarationName", "getMember"), ArrayOf("TemplateArgumentLoc", "getTemplateArgs")>>),
    Indirect("CXXFoldExpr", <<Ex("getPattern"), Option("Expr", "getInit"), Imm, Kind("binary_operator")>>),
    Indirect("CXXInheritedCtorInitExpr", <<One("FunctionDecl", "getConstructor"), Kind("construction_kind"),
       Imm, Imm>>),
    Indirect("CXXNewExpr", <<Ty("getAllocatedType"), Option("FunctionDecl", "getOperatorNew"),
       Option("FunctionDecl", "getOperatorDelete"), Option("Expr", "getArraySize"), Imm,
       Kind("initialization_style"), Option("Expr", "getInitializer"), ArrayOf("Expr", "getPlacementArg"),
       Option("CXXConstructExpr", "getConstructExpr"), Imm, Imm>>),
    Node("CXXNoexceptExpr", <<Ex("getOperand"), Imm>>),
    Constant("CXXNullPtrLiteralExpr"),
    Indirect("CXXPseudoDestructorExpr", <<Ex("getBase"), OptListOf("NestedNameSpecifierLoc", "getQualifierLoc"),
       Imm, Ty("getDestroyedType")>>),
    Constant("CXXScalarValueInitExpr"),
    Node("CXXStdInitializerListExpr", <<Ex("getSubExpr")>>),
    Node("CXXThisExpr", <<Imm>>),
    Indirect("CXXThrowExpr", <<Option("Expr", "getSubExpr"), Imm>>)>>

(* C++ expressions about types, packs, overloads and lambdas.              *)
CXXBranches2 ==
  <<Indirect("CXXTypeidExpr", <<Option("QualType", "getTypeOperand"), Option("Expr", "getExprOperand"), Imm>>),
    Indirect("CXXUnresolvedConstructExpr", <<Ty("getTypeAsWritten"), ArrayOf("Expr", "getArg")>>),
    Indirect("DependentScopeDeclRefExpr", <<One("DeclarationName", "getDeclName"),
       ListOf("NestedNameSpecifierLoc", "getQualifierLoc"), ArrayOf("TemplateArgumentLoc", "getTemplateArgs")>>),
    Indirect("ExpressionTraitExpr", <<Kind("expression_trait"), Ex("getQueriedExpression"), Imm>>),
    Indirect("ExprWithCleanups", <<Ex("getSubExpr"), Failwith>>),
    Node("FunctionParmPackExpr", <<One("VarDecl", "getParameterPack"), ArrayOf("VarDecl", "getExpansion")>>),
    Indirect("MaterializeTemporaryExpr", <<Ex("getSubExpr"), Kind("storage_duration"),
       Option("Decl", "getExtendingDecl"), Imm>>),
    Indirect("PackExpansionExpr", <<Ex("getPattern"), OptImm>>),
    Indirect("SizeOfPackExpr", <<De("getPack"), OptImm, Imm, ArrayOf("TemplateArgument", "getPartialArguments")>>),
    Indirect("SubstNonTypeTemplateParmExpr", <<Ex("getReplacement"), One("NonTypeTemplateParmDecl", "getParameter")>>),
    Indirect("SubstNonTypeTemplateParmPackExpr", <<One("NonTypeTemplateParmDecl", "getParameterPack"),
       One("TemplateArgument", "getArgumentPack")>>),
    Indirect("TypeTraitExpr", <<Kind("type_trait"), OptImm, ArrayOf("QualType", "getArgs")>>),
    Indirect("UnresolvedLookupExpr", <<Imm, Imm, Option("RecordDecl", "getNamingClass"),
       One("DeclarationName", "getName"), ListOf("Decl", "decls"),
       ArrayOf("TemplateArgumentLoc", "template_arguments")>>),
    Indirect("UnresolvedMemberExpr", <<Option("Expr", "getBase"), Ty("getBaseType"), Imm, Imm,
       Option("RecordDecl", "getNamingClass"), One("DeclarationName", "getMemberName"),
       One("DeclarationName", "getName"), ListOf("Decl", "decls"),
       ArrayOf("TemplateArgumentLoc", "template_arguments")>>),
    Indirect("LambdaExpr", <<Kind("lambda_capture_default"), ListOf("LambdaCapture", "captures"),
       ListOf("Expr", "capture_inits"), One("RecordDecl", "getLambdaClass"), One("FunctionDecl", "getCallOperator"),
       Option("TemplateParameterList", "getTemplateParameterList"), Imm, St("getBody"), Imm, Imm, Imm>>)>>

(* Vectors, then the expressions of Clang 8; FullExpr is a base class of   *)
(* ConstantExpr and ExprWithCleanups, which come before it.                *)
LastBranches ==
  <<Node("ConvertVectorExpr", <<Ex("getSrcExpr")>>),
    Node("ExtVectorElementExpr", <<Ex("getBase"), Boxed>>),
    Node("ShuffleVectorExpr", <<ArrayOf("Expr", "getExpr")>>),
    Node("ConstantExpr", <<Ex("getSubExpr")>>),
    Node("FullExpr", <<Ex("getSubExpr")>>)>>

(* The parts of expressions.                                               *)
CXXConstructExprFields == <<One("FunctionDecl", "getConstructor"), Kind("construction_kind"),
   ArrayOf("Expr", "getArg"), Imm, Imm>>

Designators ==
  <<Node("Designator_Field", <<One("FieldDecl", "getField")>>),
    Node("Designator_Array", <<Ex("getArrayIndex")>>),
    Node("Designator_ArrayRange", <<Ex("getArrayRangeStart"), Ex("getArrayRangeEnd")>>)>>

OffsetOfNodes ==
  <<Node("Offsetof_Array", <<Ex("getIndexExpr")>>),
    Node("Offsetof_Field", <<One("FieldDecl", "getField")>>),
    Node("Offsetof_Identifier", <<Boxed>>)>>

OpaqueValueExprFields == <<Option("Expr", "getSourceExpr"), Ty("getType"), SrcRange>>
LambdaCaptureFields == <<Kind("lambda_capture_kind"), Imm, Imm, Option("Decl", "getCapturedVar"), Imm, Imm>>
=============================================================================
