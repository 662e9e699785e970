-------------------------- MODULE ClangDeclTables --------------------------
(***************************************************************************)
(* What the translators of declarations, templates and names of            *)
(* parsers/c/lib/parser/Clang_to_ml.cc store in the blocks they allocate,  *)
(* for Clang 13 and later: for every class of nodes the fields in order,   *)
(* each with the translator called and the accessor of the child it is     *)
(* called on.                                                              *)
(***************************************************************************)
EXTENDS ClangAst

(* How a field is filled: Store_field, Store_field_option, _list, _array.  *)
(* The accessor "this" hands the node itself to another translator.        *)
One(fn, acc)     == <<"one", fn, acc>>
Option(fn, acc)  == <<"opt", fn, acc>>
ListOf(fn, acc)  == <<"list", fn, acc>>
ArrayOf(fn, acc) == <<"array", fn, acc>>
OptListOf(fn, acc) == <<"opt list", fn, acc>>
This(fn)   == One(fn, "this")
Ex(acc)    == One("Expr", acc)
St(acc)    == One("Stmt", acc)
De(acc)    == One("Decl", acc)
Ty(acc)    == One("QualType", acc)
Name       == This("NamedDecl")

Uid        == <<"uid">>          \* Store_uid
Kind(sw)   == <<"switch", sw>>   \* an enumeration, translated by a switch
OptKind(sw) == <<"opt switch", sw>>
ValUnit    == <<"unit">>         \* Val_unit = Val_false = None = []; also a field never stored
Failwith   == <<"fail">>         \* caml_failwith

(* The branches of a kind, in the order they are tried: GENERATE_NODE,     *)
(* GENERATE_NODE_INDIRECT (a record wrapped in its constructor) and        *)
(* GENERATE_NODE_CONSTANT.  The constructor has the name of the class.     *)
Node(cls, fs)     == [cls |-> cls, how |-> "direct", fields |-> fs]
Indirect(cls, fs) == [cls |-> cls, how |-> "indirect", fields |-> fs]
Constant(cls)     == [cls |-> cls, how |-> "constant", fields |-> <<>>]

(* TranslateDecl: the kind of a declaration.                               *)
DeclBranches ==
  <<Node("TranslationUnitDecl", <<ListOf("Decl", "decls")>>),
    Node("FieldDecl", <<This("FieldDecl")>>),
    Node("EnumConstantDecl", <<This("EnumConstantDecl")>>),
    Constant("EmptyDecl"),
    Node("FileScopeAsmDecl", <<Boxed>>),
    Node("LinkageSpecDecl", <<Kind("lang"), ListOf("Decl", "decls")>>),
    Node("LabelDecl", <<Name>>),
    Node("EnumDecl", <<This("EnumDecl")>>),
    Node("RecordDecl", <<This("RecordDecl")>>),
    Node("TypedefNameDecl", <<This("TypedefNameDecl")>>),
    Node("FunctionDecl", <<This("FunctionDecl")>>),
    Node("VarDecl", <<This("VarDecl")>>),
    Constant("AccessSpecDecl"),
    Node("BlockDecl", <<This("BlockDecl")>>),
    Node("FriendDecl", <<This("FriendDecl")>>)>>

DeclBranchesCXX ==
  <<Indirect("StaticAssertDecl", <<Ex("getAssertExpr"), Boxed, Imm>>),
    Node("NamespaceAliasDecl", <<This("NamespaceAliasDecl")>>),
    Node("NamespaceDecl", <<This("NamespaceDecl")>>),
    Indirect("BuiltinTemplateDecl", <<Name, One("TemplateParameterList", "getTemplateParameters"),
       Option("Decl", "getTemplatedDecl"), ValUnit, Kind("builtin_template_kind")>>),
    Node("ClassTemplateDecl", <<This("ClassTemplateDecl")>>),
    Node("FunctionTemplateDecl", <<This("FunctionTemplateDecl")>>),
    Indirect("TypeAliasTemplateDecl", <<Name, One("TemplateParameterList", "getTemplateParameters"),
       One("TypedefNameDecl", "getTemplatedDecl"), ValUnit>>),
    Node("VarTemplateDecl", <<This("VarTemplateDecl")>>),
    Node("TemplateTemplateParmDecl", <<This("TemplateTemplateParmDecl")>>),
    Node("TemplateTypeParmDecl", <<This("TemplateTypeParmDecl")>>),
    Node("TypeAliasDecl", <<This("TypedefNameDecl")>>),
    Node("UnresolvedUsingTypenameDecl", <<This("UnresolvedUsingTypenameDecl")>>),
    Node("UsingDecl", <<This("UsingDecl")>>),
    Indirect("UsingDirectiveDecl", <<Name, ListOf("NestedNameSpecifier", "getQualifier"),
       One("NamespaceDecl", "getNominatedNamespace")>>),
    Node("UsingPackDecl", <<This("UsingPackDecl")>>),
    Node("UsingShadowDecl", <<This("UsingShadowDecl")>>),
    Indirect("BindingDecl", <<Name, Ty("getType"), Ex("getBinding"), Option("VarDecl", "getHoldingVar")>>),
    Node("IndirectFieldDecl", <<This("IndirectFieldDecl")>>),
    Node("UnresolvedUsingValueDecl", <<This("UnresolvedUsingValueDecl")>>),
    Node("NonTypeTemplateParmDecl", <<This("NonTypeTemplateParmDecl")>>)>>

(* The tags of decl_kind: the constructors with arguments and the others.  *)
DeclTags ==
  <<"TranslationUnitDecl", "FieldDecl", "EnumConstantDecl", "FileScopeAsmDecl", "LinkageSpecDecl",
    "LabelDecl", "EnumDecl", "RecordDecl", "TypedefNameDecl", "FunctionDecl", "VarDecl", "BlockDecl",
    "FriendDecl", "StaticAssertDecl", "NamespaceAliasDecl", "NamespaceDecl", "BuiltinTemplateDecl",
    "ClassTemplateDecl", "FunctionTemplateDecl", "TypeAliasTemplateDecl", "VarTemplateDecl",
    "TemplateTemplateParmDecl", "TemplateTypeParmDecl", "TypeAliasDecl",
    "UnresolvedUsingTypenameDecl", "UsingDecl", "UsingDirectiveDecl", "UsingPackDecl",
    "UsingShadowDecl", "BindingDecl", "IndirectFieldDecl", "UnresolvedUsingValueDecl",
    "NonTypeTemplateParmDecl", "UnknownDecl">>
DeclConstants == <<"EmptyDecl", "AccessSpecDecl">>

(* The record of TranslateDecl.                                            *)
DeclFields == <<This("DeclKind"), Kind("access_specifier"), SrcRange, Coms>>

(* The records of the translators of declarations.  Entities carry a uid.  *)
VarDeclFields == <<Uid, Name, Ty("getType"), Kind("storage_class"), Option("Expr", "getInit"),
   Imm, Imm, SrcRange, Coms, Option("VarTemplateSpecializationDecl", "specialization")>>

FunctionDeclFields == <<Uid, Name, Option("Stmt", "getBody"), Imm, Imm, Imm, Kind("storage_class"),
   Ty("getReturnType"), ArrayOf("VarDecl", "getParamDecl"), SrcRange, SrcRange, Coms,
   Option("FunctionTemplateSpecializationDecl", "specialization"), OptKind("overloaded_operator"),
   Option("CXXMethodDecl", "method")>>

EnumConstantDeclFields == <<Uid, Name, Boxed, SrcRange, Coms>>

EnumDeclFields == <<Uid, Name, Imm, Imm, Imm, Option("QualType", "getIntegerType"),
   Option("QualType", "getPromotionType"), ListOf("EnumConstantDecl", "enumerators"),
   Option("TypedefNameDecl", "getTypedefNameForAnonDecl"), SrcRange, Coms>>

(* The block of a field has room for a twelfth value, which is never set.  *)
FieldDeclFields == <<Uid, Name, Imm, Ty("getType"), OptImm, Imm, Imm, Boxed,
   Option("Expr", "getCapturedVLAType"), SrcRange, Coms, ValUnit>>

RecordDeclFields == <<Uid, Name, Kind("record_kind"), Imm, Imm, Imm, Imm, Imm, Boxed, Boxed, Boxed,
   ListOf("FieldDecl", "fields"), Option("TypedefNameDecl", "getTypedefNameForAnonDecl"), SrcRange, Coms,
   Option("ClassTemplateSpecializationDecl", "specialization"), ListOf("CXXBaseSpecifier", "bases"),
   ListOf("FunctionDecl", "methods"), ListOf("FriendDecl", "friends")>>

TypedefNameDeclFields == <<Uid, Name, Ty("getUnderlyingType"), SrcRange, Coms>>

BlockDeclFields == <<Option("Stmt", "getBody"), ArrayOf("VarDecl", "getParamDecl"),
   ArrayOf("Capture", "captures"), Imm, Imm, Imm, Imm>>

CaptureFields == <<One("VarDecl", "getVariable"), Imm, Imm, Option("Expr", "getCopyExpr")>>

NamedDeclFields == <<Boxed, Boxed, One("DeclarationName", "getDeclName")>>
NamespaceDeclFields == <<Name, Imm, Imm>>

NamespaceAliasDeclFields == <<Name, One("NamespaceDecl", "getNamespace"), De("getAliasedNamespace"),
   ListOf("NestedNameSpecifierLoc", "getQualifierLoc")>>

(* Classes.                                                                *)
CXXBaseSpecifierFields == <<Imm, Imm, Imm, Imm, Kind("access_specifier"), Ty("getType")>>

CXXMethodDeclFields == <<One("RecordDecl", "getParent"), Imm, Imm, ListOf("Decl", "overridden_methods"),
   Kind("ref_qualifier"), This("CXXMethodKind")>>

CXXMethodKinds ==
  <<Node("CXXConstructorDecl", <<This("CXXConstructorDecl")>>),
    Constant("CXXDestructorDecl"),
    Node("CXXConversionDecl", <<Imm>>),
    Constant("CXXMethodDecl")>>

CXXConstructorDeclFields == <<ListOf("CXXCtorInitializer", "inits"), Imm, Imm, Imm,
   Option("FunctionDecl", "getTargetConstructor"), Option("FunctionDecl", "getInheritedConstructor")>>

CXXCtorInitializers ==
  <<Node("Constructor_init_Base", <<Ty("getTypeSourceInfo"), Imm, Ex("getInit")>>),
    Node("Constructor_init_Field", <<One("FieldDecl", "getMember"), Ex("getInit")>>),
    Node("Constructor_init_Indirect_field", <<One("IndirectFieldDecl", "getIndirectMember"), Ex("getInit")>>),
    Node("Constructor_init_Delegating", <<Ty("getTypeSourceInfo"), Ex("getInit")>>)>>

FriendDeclFields == <<Option("QualType", "getFriendType"), Option("Decl", "getFriendDecl"), Imm,
   ArrayOf("TemplateParameterList", "getFriendTypeTemplateParameterList"), SrcRange, Coms>>

(* Templates.                                                              *)
TemplateParameterListFields == <<ArrayOf("Decl", "getParam"), Option("Expr", "getRequiresClause")>>

TemplateTemplateParmDeclFields == <<Name, One("TemplateParameterList", "getTemplateParameters"),
   Option("Decl", "getTemplatedDecl"), ValUnit, Imm, Imm,
   ArrayOf("TemplateParameterList", "getExpansionTemplateParameters"),
   Option("TemplateArgumentLoc", "getDefaultArgument")>>

NonTypeTemplateParmDeclFields == <<Name, Ty("getType"), Option("Expr", "getDefaultArgument"), Imm, Imm,
   ArrayOf("QualType", "getExpansionType")>>

TemplateTypeParmDeclFields == <<Name, Option("QualType", "getDefaultArgument")>>

ClassTemplateDeclFields == <<Name, One("TemplateParameterList", "getTemplateParameters"),
   One("RecordDecl", "getTemplatedDecl"), ValUnit, ValUnit, Ty("getInjectedClassNameSpecialization")>>
FunctionTemplateDeclFields == <<Name, One("TemplateParameterList", "getTemplateParameters"),
   One("FunctionDecl", "getTemplatedDecl"), ValUnit, ValUnit>>
VarTemplateDeclFields == <<Name, One("TemplateParameterList", "getTemplateParameters"),
   One("VarDecl", "getTemplatedDecl"), ValUnit, ValUnit>>

ClassTemplateSpecializationDeclFields == <<One("ClassTemplateDecl", "getSpecializedTemplate"),
   ArrayOf("TemplateArgument", "getTemplateArgs")>>
FunctionTemplateSpecializationDeclFields == <<One("FunctionTemplateDecl", "getPrimaryTemplate"),
   ArrayOf("TemplateArgument", "getTemplateSpecializationArgs")>>
VarTemplateSpecializationDeclFields == <<One("VarTemplateDecl", "getSpecializedTemplate"),
   ArrayOf("TemplateArgument", "getTemplateArgs")>>

(* A template argument with its place: the code stores a range.            *)
TemplateArgumentLocFields == <<One("TemplateArgument", "getArgument"), SrcRange>>

TemplateArguments ==
  <<Constant("Template_argument_Null"),
    Node("Template_argument_Type", <<Ty("getAsType")>>),
    Node("Template_argument_Declaration", <<De("getAsDecl")>>),
    Node("Template_argument_NullPtr", <<Ty("getNullPtrType")>>),
    Node("Template_argument_Integral", <<Ty("getIntegralType"), Boxed>>),
    Node("Template_argument_Template", <<One("TemplateName", "getAsTemplate")>>),
    Node("Template_argument_Expression", <<Ex("getAsExpr")>>),
    Node("Template_argument_Pack", <<One("TemplateArgument", "getPackExpansionPattern"),
       ArrayOf("TemplateArgument", "getPackAsArray")>>)>>

TemplateNames ==
  <<Node("Template_name_Template", <<De("getAsTemplateDecl")>>),
    Node("Template_name_OverloadedTemplate", <<ListOf("Decl", "getAsOverloadedTemplate")>>),
    Node("Template_name_QualifiedTemplate", <<ListOf("NestedNameSpecifier", "getQualifier"),
       One("TemplateName", "getUnderlying")>>),
    Node("Template_name_DependentTemplate", <<ListOf("NestedNameSpecifier", "getQualifier"), OptBox,
       OptKind("overloaded_operator")>>),
    Node("Template_name_SubstTemplateTemplateParm", <<De("getParameter"), One("TemplateName", "getReplacement")>>),
    Node("Template_name_SubstTemplateTemplateParmPack", <<De("getParameterPack"),
       One("TemplateArgument", "getArgumentPack")>>)>>

(* Using declarations and indirect fields.                                 *)
UnresolvedUsingTypenameDeclFields == <<Name, ListOf("NestedNameSpecifierLoc", "getQualifierLoc"), Imm>>
UnresolvedUsingValueDeclFields == <<Name, Ty("getType"), ListOf("NestedNameSpecifierLoc", "getQualifierLoc"), Imm, Imm>>
UsingDeclFields == <<Name, ListOf("NestedNameSpecifierLoc", "getQualifierLoc"), Imm>>
UsingPackDeclFields == <<Name, De("getInstantiatedFromUsingDecl"), ArrayOf("Decl", "expansions")>>
UsingShadowDeclFields == <<Name, De("getTargetDecl"), One("BaseUsingDecl", "getIntroducer")>>
IndirectFieldDeclFields == <<Name, Ty("getType"), One("FieldDecl", "getAnonField"),
   Option("VarDecl", "getVarDecl"), ArrayOf("Decl", "chain")>>

(* Names.  An operator is always translated to the first of the type.      *)
DeclarationNames ==
  <<Node("Identifier", <<Boxed>>),
    Node("CXXConstructorName", <<Ty("getCXXNameType")>>),
    Node("CXXDestructorName", <<Ty("getCXXNameType")>>),
    Node("CXXConversionFunctionName", <<Ty("getCXXNameType")>>),
    Node("CXXDeductionGuideName", <<De("getCXXDeductionGuideTemplate")>>),
    Node("CXXOperatorName", <<ValUnit>>),
    Node("CXXLiteralOperatorName", <<Boxed>>),
    Node("CXXUsingDirective", <<Boxed>>)>>

(* The specifiers of a qualified name, the innermost first.                *)
NestedNameSpecifierLocFields == <<This("NestedNameSpecifier"), SrcRange>>

NestedNameSpecifiers ==
  <<Node("Name_specifier_Identifier", <<Boxed>>),
    Node("Name_specifier_Namespace", <<One("NamespaceDecl", "getAsNamespace")>>),
    Node("Name_specifier_NamespaceAlias", <<One("NamespaceAliasDecl", "getAsNamespaceAlias")>>),
    Node("Name_specifier_TypeSpec", <<One("Type", "getAsType")>>),
    Node("Name_specifier_TypeSpecWithTemplate", <<One("Type", "getAsType")>>),
    Constant("Name_specifier_Global")>>
=============================================================================
