-------------------------- MODULE ClangTranslators --------------------------
(***************************************************************************)
(* The translators of parsers/c/lib/parser/Clang_to_ml.cc: the block each  *)
(* of them fills for a node, the cache it goes through, the OCaml type its *)
(* result is used at.  A translator "XKind" stands for the chain of        *)
(* GENERATE_NODE macros, or the switch, that chooses a constructor.        *)
(***************************************************************************)
EXTENDS ClangSwitches

(* Translators that always fill the same record.                           *)
Records ==
  "Decl" :> DeclFields @@ "NamedDecl" :> NamedDeclFields @@ "VarDecl" :> VarDeclFields @@
  "FunctionDecl" :> FunctionDeclFields @@ "EnumConstantDecl" :> EnumConstantDeclFields @@
  "EnumDecl" :> EnumDeclFields @@ "FieldDecl" :> FieldDeclFields @@
  "RecordDecl" :> RecordDeclFields @@ "TypedefNameDecl" :> TypedefNameDeclFields @@
  "BlockDecl" :> BlockDeclFields @@ "Capture" :> CaptureFields @@
  "NamespaceDecl" :> NamespaceDeclFields @@ "NamespaceAliasDecl" :> NamespaceAliasDeclFields @@
  "CXXBaseSpecifier" :> CXXBaseSpecifierFields @@ "CXXMethodDecl" :> CXXMethodDeclFields @@
  "CXXConstructorDecl" :> CXXConstructorDeclFields @@ "FriendDecl" :> FriendDeclFields @@
  "TemplateParameterList" :> TemplateParameterListFields @@
  "TemplateTemplateParmDecl" :> TemplateTemplateParmDeclFields @@
  "NonTypeTemplateParmDecl" :> NonTypeTemplateParmDeclFields @@
  "TemplateTypeParmDecl" :> TemplateTypeParmDeclFields @@
  "ClassTemplateDecl" :> ClassTemplateDeclFields @@
  "FunctionTemplateDecl" :> FunctionTemplateDeclFields @@
  "VarTemplateDecl" :> VarTemplateDeclFields @@
  "ClassTemplateSpecializationDecl" :> ClassTemplateSpecializationDeclFields @@
  "FunctionTemplateSpecializationDecl" :> FunctionTemplateSpecializationDeclFields @@
  "VarTemplateSpecializationDecl" :> VarTemplateSpecializationDeclFields @@
  "TemplateArgumentLoc" :> TemplateArgumentLocFields @@
  "UnresolvedUsingTypenameDecl" :> UnresolvedUsingTypenameDeclFields @@
  "UnresolvedUsingValueDecl" :> UnresolvedUsingValueDeclFields @@ "UsingDecl" :> UsingDeclFields @@
  "UsingPackDecl" :> UsingPackDeclFields @@ "UsingShadowDecl" :> UsingShadowDeclFields @@
  "IndirectFieldDecl" :> IndirectFieldDeclFields @@
  "NestedNameSpecifierLoc" :> NestedNameSpecifierLocFields @@ "Expr" :> ExprFields @@
  "CXXConstructExpr" :> CXXConstructExprFields @@ "OpaqueValueExpr" :> OpaqueValueExprFields @@
  "LambdaCapture" :> LambdaCaptureFields @@ "Stmt" :> StmtFields @@
  "CXXCatchStmt" :> CXXCatchStmtFields @@ "QualType" :> QualTypeFields @@
  "FunctionProtoType" :> FunctionProtoTypeFields @@
  "FunctionNoProtoType" :> FunctionNoProtoTypeFields @@ "ArrayType" :> ArrayTypeFields @@
  "TemplateTypeParmType" :> TemplateTypeParmTypeFields

(* Translators that choose a constructor.                                  *)
Kinds ==
  "DeclKind" :> DeclBranches \o DeclBranchesCXX @@
  "ExprKind" :> OperatorBranches \o PrimaryBranches \o CXXBranches \o CXXBranches2 \o LastBranches @@
  "StmtKind" :> StmtBranches @@ "Type" :> TypeBranches \o TypeBranchesCXX @@
  "CXXMethodKind" :> CXXMethodKinds @@ "CXXCtorInitializer" :> CXXCtorInitializers @@
  "TemplateArgument" :> TemplateArguments @@ "TemplateName" :> TemplateNames @@
  "DeclarationName" :> DeclarationNames @@ "NestedNameSpecifier" :> NestedNameSpecifiers @@
  "Designator" :> Designators @@ "OffsetOfNode" :> OffsetOfNodes @@ "ArraySize" :> ArraySizes

(* A node no macro matches becomes an "unknown" constructor holding the    *)
(* number and the name of its class, or else raises an exception.          *)
Unknown == "DeclKind" :> "UnknownDecl" @@ "ExprKind" :> "UnknownExpr" @@
  "StmtKind" :> "UnknownStmt" @@ "Type" :> "UnknownType"

(* The numbers of the constructors: the MLTAG_ enumerations of the large   *)
(* types; those of the others follow their macros, but for the methods.    *)
Classes(branches) == [i \in 1..Len(branches) |-> branches[i].cls]
IsConstant(b) == b.how = "constant"
HasArguments(b) == b.how # "constant"
BlockTags(fn) ==
  CASE fn = "DeclKind" -> DeclTags
    [] fn = "ExprKind" -> ExprTags
    [] fn = "StmtKind" -> StmtTags
    [] fn = "Type"     -> TypeTags
    [] OTHER           -> Classes(SelectSeq(Kinds[fn], HasArguments))
ConstantTags(fn) ==
  CASE fn = "DeclKind" -> DeclConstants
    [] fn = "ExprKind" -> ExprConstants
    [] fn = "StmtKind" -> StmtConstants
    [] fn = "CXXMethodKind" -> <<"CXXMethodDecl", "CXXDestructorDecl">>
    [] OTHER           -> Classes(SelectSeq(Kinds[fn], IsConstant))

(* The caches, one set of translators each; the others use none.           *)
MiscTranslators == {"VarDecl", "FunctionDecl", "EnumConstantDecl", "EnumDecl", "RecordDecl",
  "TypedefNameDecl", "NamespaceDecl", "NamespaceAliasDecl", "TemplateParameterList", "BlockDecl",
  "CXXConstructExpr", "OpaqueValueExpr", "FunctionProtoType", "FunctionNoProtoType", "ArrayType",
  "TemplateTypeParmType", "TemplateTypeParmDecl"}
Misc2Translators == {"FieldDecl", "UnresolvedUsingTypenameDecl", "FriendDecl",
  "TemplateTemplateParmDecl", "NonTypeTemplateParmDecl", "UnresolvedUsingValueDecl",
  "IndirectFieldDecl", "UsingDecl", "UsingPackDecl", "UsingShadowDecl", "ClassTemplateDecl",
  "FunctionTemplateDecl", "VarTemplateDecl", "ClassTemplateSpecializationDecl",
  "FunctionTemplateSpecializationDecl", "VarTemplateSpecializationDecl"}
CacheOf(fn) ==
  CASE fn \in MiscTranslators      -> "cacheMisc"
    [] fn \in Misc2Translators     -> "cacheMisc2"
    [] fn = "NamedDecl"            -> "cacheMisc3"
    [] fn \in {"Decl", "Capture"}  -> "cacheDecl"
    [] fn = "Expr"                 -> "cacheExpr"
    [] fn = "Stmt"                 -> "cacheStmt"
    [] fn = "Type"                 -> "cacheType"
    [] fn = "QualType"             -> "cacheTypeQual"
    [] OTHER                       -> "none"
CacheNames == {"cacheDecl", "cacheExpr", "cacheStmt", "cacheType", "cacheTypeQual", "cacheMisc",
  "cacheMisc2", "cacheMisc3"}

(* WITH_CACHE stores a block before it fills it; CACHED, after: the        *)
(* translator of qualified types.                                          *)
StoredBeforeButVariables(fn) == CacheOf(fn) # "none" /\ fn \notin {"QualType", "VarDecl"}
StoredBeforeInBodies(fn) == CacheOf(fn) \in {"cacheExpr", "cacheStmt"}
StoredBefore(fn) == CacheOf(fn) # "none" /\ fn # "QualType"
StoredAfter(fn)  == fn = "QualType"
=============================================================================
