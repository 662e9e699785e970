--------------------------- MODULE ClangSwitches ---------------------------
(***************************************************************************)
(* The enumerations of Clang that switches of parsers/c/lib/parser/        *)
(* Clang_to_ml.cc translate to constant constructors: the MLTAG_ names in  *)
(* the order they are numbered, hence the values OCaml receives.           *)
(***************************************************************************)
EXTENDS ClangTypeTables

(* Declarations.                                                           *)
AccessSpecifier == <<"AS_public", "AS_protected", "AS_private", "AS_none">>
BuiltinTemplateKind == <<"BTK__make_integer_seq", "BTK__type_pack_element">>
LanguageIDs == <<"LANG_C", "LANG_CXX">>
StorageClass == <<"SC_None", "SC_Extern", "SC_Static", "SC_PrivateExtern", "SC_Auto",
   "SC_Register">>
StorageDuration == <<"SD_FullExpression", "SD_Automatic", "SD_Thread", "SD_Static",
   "SD_Dynamic">>
TagTypeKind == <<"TTK_Struct", "TTK_Union", "TTK_Class", "TTK_Interface">>
RefQualifierKind == <<"RQ_None", "RQ_LValue", "RQ_RValue">>

(* Expressions.  The kind of a cast is its class.                          *)
CastKind == <<"CStyleCast", "CXXFunctionalCast", "CXXConstCast", "CXXDynamicCast",
   "CXXReinterpretCast", "CXXStaticCast", "ImplicitCast">>
CharacterKind == <<"Char_Ascii", "Char_Wide", "Char_UTF8", "Char_UTF16", "Char_UTF32">>
IdentType == <<"Ident_Func", "Ident_Function", "Ident_LFunction", "Ident_FuncDName",
   "Ident_FuncSig", "Ident_PrettyFunction", "Ident_PrettyFunctionNoVirtual">>
UnaryExprOrTypeTrait == <<"UETT_SizeOf", "UETT_AlignOf", "UETT_PreferredAlignOf">>
ArrayTypeTrait == <<"ATT_ArrayRank", "ATT_ArrayExtent">>
InitializationStyle == <<"New_NoInit", "New_CallInit", "New_ListInit">>
ExpressionTrait == <<"ET_IsLValueExpr", "ET_IsRValueExpr">>
LambdaCaptureDefault == <<"LCD_None", "LCD_ByCopy", "LCD_ByRef">>
LambdaCaptureKind == <<"LCK_This", "LCK_StarThis", "LCK_ByCopy", "LCK_ByRef",
   "LCK_VLAType">>
ConstructionKind == <<"CK_Complete", "CK_NonVirtualBase", "CK_VirtualBase",
   "CK_Delegating">>
TypeTrait == <<"UTT_HasNothrowAssign", "UTT_HasNothrowMoveAssign", "UTT_HasNothrowCopy",
   "UTT_HasNothrowConstructor", "UTT_HasTrivialAssign", "UTT_HasTrivialMoveAssign",
   "UTT_HasTrivialCopy", "UTT_HasTrivialDefaultConstructor",
   "UTT_HasTrivialMoveConstructor", "UTT_HasTrivialDestructor", "UTT_HasVirtualDestructor",
   "UTT_IsAbstract", "UTT_IsArithmetic", "UTT_IsArray", "UTT_IsClass", "UTT_IsCompleteType",
   "UTT_IsCompound", "UTT_IsConst", "UTT_IsDestructible", "UTT_IsEmpty", "UTT_IsEnum",
   "UTT_IsFinal", "UTT_IsFloatingPoint", "UTT_IsFunction", "UTT_IsFundamental",
   "UTT_IsIntegral", "UTT_IsInterfaceClass", "UTT_IsLiteral", "UTT_IsLvalueReference",
   "UTT_IsMemberFunctionPointer", "UTT_IsMemberObjectPointer", "UTT_IsMemberPointer",
   "UTT_IsNothrowDestructible", "UTT_IsObject", "UTT_IsPOD", "UTT_IsPointer",
   "UTT_IsPolymorphic", "UTT_IsReference", "UTT_IsRvalueReference", "UTT_IsScalar",
   "UTT_IsSealed", "UTT_IsSigned", "UTT_IsStandardLayout", "UTT_IsTrivial",
   "UTT_IsTriviallyCopyable", "UTT_IsUnion", "UTT_IsUnsigned", "UTT_IsVoid",
   "UTT_IsVolatile", "BTT_IsBaseOf", "BTT_IsConvertible", "BTT_IsConvertibleTo",
   "BTT_IsSame", "BTT_TypeCompatible", "BTT_IsAssignable", "BTT_IsNothrowAssignable",
   "BTT_IsTriviallyAssignable", "TT_IsConstructible", "TT_IsNothrowConstructible",
   "TT_IsTriviallyConstructible">>

(* Operators.                                                              *)
UnaryOperatorKind == <<"UO_PostInc", "UO_PostDec", "UO_PreInc", "UO_PreDec", "UO_AddrOf",
   "UO_Deref", "UO_Plus", "UO_Minus", "UO_Not", "UO_LNot", "UO_Real", "UO_Imag",
   "UO_Extension", "UO_Coawait">>
BinaryOperatorKind == <<"BO_Mul", "BO_Div", "BO_Rem", "BO_Add", "BO_Sub", "BO_Shl",
   "BO_Shr", "BO_LT", "BO_GT", "BO_LE", "BO_GE", "BO_EQ", "BO_NE", "BO_And", "BO_Xor",
   "BO_Or", "BO_LAnd", "BO_LOr", "BO_Comma", "BO_Assign", "BO_PtrMemD", "BO_PtrMemI">>
CompoundAssignOperatorKind == <<"BO_MulAssign", "BO_DivAssign", "BO_RemAssign",
   "BO_AddAssign", "BO_SubAssign", "BO_ShlAssign", "BO_ShrAssign", "BO_AndAssign",
   "BO_XorAssign", "BO_OrAssign">>
OverloadedOperatorKind == <<"OO_New", "OO_Delete", "OO_Array_New", "OO_Array_Delete",
   "OO_Plus", "OO_Minus", "OO_Star", "OO_Slash", "OO_Percent", "OO_Caret", "OO_Amp",
   "OO_Pipe", "OO_Tilde", "OO_Exclaim", "OO_Equal", "OO_Less", "OO_Greater", "OO_PlusEqual",
   "OO_MinusEqual", "OO_StarEqual", "OO_SlashEqual", "OO_PercentEqual", "OO_CaretEqual",
   "OO_AmpEqual", "OO_PipeEqual", "OO_LessLess", "OO_GreaterGreater", "OO_LessLessEqual",
   "OO_GreaterGreaterEqual", "OO_EqualEqual", "OO_ExclaimEqual", "OO_LessEqual",
   "OO_GreaterEqual", "OO_AmpAmp", "OO_PipePipe", "OO_PlusPlus", "OO_MinusMinus",
   "OO_Comma", "OO_ArrowStar", "OO_Arrow", "OO_Call", "OO_Subscript", "OO_Conditional",
   "OO_Coawait">>

(* Types.                                                                  *)
BuiltinTypeKind == <<"Type_Void", "Type_Bool", "Type_Char_U", "Type_UChar", "Type_WChar_U",
   "Type_Char16", "Type_Char32", "Type_UShort", "Type_UInt", "Type_ULong", "Type_ULongLong",
   "Type_UInt128", "Type_Char_S", "Type_SChar", "Type_WChar_S", "Type_Short", "Type_Int",
   "Type_Long", "Type_LongLong", "Type_Int128", "Type_Half", "Type_Float", "Type_Double",
   "Type_LongDouble", "Type_Float128", "Type_NullPtr", "Type_ObjCId", "Type_ObjCClass",
   "Type_ObjCSel", "Type_OCLSampler", "Type_OCLEvent", "Type_OCLClkEvent", "Type_OCLQueue",
   "Type_OCLReserveID", "Type_Dependent", "Type_Overload", "Type_BoundMember",
   "Type_PseudoObject", "Type_UnknownAny", "Type_BuiltinFn", "Type_ARCUnbridgedCast",
   "Type_OMPArraySection">>
ExceptionSpecificationType == <<"EST_None", "EST_DynamicNone", "EST_Dynamic", "EST_MSAny",
   "EST_BasicNoexcept", "EST_ComputedNoexcept", "EST_Unevaluated", "EST_Uninstantiated",
   "EST_Unparsed", "EST_DependentNoexcept", "EST_NoexceptFalse", "EST_NoexceptTrue">>
ArraySizeModifier == <<"SIZE_NORMAL", "SIZE_STATIC", "SIZE_STAR">>

(* The switches, by the OCaml type they produce.                           *)
SwitchTags ==
  "access_specifier" :> AccessSpecifier @@
  "builtin_template_kind" :> BuiltinTemplateKind @@ "lang" :> LanguageIDs @@
  "storage_class" :> StorageClass @@ "storage_duration" :> StorageDuration @@
  "record_kind" :> TagTypeKind @@ "ref_qualifier" :> RefQualifierKind @@
  "cast_kind" :> CastKind @@ "character_kind" :> CharacterKind @@
  "ident_type" :> IdentType @@ "unary_expr_or_type" :> UnaryExprOrTypeTrait @@
  "array_type_trait" :> ArrayTypeTrait @@
  "initialization_style" :> InitializationStyle @@
  "expression_trait" :> ExpressionTrait @@
  "lambda_capture_default" :> LambdaCaptureDefault @@
  "lambda_capture_kind" :> LambdaCaptureKind @@
  "construction_kind" :> ConstructionKind @@ "type_trait" :> TypeTrait @@
  "unary_operator" :> UnaryOperatorKind @@ "binary_operator" :> BinaryOperatorKind @@
  "compound_assign_operator" :> CompoundAssignOperatorKind @@
  "overloaded_operator" :> OverloadedOperatorKind @@
  "builtin_type" :> BuiltinTypeKind @@
  "exception_specification_type" :> ExceptionSpecificationType @@
  "array_size_modifier" :> ArraySizeModifier

(* The position of a name, from 0: the number the compiler gives it.       *)
TagOf(names, x) == (CHOOSE i \in 1..Len(names) : names[i] = x) - 1
InTags(names, x) == \E i \in 1..Len(names) : names[i] = x

(* A switch sends an enumerator to the tag of its name, both languages of  *)
(* a linkage specifier to C, and has no case for a computed noexcept since *)
(* Clang 7: like any other enumerator, it raises an exception.             *)
CaseOf(v) == IF v = "LANG_CXX" THEN "LANG_C" ELSE v
Handled(sw, v) == v # "EST_ComputedNoexcept" /\ InTags(SwitchTags[sw], v)
SwitchTag(sw, v) == TagOf(SwitchTags[sw], CaseOf(v))
=============================================================================
