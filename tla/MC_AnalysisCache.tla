---------------------------- MODULE MC_AnalysisCache ----------------------------
EXTENDS AnalysisCache, TLC

\* Keys are only compared.
Symmetric == Permutations(Key)
===============================================================================
