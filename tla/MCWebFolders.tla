----------------------------- MODULE MCWebFolders -----------------------------
(* Instances of WebFolders for TLC: a root, up to two folders and a file.  *)
EXTENDS WebFolders, TLC

CONSTANTS t1, t2, root, a, b, x, n1, n2

OneTab  == {t1}
TwoTabs == {t1, t2}
RootAndTwo == {root, a, b}
OneFile  == {x}
OneName  == {n1}
TwoNames == {n1, n2}

TreeSymmetry == Permutations({a, b}) \cup Permutations(TwoNames) \cup Permutations(TwoTabs)
=============================================================================
