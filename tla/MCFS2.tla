------------------------------- MODULE MCFS2 -------------------------------
EXTENDS FS2, TLC

\* Names of one and of two characters
P == <<"p">>
Q == <<"q">>
R == <<"r">>
PQ == <<"p", "q">>

\* Top-level names only
MC_FlatPaths == {<<P>>, <<Q>>, <<R>>}

\* A one-letter name, a two-letter name it is a prefix of, and a child of
\* each as a parent
MC_TreePaths == {<<P>>, <<PQ>>, <<P, Q>>, <<PQ, Q>>}

\* The tree paths, and a directory named with a trailing "/"
MC_TreeSlashPaths == MC_TreePaths \cup {<<P, <<>>>>}

\* A directory, the same directory with a trailing "/", and a file
MC_DotPaths == {<<P>>, <<P, <<>>>>, <<Q>>}
============================================================================
