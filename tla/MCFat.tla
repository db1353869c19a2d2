------------------------------- MODULE MCFat -------------------------------
(***************************************************************************)
(* A volume of a few clusters of three pieces: a directory holds one entry *)
(* and then grows, and a file of four pieces has two clusters.  The root   *)
(* directory has room for two of the three names.                          *)
(***************************************************************************)
EXTENDS Fat

CONSTANTS d, f, g,    \* names
          one, two    \* data
MCName == {d, f, g}
MCFilePaths == {<<f>>, <<d, f>>, <<d, g>>}
MCDirPaths == {<<d>>, <<g>>}
MCData == {one, two}

\* Nothing tells the two data apart.
MCSymmetry == Permutations({one, two})
==============================================================================
