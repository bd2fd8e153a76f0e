------------------------------ MODULE FileMode ------------------------------
(***************************************************************************)
(* wire/filemode.go: the type of a file from the mode that sync mode       *)
(* sends.  A mode is sixteen bits; the type is in the upper four, written  *)
(* here as the set of the digits 8, 4, 2, 1 that are set (octal 0100000,   *)
(* 040000, 020000, 010000).  The permission bits below are kept as they    *)
(* are, and do not matter to the type.                                     *)
(***************************************************************************)
Bits == {8, 4, 2, 1}

Kinds == {"regular", "dir", "symlink", "socket", "block", "char", "fifo"}

\* external: the types of stat.h, from which the device takes its modes
StatType ==
  [regular |-> {8}, dir |-> {4}, symlink |-> {8, 2}, socket |-> {8, 4},
   block |-> {4, 2}, char |-> {2}, fifo |-> {1}]

ModeDir == {4}
ModeSymlink == {8, 2}
ModeSocket == {8, 4}
ModeFifo == {1}
ModeCharDevice == {2}

\* the mutant: the pattern is tested against the mode, not the mode against it
ParseFileModeFromAdb_AnyBit(mode) ==
  IF ModeSymlink \cap mode # {} THEN "symlink"
  ELSE IF ModeDir \cap mode # {} THEN "dir"
  ELSE "regular"

\* modeFromSync & pattern == pattern, in the order of the cases; a type that no
\* case knows is a regular file
ParseFileModeFromAdb(mode) ==
  IF ModeSymlink \subseteq mode THEN "symlink"
  ELSE IF ModeDir \subseteq mode THEN "dir"
  ELSE IF ModeSocket \subseteq mode THEN "socket"
  ELSE IF ModeFifo \subseteq mode THEN "fifo"
  ELSE IF ModeCharDevice \subseteq mode THEN "char"
  ELSE "regular"

\* os.FileMode.IsDir of what Stat reports for a file of the device
IsDir(kind) == ParseFileModeFromAdb(StatType[kind]) = "dir"
=============================================================================
