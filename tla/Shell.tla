-------------------------------- MODULE Shell --------------------------------
(***************************************************************************)
(* The file commands of the FoxOS shell (execute_command in                *)
(* src/terminal.c): the working directory, kept as a path, on top of the   *)
(* file system.                                                            *)
(*                                                                         *)
(* An argument is the path the user typed, absolute or relative, or        *)
(* missing.  A command that prints an error or only prints (help, version, *)
(* pwd, color and the like) changes neither the table nor the working      *)
(* directory and is a stuttering step.  After exit, which halts the        *)
(* machine, no step follows; the specification does not demand one.        *)
(***************************************************************************)
EXTENDS FoxFS

CONSTANT MaxArg   \* bound: components in an argument

ASSUME ShellAssumption == MaxArg \in 1 .. MaxDepth

VARIABLE current_dir

shellVars == <<vars, current_dir>>

Root == <<NoName>>

Absolute == [absolute : {TRUE}, path : {p \in Paths : Len(p) <= MaxArg}]

(* The text of a relative argument does not start with a slash.            *)
Relative == [absolute : {FALSE}, path : {p \in Paths : Len(p) <= MaxArg /\ p[1] # NoName}]

Args == Absolute \cup Relative

(* Mutant: the working directory is forgotten.                             *)
build_path_root(arg) == arg.path

build_path(arg) ==
  IF arg.absolute \/ current_dir = Root THEN arg.path ELSE current_dir \o arg.path

(* The paths the bound lets through.                                       *)
Built(arg) == {build_path(arg)} \cap Paths

-----------------------------------------------------------------------------
(* Mutant: without an argument the path becomes the empty string.          *)
cd_home_empty == current_dir' = << >> /\ UNCHANGED vars

(* cd without an argument.                                                 *)
cd_home == current_dir' = Root /\ UNCHANGED vars

cd(arg) ==
  \E full_path \in Built(arg) :
    /\ \E dir \in Found(full_path) : files[dir].type = "DIR"
    /\ current_dir' = full_path
    /\ UNCHANGED vars

mkdir(arg) ==
  \E full_path \in Built(arg) : fs_mkdir(full_path) /\ UNCHANGED current_dir

touch_command(arg) ==
  \E full_path \in Built(arg) : touch(full_path) /\ UNCHANGED current_dir

rm(arg) ==
  \E full_path \in Built(arg) : fs_delete_file(full_path) /\ UNCHANGED current_dir

(* ls without an argument, or of ".", lists the working directory.         *)
ls(full_path) == fs_list_dir(full_path) /\ UNCHANGED current_dir

ShellInit == Init /\ current_dir = Root

ShellNext ==
  \/ cd_home
  \/ ls(current_dir)
  \/ \E arg \in Args :
       \/ cd(arg)
       \/ mkdir(arg)
       \/ touch_command(arg)
       \/ rm(arg)
       \/ \E full_path \in Built(arg) : ls(full_path)

ShellSpec == ShellInit /\ [][ShellNext]_shellVars

-----------------------------------------------------------------------------
(***************************************************************************)
(* Properties.                                                             *)
(***************************************************************************)

(* Type invariant: the working directory is always a path.                 *)
ShellTypeOK == TypeOK /\ current_dir \in Paths

(* The directories above an entry, itself included.                        *)
UpFrom(i) ==
  LET up[n \in 0 .. file_count] ==
        IF n = 0 THEN {i} ELSE up[n - 1] \cup {files[k].parent_index : k \in up[n - 1]}
  IN  up[file_count]

(* A relative argument never reaches out of the working directory, however *)
(* the directory came to its place: what a relative mkdir or touch adds    *)
(* lies below the directory that current_dir names, and what a relative rm *)
(* removes did.  If current_dir names nothing any more they do nothing.    *)
RelativeStaysBelow ==
  [][\A arg \in Relative :
       /\ mkdir(arg) \/ touch_command(arg) =>
            \E dir \in {fs_parse_path(current_dir)}, new \in {file_count} :
              (dir \in UpFrom(new))'
       /\ rm(arg) =>
            \E x \in Live : /\ files' = Shifted(files, file_count, x)
                            /\ fs_parse_path(current_dir) \in UpFrom(x)]_shellVars

(* The working directory is lost only by its own removal: unless the step  *)
(* misplaces an entry, every command leaves current_dir on the same entry, *)
(* and if it does not, the directory it named was an empty one.            *)
WorkingDirKept ==
  [][current_dir' = current_dir /\ ~reparented' =>
       LET before == fs_parse_path(current_dir)
           after  == fs_parse_path(current_dir)'
       IN  \/ before = -1
           \/ files' = files /\ after = before
           \/ file_count' = file_count + 1 /\ after = before
           \/ \E x \in Live : /\ files' = Shifted(files, file_count, x)
                              /\ IF x = before THEN after = -1 /\ Children(x) = {}
                                 ELSE after = Renumber(before, x)]_shellVars
=============================================================================
