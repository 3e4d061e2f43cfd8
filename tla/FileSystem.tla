----------------------------- MODULE FileSystem -----------------------------
(***************************************************************************)
(* The in-memory file system (kernel/filesystem.cpp) as the shell uses it  *)
(* (build_path, cd, mkdir, touch, write, rm, cls in kernel/shell.cpp).     *)
(*                                                                         *)
(* An absolute path is the sequence of what stands between its slashes:    *)
(* "/a/b" is <<"a", "b">>, "/a//b" is <<"a", "", "b">>, "/a/" is           *)
(* <<"a", "">> and "/" is <<"">>.  Paths are compared as strings are: two  *)
(* spellings of a path are different.                                      *)
(* The root entry, which nothing removes or renames, is left out, as are   *)
(* ls and cat, which change nothing.                                       *)
(***************************************************************************)
EXTENDS Naturals, Sequences, FiniteSets, FiniteSetsExt

CONSTANTS
    Names,       \* file names
    Contents,    \* what can be written to a file
    MaxFiles,    \* MAX_FILES, without the root entry
    MaxDepth     \* bound on the components of a path, in place of MAX_PATH_LEN

NoName == ""     \* what stands between two adjacent slashes, or behind the last

ASSUME NamesAssumption == NoName \notin Names
ASSUME FilesAssumption == MaxFiles \in Nat \ {0} /\ MaxDepth \in Nat \ {0}

VARIABLES
    entries,     \* entries[i]
    cwd          \* the shell's current directory, as it was typed

vars == <<entries, cwd>>

Root == <<NoName>>
Component == Names \cup {NoName}
PathOf(n) == UNION {[1 .. k -> Component] : k \in 1 .. n}
Path == PathOf(MaxDepth)
Slots == 1 .. MaxFiles
Empty == [type |-> "UNUSED", parent |-> Root, name |-> NoName, data |-> "none"]
FileEntry == [type : {"REGULAR", "DIRECTORY"}, parent : Path, name : Names,
              data : Contents \cup {"none"}] \cup {Empty}

TypeOK ==
    /\ entries \in [Slots -> FileEntry]
    /\ cwd \in Path

-----------------------------------------------------------------------------
(* Paths *)

\* normalize_path: no slashes at the end, except for the root's own
Normalized(p) == SubSeq(p, 1, Max({1} \cup {i \in 1 .. Len(p) : p[i] # NoName}))

\* split_path: everything before the last slash, and what follows it
ParentOf(p) ==
    LET n == Normalized(p)
    IN  IF Len(n) = 1 THEN Root ELSE SubSeq(n, 1, Len(n) - 1)
NameOf(p) == LET n == Normalized(p) IN n[Len(n)]

\* build_path in the shell
BuildPath(arg, absolute) == IF absolute \/ cwd = Root THEN arg ELSE cwd \o arg

\* Mutated form: passes over directories.
FindFile(parent, name) ==
    {i \in Slots : /\ entries[i].type = "REGULAR"
                   /\ entries[i].name = name
                   /\ entries[i].parent = parent}

\* find_entry, as the set of the entries that match
FindEntry(parent, name) ==
    {i \in Slots : /\ entries[i].type # "UNUSED"
                   /\ entries[i].name = name
                   /\ entries[i].parent = parent}

\* The slot that find_free_slot returns.
FreeSlot(i) ==
    /\ entries[i].type = "UNUSED"
    /\ \A j \in 1 .. i - 1 : entries[j].type # "UNUSED"

\* mkdir and touch: the parent is the root or an existing directory
ParentIsDirectory(parent) ==
    \/ parent = Root
    \/ \E i \in FindEntry(ParentOf(parent), NameOf(parent)) : entries[i].type = "DIRECTORY"

\* The path that rm puts together for a directory
FullPath(e) == IF e.parent = Root THEN <<e.name>> ELSE e.parent \o <<e.name>>

-----------------------------------------------------------------------------

Init ==
    /\ entries = [i \in Slots |-> Empty]
    /\ cwd = Root

\* mkdir and touch store a new entry for path p.
Create(p, type, data) ==
    /\ NameOf(p) # NoName
    /\ ParentIsDirectory(ParentOf(p))
    /\ FindEntry(ParentOf(p), NameOf(p)) = {}
    /\ \E i \in Slots :
         /\ FreeSlot(i)
         /\ entries' = [entries EXCEPT ![i] =
              [type |-> type, parent |-> ParentOf(p), name |-> NameOf(p), data |-> data]]

\* `mkdir'
Mkdir(p) ==
    /\ Normalized(p) # Root
    /\ Create(Normalized(p), "DIRECTORY", "none")
    /\ cwd' = cwd

\* `touch'; an existing entry of any type is left as it is
Touch(p) == Create(Normalized(p), "REGULAR", "none") /\ cwd' = cwd

\* `write' and nano's save: a missing file is created first
Write(p, content) ==
    LET n == Normalized(p)
        found == FindEntry(ParentOf(n), NameOf(n))
    IN  /\ \/ found = {} /\ Create(n, "REGULAR", content)
           \/ \E i \in found : /\ entries[i].type = "REGULAR"
                               /\ entries' = [entries EXCEPT ![i].data = content]
        /\ cwd' = cwd

\* Mutated form: directories are removed with whatever is in them.
AnyMayGo(e) == TRUE

\* rm: files, and directories that no entry has as its parent
MayGo(e) ==
    e.type = "DIRECTORY" =>
        \A j \in Slots : entries[j].type # "UNUSED" => entries[j].parent # FullPath(e)

\* What rm leaves in the slot: all zeros
Cleared(e) == Empty

\* `rm'
Rm(p) ==
    LET n == Normalized(p)
    IN  /\ n # Root
        /\ \E i \in FindEntry(ParentOf(n), NameOf(n)) :
             /\ MayGo(entries[i])
             /\ entries' = [entries EXCEPT ![i] = Cleared(@)]
        /\ cwd' = cwd

\* `cd': the test with ls never fails, so any path is accepted, as typed
\* (bounded so that something can be created in it)
Cd(p) == Len(p) < MaxDepth /\ cwd' = p /\ entries' = entries

\* `cls' calls shell_init, which initialises the file system.
Cls == entries' = [i \in Slots |-> Empty] /\ cwd' = cwd

Next ==
    \/ \E arg \in PathOf(2), absolute \in BOOLEAN :
         LET p == BuildPath(arg, absolute)
         IN  /\ Len(p) <= MaxDepth
             /\ absolute \/ arg # Root
             /\ \/ Mkdir(p)
                \/ Touch(p)
                \/ \E content \in Contents : Write(p, content)
                \/ Rm(p)
                \/ Cd(p)
    \/ Cls

Spec == Init /\ [][Next]_vars

-----------------------------------------------------------------------------
(* Properties *)

\* Whatever is stored under a properly spelled parent hangs in the tree: that
\* parent is the root or a directory that is still there.  rm's test for an
\* empty directory and the parent tests of mkdir and touch have to agree.
TreeWellFormed ==
    \A i \in Slots :
        entries[i].type # "UNUSED" /\ (\A k \in 1 .. Len(entries[i].parent) : entries[i].parent[k] # NoName) =>
        \E d \in Slots : entries[d].type = "DIRECTORY" /\ FullPath(entries[d]) = entries[i].parent

\* A path names one entry: find_entry's answer never depends on the order of
\* the slots, however entries were created and removed.
PathsUnique ==
    \A i, j \in Slots :
        /\ entries[i].type # "UNUSED" /\ entries[j].type # "UNUSED"
        /\ FullPath(entries[i]) = FullPath(entries[j])
        => i = j
=============================================================================
