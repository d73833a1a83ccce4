--------------------------- MODULE TestProtection ---------------------------
(***************************************************************************)
(* The write protection of test files: revert_unauthorized_test_edits in   *)
(* src/activities/test_protection.py, as far as git status lets it see.    *)
(*                                                                         *)
(* What git status --porcelain prints is modelled by what the function     *)
(* makes of each line: a file of its own, a new folder as one entry, a     *)
(* staged rename as one line for two files, or a path in quotes.  Folders  *)
(* are not nested.                                                         *)
(***************************************************************************)
EXTENDS Workspace

CONSTANTS
    Tests,         (* the files is_test_path recognises                      *)
    Folder, Top,   (* the folder of every file; Top is the repository's root *)
    TestFolders,   (* the folders is_test_path recognises                    *)
    Quoted,        (* test files is_test_path does not recognise once git    *)
                   (* has put their path in quotes                           *)
    Garbled        (* those it still recognises, by a path git does not know *)

ASSUME ProtectionAssumption ==
    /\ Tests \subseteq Files
    /\ Quoted \cup Garbled \subseteq Tests

(* What a command makes of the repository whose edits of files are given:  *)
(* it may also stage or commit what it did.                                *)
CommandOutcomes(edits, stages) ==
    edits \cup
    (IF ~stages THEN {}
     ELSE {AddAll(e) : e \in edits} \cup
          {ResetHard(AddAll(e), Commit("result", e.work)) : e \in edits})

(* git status --porcelain: the "??" entries and the others. *)
UntrackedFiles(r) == {f \in Files : r.index[f] = Absent /\ r.work[f] # Absent}
ModifiedFiles(r) ==
    {f \in Files : \/ r.index[f] # HeadTree(r)[f]
                   \/ r.index[f] # Absent /\ r.work[f] # r.index[f]}
ChangedFiles(r) == UntrackedFiles(r) \cup ModifiedFiles(r)

(* New files of a folder without a file in the index show as the folder.   *)
Collapsed(r, f) ==
    Folder[f] # Top /\ \A g \in Files : Folder[g] = Folder[f] => r.index[g] = Absent

SameEntry(r, f, g) ==
    {f, g} \subseteq UntrackedFiles(r) /\ Folder[f] = Folder[g] /\ Collapsed(r, f)

(* One staged file went and one came: git may call that a rename. *)
Renamed(r, f, g) ==
    /\ HeadTree(r)[f] # Absent /\ r.index[f] = Absent
    /\ HeadTree(r)[g] = Absent /\ r.index[g] # Absent

(* The changes the protection reads, and whether it takes something for a  *)
(* test file that git does not know.  A rename hides both its files; "old  *)
(* -> new" is no path.  A partial listing lacks any lines: the output is   *)
(* compacted like that of any tool, and the exit code, 124 after a time    *)
(* limit in a container, is not looked at.                                 *)
Listings(r, partial) ==
    {l \in [files : SUBSET ChangedFiles(r), unknown : BOOLEAN] :
        LET hidden == ChangedFiles(r) \ l.files
        IN  /\ \A f \in l.files, g \in ChangedFiles(r) : SameEntry(r, f, g) => g \in l.files
            /\ \/ partial
               \/ \A f \in hidden : \E g \in hidden : Renamed(r, f, g) \/ Renamed(r, g, f)
            /\ l.unknown =>
                 \/ partial
                 \/ \E f, g \in hidden : Renamed(r, f, g) /\ {f, g} \cap Tests # {}}

(* git checkout -- <paths>: from the index, for paths that are in it. *)
RestoreFromIndex(r, paths) ==
    Repo(r.head, r.refs, r.index,
         [f \in Files |-> IF f \in paths THEN r.index[f] ELSE r.work[f]])

(* git clean -f -- <paths> *)
RemoveUntracked(r, paths) ==
    Repo(r.head, r.refs, r.index,
         [f \in Files |-> IF f \in paths /\ r.index[f] = Absent
                          THEN Absent ELSE r.work[f]])

(* The entries taken for test files, of those that are tracked and of the *)
(* others; a folder is taken or not as a whole.                            *)
ModifiedTests(r, l, allowed) == (l.files \cap ModifiedFiles(r) \cap Tests) \ (allowed \cup Quoted)
NewTests(r, l, allowed) ==
    {f \in l.files \cap UntrackedFiles(r) :
        IF Collapsed(r, f) THEN Folder[f] \in TestFolders
        ELSE f \in Tests \ (allowed \cup Quoted \cup Garbled)}

(* git checkout does nothing at all when it does not know one of the paths. *)
CheckoutRefused(r, l, allowed) ==
    l.unknown \/ \E f \in ModifiedTests(r, l, allowed) : r.index[f] = Absent \/ f \in Garbled

(* Mutant: new test files are left alone. *)
RevertTrackedOnly(r, l, allowed, revertUntracked) ==
    IF CheckoutRefused(r, l, allowed) THEN r
    ELSE RestoreFromIndex(r, ModifiedTests(r, l, allowed))

(* Mutant: tracked test files are not restored. *)
RevertNewOnly(r, l, allowed, revertUntracked) ==
    IF revertUntracked THEN RemoveUntracked(r, NewTests(r, l, allowed)) ELSE r

(* revert_unauthorized_test_edits: the two commands run one after the      *)
(* other whether or not the first one succeeds.                            *)
RevertTestEdits(r, l, allowed, revertUntracked) ==
    LET restored == IF CheckoutRefused(r, l, allowed) THEN r
                    ELSE RestoreFromIndex(r, ModifiedTests(r, l, allowed))
    IN  IF revertUntracked
        THEN RemoveUntracked(restored, NewTests(r, l, allowed)) ELSE restored

(* For properties: what a pass did not cover. *)
Missed(r, l, allowed) ==
    IF CheckoutRefused(r, l, allowed) THEN Files ELSE ChangedFiles(r) \ l.files

(* For properties: a test file that git status does not show as one. *)
Overlooked(r, f) ==
    \/ f \in Quoted \cup Garbled
    \/ r.index[f] = Absent /\ Collapsed(r, f) /\ Folder[f] \notin TestFolders

(* For properties: what a command did to a file, or to the index entries   *)
(* of its folder.                                                          *)
Touched(r, e) ==
    {f \in Files : \/ e.work[f] # r.work[f]
                   \/ \E g \in Files : Folder[g] = Folder[f] /\ e.index[g] # r.index[g]}
=============================================================================
