------------------------------- MODULE MCMount -------------------------------
(* Small instances of MountFolders and of MountFiles, which share no state:  *)
(* subject says which of them a behaviour is about                          *)
EXTENDS MountFolders, MountFiles, TLC

CONSTANTS root, docs, nested, f, g, a, b

VARIABLE subject

(* A root with nothing in it *)
Bare == root :> {}

(* FUSE-T asks for b when it means a *)
Cut == {<<a, b>>}

Alike == Permutations(FileIds) \cup Permutations(Handles)

(* What follows a step that was not given its time is not explored          *)
Unhurried == ~rushed /\ ~hurried

MountInit ==
    /\ Init /\ FilesInit
    /\ subject \in {"folders", "file"} /\ (subject = "folders" => file = NoInode)
MountNext ==
    \/ subject = "folders" /\ Next /\ UNCHANGED <<filesVars, subject>>
    \/ subject = "file" /\ FilesNext /\ UNCHANGED <<vars, subject>>
MountSpec == MountInit /\ [][MountNext]_<<vars, filesVars, subject>>
=============================================================================
