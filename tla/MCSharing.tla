------------------------------ MODULE MCSharing ------------------------------
(* Small instances of FileVersions, Shares, SharedView and Streaming, which *)
(* share no state: subject says which of them a behaviour is about          *)
EXTENDS FileVersions, Shares, SharedView, Streaming, TLC

VARIABLE subject

(* A shared folder with two levels below it, a second one, a shared file    *)
Tree == ("docs" :> "home") @@ ("deep" :> "docs") @@ ("art" :> "home")

(* Files of more than one chunk, and of a block and a half                  *)
Sizes == <<5, 3, 4>>

(* The players have closed their dialogs on the same name                   *)
FirstName == CHOOSE n \in Names : TRUE

Alike == Permutations(Editors) \cup Permutations(Recipients)

(* Shares: what follows a call that came between the steps of another is    *)
(* not explored                                                             *)
Undisturbed == ~raced

SharingInit ==
    /\ VersionsInit /\ SharesInit /\ ViewInit /\ MediaInit
    /\ subject \in {"versions", "shares", "folders", "media"}
    /\ subject # "media" => \A p \in Players : player[p].name = FirstName
SharingNext ==
    /\ UNCHANGED subject
    /\ \/ /\ subject = "versions" /\ VersionsNext
          /\ UNCHANGED <<sharesVars, viewVars, mediaVars>>
       \/ /\ subject = "shares" /\ SharesNext
          /\ UNCHANGED <<versionVars, viewVars, mediaVars>>
       \/ /\ subject = "folders" /\ ViewNext
          /\ UNCHANGED <<versionVars, sharesVars, mediaVars>>
       \/ /\ subject = "media" /\ MediaNext
          /\ UNCHANGED <<versionVars, sharesVars, viewVars>>
SharingSpec ==
    SharingInit /\ [][SharingNext]_<<versionVars, sharesVars, viewVars, mediaVars, subject>>
=============================================================================
