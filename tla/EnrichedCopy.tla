----------------------------- MODULE EnrichedCopy -----------------------------
(***************************************************************************)
(* A runpack is never changed by an enrichment: it is copied to a          *)
(* temporary in a private directory beside the destination, the copy is    *)
(* written to, and then linked to the destination.  Directories and files  *)
(* are found by path once and used by descriptor from then on; between any *)
(* two calls somebody else may make a path lead elsewhere, or change the   *)
(* destination.  What is in the private directory is changed by programs   *)
(* of the same user only, here after the temporary has been opened.  A     *)
(* removal that fails silently is not a step.                              *)
(***************************************************************************)
EXTENDS Naturals

CONSTANT MaxMoves    \* bound: what somebody else does

VARIABLES
  copyNames,  \* the destination, and the temporary in the directory that was opened
  moved,    \* the paths that no longer lead to what was opened
  content,  \* what the file that is ours has got
  copier,
  owned,    \* temporary_owned, and its identity is known
  identities,  \* staged_identity and published_identity
  copying,  \* what the caller is told
  copyChanges,  \* what somebody else did so far
  copyTouched  \* the names they changed since the publisher last relied on them

copyVars == <<copyNames, moved, content, copier, owned, identities, copying, copyChanges, copyTouched>>

NoFile == 0
OwnCopy == MaxMoves + 1 \* temporary_identity; somebody else's are 1, 2, ...

CopyInit ==
  /\ copyNames = [temporary |-> NoFile, destination |-> NoFile]
  /\ moved = {} /\ content = "none" /\ copier = "validate" /\ owned = FALSE
  /\ identities = [staged |-> NoFile, published |-> NoFile]
  /\ copying = "none" /\ copyChanges = 0 /\ copyTouched = {}

CopyGoto(at) == copier' = at
Failed(at) == CopyGoto(at) /\ copying' = "failed"

\* A step that only looks, and decides.
CheckCopy(at, holds, then, else) ==
  /\ copier = at
  /\ IF holds THEN CopyGoto(then) /\ UNCHANGED copying ELSE Failed(else)
  /\ UNCHANGED <<copyNames, moved, content, owned, identities, copyChanges, copyTouched>>

\* A call that may fail, and changes nothing else when it does.
MayFail(at, else) == CheckCopy(at, FALSE, at, else)

Opened(at, path, then) ==
  /\ copier = at /\ moved' = moved \ {path} /\ CopyGoto(then)
  /\ UNCHANGED <<copyNames, content, owned, identities, copying, copyChanges, copyTouched>>

SameTemporary == "staging" \notin moved /\ copyNames.temporary = OwnCopy

-----------------------------------------------------------------------------
(* enrich_copy: opening.                                                   *)

ValidateDestination == CheckCopy("validate", copyNames.destination = NoFile, "source", "closed")

OpenSource    == Opened("source", "source", "snapshot") \/ MayFail("source", "closed")
ReadSource    == CheckCopy("snapshot", "source" \notin moved, "parent", "closed") \/ MayFail("snapshot", "closed")
OpenDirectory == Opened("parent", "parent", "sameParent") \/ MayFail("parent", "closed")
SameParent    == CheckCopy("sameParent", "parent" \notin moved, "staging", "closed")

OpenStagingDirectory == Opened("staging", "staging", "create") \/ MayFail("staging", "closed")

\* By path: it may come to lie in another directory than the one that is open.
CreateCopy ==
  \/ /\ copier = "create" /\ CopyGoto("open")
     /\ copyNames' = IF "staging" \in moved THEN copyNames ELSE [copyNames EXCEPT !.temporary = OwnCopy]
     /\ content' = "empty"
     /\ UNCHANGED <<moved, owned, identities, copying, copyChanges, copyTouched>>
  \/ MayFail("create", "closed")

OpenTemporary ==
  /\ copier = "open"
  /\ IF copyNames.temporary = OwnCopy THEN owned' = TRUE /\ CopyGoto("verify") /\ UNCHANGED copying
     ELSE Failed("closed") /\ UNCHANGED owned
  /\ UNCHANGED <<copyNames, moved, content, identities, copyChanges, copyTouched>>

VerifyCopy == CheckCopy("verify", SameTemporary, "copy", "cleanup")

-----------------------------------------------------------------------------
(* enrich_copy: the copy, the operation on it, and its mode.               *)

Written(at, what, then) ==
  \/ /\ copier = at /\ content' = what /\ CopyGoto(then)
     /\ UNCHANGED <<copyNames, moved, owned, identities, copying, copyChanges, copyTouched>>
  \/ MayFail(at, "cleanup")

\* A temporary that was replaced is not ours to remove.
StillOwned(at, then) ==
  /\ copier = at
  /\ IF SameTemporary THEN CopyGoto(then) /\ UNCHANGED <<owned, copying>>
     ELSE owned' = FALSE /\ Failed("cleanup")
  /\ UNCHANGED <<copyNames, moved, content, identities, copyChanges, copyTouched>>

Copy         == Written("copy", "copied", "afterCopy")
AfterCopy    == StillOwned("afterCopy", "operation")
Operation    == Written("operation", "enriched", "afterOperation")
AfterOperation == StillOwned("afterOperation", "mode")
SetMode      == Written("mode", "ready", "afterMode")
AfterMode    == StillOwned("afterMode", "directory")

CheckDirectory == CheckCopy("directory", "parent" \notin moved, "link", "cleanup")

-----------------------------------------------------------------------------
(* enrich_copy: publication.                                               *)

LinkCopy ==
  /\ copier = "link"
  /\ IF copyNames.destination = NoFile /\ copyNames.temporary # NoFile
     THEN /\ copyNames' = [copyNames EXCEPT !.destination = copyNames.temporary]
          /\ copyTouched' = copyTouched \ {"destination"}
          /\ CopyGoto("statStaged") /\ UNCHANGED copying
     ELSE Failed("cleanup") /\ UNCHANGED <<copyNames, copyTouched>>
  /\ UNCHANGED <<moved, content, owned, identities, copyChanges>>

StatStaged ==
  /\ copier = "statStaged" /\ identities' = [identities EXCEPT !.staged = copyNames.temporary] /\ CopyGoto("statPublished")
  /\ UNCHANGED <<copyNames, moved, content, owned, copying, copyChanges, copyTouched>>

StatPublished ==
  /\ copier = "statPublished" /\ identities' = [identities EXCEPT !.published = copyNames.destination] /\ CopyGoto("decide")
  /\ UNCHANGED <<copyNames, moved, content, owned, copying, copyChanges, copyTouched>>

Decide ==
  /\ copier = "decide"
  /\ IF identities.staged = OwnCopy /\ identities.published = OwnCopy /\ "parent" \notin moved
     THEN CopyGoto("unstage") /\ UNCHANGED <<owned, copying>>
     ELSE /\ Failed(IF identities.published # NoFile /\ identities.published \in {OwnCopy, identities.staged} THEN "rollback" ELSE "cleanup")
          /\ owned' = (owned /\ identities.staged = OwnCopy)
  /\ UNCHANGED <<copyNames, moved, content, identities, copyChanges, copyTouched>>

\* _remove_matching_regular_file: a look and a removal.
LookAt(at, name, identity, then, else) ==
  /\ copier = at
  /\ CopyGoto(IF copyNames[name] = identity THEN then ELSE else)
  /\ copyTouched' = copyTouched \ {name}
  /\ UNCHANGED <<copyNames, moved, content, owned, identities, copying, copyChanges>>

UnlinkCopy(at, name, then) ==
  /\ copier = at
  /\ copyNames' = [copyNames EXCEPT ![name] = NoFile] /\ CopyGoto(then)
  /\ UNCHANGED <<moved, content, owned, identities, copying, copyChanges, copyTouched>>

RollbackCopy ==
  LookAt("rollback", "destination", identities.published, "rollbackUnlink", "cleanup")
  \/ UnlinkCopy("rollbackUnlink", "destination", "cleanup")

Unstage ==
  LookAt("unstage", "temporary", OwnCopy, "unstageUnlink", "final") \/ UnlinkCopy("unstageUnlink", "temporary", "final")

FinalCheck ==
  /\ copier = "final"
  /\ IF "parent" \notin moved /\ copyNames.destination = OwnCopy
     THEN CopyGoto("closed") /\ copying' = "published"
     ELSE Failed("withdraw")
  /\ UNCHANGED <<copyNames, moved, content, owned, identities, copyChanges, copyTouched>>

Withdraw ==
  LookAt("withdraw", "destination", OwnCopy, "withdrawUnlink", "cleanup")
  \/ UnlinkCopy("withdrawUnlink", "destination", "cleanup")

Cleanup ==
  \/ LookAt("cleanup", "temporary", IF owned THEN OwnCopy ELSE MaxMoves + 2, "cleanupAgain", "closed")
  \/ LookAt("cleanupAgain", "temporary", OwnCopy, "cleanupUnlink", "closed")
  \/ UnlinkCopy("cleanupUnlink", "temporary", "closed")

CopierKilled ==
  /\ copier \notin {"closed", "killed"} /\ CopyGoto("killed")
  /\ UNCHANGED <<copyNames, moved, content, owned, identities, copying, copyChanges, copyTouched>>

-----------------------------------------------------------------------------
(* Somebody else.                                                          *)

CopyReplaced ==
  /\ copyChanges < MaxMoves /\ copyChanges' = copyChanges + 1
  /\ \E name \in {"destination"} \union (IF owned THEN {"temporary"} ELSE {}), entry \in {NoFile, copyChanges + 1} :
       copyNames[name] # entry /\ copyNames' = [copyNames EXCEPT ![name] = entry] /\ copyTouched' = copyTouched \union {name}
  /\ UNCHANGED <<moved, content, copier, owned, identities, copying>>

\* The path of the private directory goes through the parent's.
Moved ==
  /\ copyChanges < MaxMoves /\ copyChanges' = copyChanges + 1
  /\ \E paths \in {{"source"}, {"staging"}, {"parent", "staging"}} : moved' = moved \union paths
  /\ UNCHANGED <<copyNames, content, copier, owned, identities, copying, copyTouched>>

Enricher ==
  \/ ValidateDestination \/ OpenSource \/ ReadSource \/ OpenDirectory \/ SameParent
  \/ OpenStagingDirectory \/ CreateCopy \/ OpenTemporary \/ VerifyCopy
  \/ Copy \/ AfterCopy \/ Operation \/ AfterOperation \/ SetMode \/ AfterMode \/ CheckDirectory
  \/ LinkCopy \/ StatStaged \/ StatPublished \/ Decide \/ RollbackCopy \/ Unstage \/ FinalCheck \/ Withdraw \/ Cleanup

CopyNext == Enricher \/ CopierKilled \/ CopyReplaced \/ Moved

CopySpec == CopyInit /\ [][CopyNext]_copyVars

-----------------------------------------------------------------------------

(* The destination is a whole copy with all that was added to it, or not   *)
(* there at all, wherever the program is killed; after a failure it is not *)
(* there.  After a success it is, unless somebody has changed that name    *)
(* since the link.  And unless somebody touched the private directory,     *)
(* nothing is left in it.                                                  *)
CopyIsWhole ==
  /\ copyNames.destination = OwnCopy => content = "ready"
  /\ copier = "closed" /\ copying = "failed" => copyNames.destination # OwnCopy
  /\ copier = "closed" /\ copying = "published" /\ "destination" \notin copyTouched => copyNames.destination = OwnCopy
  /\ copier = "closed" /\ "staging" \notin moved => copyNames.temporary # OwnCopy

(* What others put at the destination stays: only what was linked goes,    *)
(* when it is withdrawn, or what took its place since the last look.       *)
CopyKept ==
  [][/\ copyNames.destination \notin {NoFile, OwnCopy} /\ copyNames'.destination # copyNames.destination
     /\ copyChanges' = copyChanges
     => /\ copier \in {"rollbackUnlink", "withdrawUnlink"}
        /\ copyNames.destination = identities.published \/ "destination" \in copyTouched]_copyVars
================================================================================
