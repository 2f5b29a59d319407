-------------------------- MODULE ArtifactPublication --------------------------
(***************************************************************************)
(* One file published under a name that nothing else may have: a private   *)
(* temporary beside the destination is written, checked and linked to the  *)
(* destination, and the two names are checked again.  Every step is a call *)
(* on a name, and between any two of them somebody else may remove, create *)
(* or replace an entry, or put another directory in the place of the       *)
(* parent.  The publisher may be killed.                                   *)
(***************************************************************************)
EXTENDS Naturals

CONSTANT MaxChanges  \* bound: what somebody else does

VARIABLES
  names,    \* the entries of the directory that was opened
  parent,   \* the path of the parent still names that directory
  written,  \* the file that is ours has all of the content
  publisher,
  seen,     \* what was read about the entries: source, and then what to remove
  publication,  \* what the publisher reports
  changes,  \* what somebody else did so far
  touched   \* the names they changed since the publisher last relied on them

publicationVars == <<names, parent, written, publisher, seen, publication, changes, touched>>

Names == {"temporary", "destination"}
None == 0
Own == MaxChanges + 1   \* _temporary_identity; somebody else's are 1, 2, ...

PublicationInit ==
  /\ names = [n \in Names |-> None]
  /\ parent = TRUE /\ written = FALSE /\ publisher = "open" /\ seen = None /\ publication = "none"
  /\ changes = 0 /\ touched = {}

GotoStep(at) == publisher' = at

\* A step that only looks, and decides.
Check(at, holds, then, else) ==
  /\ publisher = at
  /\ GotoStep(IF holds THEN then ELSE else)
  /\ publication' = IF holds THEN publication ELSE "failed"
  /\ UNCHANGED <<names, parent, written, seen, changes, touched>>

TryCall(at, then, else) ==
  /\ publisher = at
  /\ GotoStep(then)
  /\ UNCHANGED <<names, parent, written, seen, publication, changes, touched>>

-----------------------------------------------------------------------------
(* prepare_atomic_artifact                                                 *)

OpenParent == Check("open", parent, "absent", "closed")

CheckAbsent == Check("absent", names["destination"] = None, "create", "closed")

CreateTemporary ==
  /\ publisher = "create"
  /\ IF names["temporary"] = None
     THEN /\ names' = [names EXCEPT !["temporary"] = Own]
          /\ touched' = touched \ {"temporary"}
          /\ GotoStep("opened") /\ UNCHANGED publication
     ELSE GotoStep("closed") /\ publication' = "failed" /\ UNCHANGED <<names, touched>>
  /\ UNCHANGED <<parent, written, seen, changes>>

VerifyTemporary == Check("opened", names["temporary"] = Own, "write", "close")

-----------------------------------------------------------------------------
(* publish                                                                 *)

Write ==
  /\ publisher = "write"
  /\ \/ written' = TRUE /\ GotoStep("source") /\ UNCHANGED publication
     \/ GotoStep("close") /\ publication' = "failed" /\ UNCHANGED written
  /\ UNCHANGED <<names, parent, seen, changes, touched>>

CheckSource == Check("source", names["temporary"] = Own, "parent", "close")
CheckParent == Check("parent", parent, "link", "close")

\* Seeded fault: a rename, which replaces what is there.
RenameOver ==
  /\ publisher = "link"
  /\ names' = [names EXCEPT !["destination"] = names["temporary"]]
  /\ GotoStep("statSource") /\ touched' = touched \ {"destination"}
  /\ UNCHANGED <<parent, written, seen, publication, changes>>

LinkEntry ==
  /\ publisher = "link"
  /\ IF names["destination"] = None /\ names["temporary"] # None
     THEN /\ names' = [names EXCEPT !["destination"] = names["temporary"]]
          /\ touched' = touched \ {"destination"}
          /\ GotoStep("statSource") /\ UNCHANGED publication
     ELSE GotoStep("close") /\ publication' = "failed" /\ UNCHANGED <<names, touched>>
  /\ UNCHANGED <<parent, written, seen, changes>>

StatSource ==
  /\ publisher = "statSource"
  /\ seen' = names["temporary"]
  /\ GotoStep("statDestination")
  /\ UNCHANGED <<names, parent, written, publication, changes, touched>>

\* What the rollback would remove: the generation that came through the name.
StatDestination ==
  /\ publisher = "statDestination"
  /\ seen' = IF names["destination"] \in {seen, Own} THEN names["destination"] ELSE None
  /\ GotoStep("again")
  /\ UNCHANGED <<names, parent, written, publication, changes, touched>>

\* Seeded fault: a failure of the last check does not roll back.
CheckParentOnly == Check("parentAgain", parent, "published", "close")

CheckAgain       == Check("again", names["temporary"] = Own, "destination", "rollback")

CheckDestination == Check("destination", names["destination"] = Own, "parentAgain", "rollback")

CheckParentAgain == Check("parentAgain", parent, "published", "rollback")

Published ==
  /\ publisher = "published"
  /\ publication' = "published" /\ GotoStep("close")
  /\ UNCHANGED <<names, parent, written, seen, changes, touched>>

-----------------------------------------------------------------------------
(* _remove_owned_entry: a look and a removal.                              *)

Look(at, name, identity, then) ==
  /\ publisher = at
  /\ GotoStep(IF identity # None /\ names[name] = identity THEN then ELSE IF at = "close" THEN "closed" ELSE "close")
  /\ touched' = touched \ {name}
  /\ UNCHANGED <<names, parent, written, seen, publication, changes>>

\* What took the place of the entry may be a directory, which stays.
Unlink(at, name, then) ==
  /\ publisher = at
  /\ \/ names' = [names EXCEPT ![name] = None]
     \/ names[name] # Own /\ UNCHANGED names
  /\ GotoStep(then)
  /\ UNCHANGED <<parent, written, seen, publication, changes, touched>>

Rollback == Look("rollback", "destination", seen, "rollbackUnlink") \/ Unlink("rollbackUnlink", "destination", "close")
CloseTemporary    == Look("close", "temporary", Own, "closeUnlink") \/ Unlink("closeUnlink", "temporary", "closed")

PublisherKilled ==
  /\ publisher \notin {"closed", "killed"} /\ GotoStep("killed")
  /\ UNCHANGED <<names, parent, written, seen, publication, changes, touched>>

-----------------------------------------------------------------------------
(* Somebody else.                                                          *)

Replaced ==
  /\ changes < MaxChanges /\ changes' = changes + 1
  /\ \E n \in Names, entry \in {None, changes + 1} :
       names[n] # entry /\ names' = [names EXCEPT ![n] = entry] /\ touched' = touched \union {n}
  /\ UNCHANGED <<parent, written, publisher, seen, publication>>

ParentReplaced ==
  /\ changes < MaxChanges /\ changes' = changes + 1
  /\ parent' = ~parent
  /\ UNCHANGED <<names, written, publisher, seen, publication, touched>>

Publisher ==
  \/ OpenParent \/ CheckAbsent \/ CreateTemporary \/ VerifyTemporary
  \/ Write \/ CheckSource \/ CheckParent \/ LinkEntry
  \/ StatSource \/ StatDestination \/ CheckAgain \/ CheckDestination \/ CheckParentAgain \/ Published
  \/ Rollback \/ CloseTemporary

PublicationNext == Publisher \/ PublisherKilled \/ Replaced \/ ParentReplaced

PublicationSpec == PublicationInit /\ [][PublicationNext]_publicationVars

-----------------------------------------------------------------------------

(* The file is at the destination only with all of its content, wherever   *)
(* the publisher is killed, and not after it reported a failure; after a   *)
(* success it is there unless somebody changed that name since the link.   *)
FileIsWhole ==
  /\ names["destination"] = Own => written
  /\ publisher = "closed" /\ publication = "failed" => names["destination"] # Own
  /\ publication = "published" /\ "destination" \notin touched => names["destination"] = Own

(* The publisher takes nothing of somebody else's from the destination:    *)
(* only what it linked there itself goes when it rolls back, or what took  *)
(* its place between the last look and the removal.                        *)
DestinationKept ==
  [][/\ names["destination"] \notin {None, Own} /\ names'["destination"] # names["destination"]
     /\ changes' = changes
     => publisher = "rollbackUnlink" /\ (names["destination"] = seen \/ "destination" \in touched)]_publicationVars
================================================================================
