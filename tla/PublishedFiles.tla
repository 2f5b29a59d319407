----------------------------- MODULE PublishedFiles -----------------------------
(***************************************************************************)
(* The two ways in which a runpack comes to lie under its name: published  *)
(* by a capture, or as an enriched copy.  They share no state, but the     *)
(* promise, which is stated of both here.                                  *)
(***************************************************************************)
EXTENDS ArtifactPublication, EnrichedCopy

(* What is published is the staged file, or the enriched copy, with all of *)
(* its content; after a failure it is not there, and after a success it    *)
(* is, unless somebody changed the name since the link.                    *)
PublishedIsWhole == FileIsWhole /\ CopyIsWhole

(* What others put at the destination stays, but for what takes the place  *)
(* of the program's own between its last look and its removal.             *)
OthersKept == DestinationKept /\ CopyKept
=================================================================================
