----------------------------- MODULE MCEventStore -----------------------------
(***************************************************************************)
(* One author with three versions of a profile and a note, two publishes   *)
(* in flight, one deletion request and one query.                          *)
(***************************************************************************)
EXTENDS EventStore, TLC

CONSTANTS author, note, v1, v2, v3

MCNotes == {note}
MCProfiles == {v1, v2, v3}
MCAuthors == {author}
MCAuthorOf == [e \in {note, v1, v2, v3} |-> author]
MCRank == (v1 :> 1) @@ (v2 :> 2) @@ (v3 :> 3)
=============================================================================
