---------------------------- MODULE MCInboxSync -----------------------------
(***************************************************************************)
(* TLC instances of InboxSync: see the .cfg files for the bounds.          *)
(***************************************************************************)
EXTENDS InboxSync

\* The two ways to merge, on every list of up to six entries: both give the
\* one descending list of old and new entries together.
Entry(i) == [id |-> i]
ListOf(ids) == InsertBatch(<<>>, {Entry(i) : i \in ids})

ASSUME MergesAgree ==
  \A old, new \in SUBSET (1..6) :
    old \cap new = {} =>
      LET rows == {Entry(i) : i \in new}
          merged == ListOf(old \union new)
      IN /\ Descending(merged)
         /\ {merged[i].id : i \in DOMAIN merged} = old \union new
         /\ InsertEach(ListOf(old), rows) = merged
         /\ InsertBatch(ListOf(old), rows) = merged
=============================================================================
