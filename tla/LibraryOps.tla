----------------------------- MODULE LibraryOps -----------------------------
(***************************************************************************)
(* libraryEntries, the client's list of decrypted messages, newest first:  *)
(* entries with distinct ids are put in by binary search one at a time, or *)
(* appended and sorted as a batch.  Pure operators, used by InboxSync.     *)
(***************************************************************************)
EXTENDS Integers, SequencesExt

Descending(entries) ==
  \A i, j \in DOMAIN entries : i < j => entries[i].id > entries[j].id

\* The loop of mergeLibraryEntry, from the bounds at = <<lo, hi>> on: how many
\* entries stay in front of id (the array counts from 0, the sequence from 1).
Rank(entries, id) ==
  LET search[at \in (0..Len(entries)) \X (0..Len(entries))] ==
        LET lo == at[1]
            hi == at[2]
            mid == (lo + hi) \div 2
        IN IF lo >= hi THEN lo
           ELSE IF entries[mid + 1].id > id THEN search[<<mid + 1, hi>>]
           ELSE search[<<lo, mid>>]
  IN search[<<0, Len(entries)>>]

Insert(entries, e) == InsertAt(entries, Rank(entries, e.id) + 1, e)

\* The rows of a page come in ascending order.
InOrder(rows) ==
  [i \in 1..Cardinality(rows) |->
     CHOOSE r \in rows : Cardinality({q \in rows : q.id < r.id}) = i - 1]

\* mergeLibraryEntry for each new row of a page.
InsertEach(entries, new) ==
  LET rows == InOrder(new)
      merged[i \in 0..Len(rows)] ==
        IF i = 0 THEN entries ELSE Insert(merged[i - 1], rows[i])
  IN merged[Len(rows)]

\* sort((a, b) => b.id - a.id), which is stable: where each entry goes follows
\* from how many belong in front of it.
Sorted(list) ==
  LET Before(j, k) == list[j].id > list[k].id \/ (list[j].id = list[k].id /\ j < k)
  IN [i \in DOMAIN list |->
        list[CHOOSE k \in DOMAIN list :
               Cardinality({j \in DOMAIN list : Before(j, k)}) = i - 1]]

\* mergeLibraryEntries: push the new rows of a page, then sort.
InsertBatch(entries, new) == Sorted(entries \o InOrder(new))
=============================================================================
