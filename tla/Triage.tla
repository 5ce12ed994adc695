--------------------------------- MODULE Triage ---------------------------------
(***************************************************************************)
(* The detectors and the triage that turn the records of a case and the    *)
(* hits of the retrieval into the list a reviewer sees                     *)
(* (fraudcase_ai/tools/triage.py, dedup.py, policy.py).  Pure definitions. *)
(*                                                                         *)
(* A data set is [invoices, ghosts, policies]: a sequence of invoices with *)
(* distinct ids, the vendors marked as ghosts, and a set of policies.  An  *)
(* invoice is meant by its position.  Amounts, dates and scores (in        *)
(* hundredths) are numbers; names and explanations are left out.           *)
(***************************************************************************)
EXTENDS Integers, Sequences, FiniteSets

BusinessStart == 8
BusinessEnd == 18
VectorSimilarMin == 80

FlaggedReason == {"policy_violation", "ghost_vendor", "off_hours", "duplicate",
                  "vector_similar"}

\* Of the five in the code triage finds these three.
HighSignal == {"ghost_vendor", "duplicate", "vector_similar"}

\* Lexicographic order of tuples of numbers.
Before(a, b) == \E k \in DOMAIN a : a[k] < b[k] /\ \A j \in 1 .. k - 1 : a[j] = b[j]

\* check_policy: the policies an invoice violates.
CheckPolicy(inv, policies) ==
    {p \in policies : p.category \in {"*", inv.category} /\ inv.amount > p.maxAmount}

\* A list of invoices with distinct ids, dates and amounts as numbers.
IsDataSet(ds) ==
    LET invs == ds.invoices
    IN  /\ Len(invs) \in Nat /\ DOMAIN invs = 1 .. Len(invs)
        /\ \A i, j \in DOMAIN invs : invs[i].id = invs[j].id => i = j
        /\ \A i \in DOMAIN invs : invs[i].date \in Nat /\ invs[i].amount \in Int

-------------------------------------------------------------------------------
(* find_exact_duplicates *)

Key(inv) == <<inv.vendor, inv.amount, inv.category>>

Group(invs, i) == {j \in DOMAIN invs : Key(invs[j]) = Key(invs[i])}

\* Mutant: the order of the list decides, whatever the dates are.
EarlierInList(invs, i, j) == i < j

\* The earliest invoice is the original; the position breaks ties.
Earlier(invs, i, j) == Before(<<invs[i].date, i>>, <<invs[j].date, j>>)

\* Copies come after the original of their group.
Copies(invs) == {i \in DOMAIN invs : \E j \in Group(invs, i) : Earlier(invs, j, i)}

-------------------------------------------------------------------------------
(* assemble_flagged_records *)

\* What the loop over the invoices finds.
LocalReasons(ds, i) ==
    LET inv == ds.invoices[i]
        Found(reason) ==
            CASE reason = "policy_violation" -> CheckPolicy(inv, ds.policies) # {}
              [] reason = "ghost_vendor" -> inv.vendor \in ds.ghosts
              [] reason = "off_hours" -> inv.hour \notin BusinessStart .. BusinessEnd
              [] OTHER -> FALSE
    IN  {reason \in FlaggedReason : Found(reason)}

\* The hits that count.  One that names no invoice of the data set is skipped.
HitsFor(ds, hits, i) ==
    {k \in DOMAIN hits : hits[k].id = ds.invoices[i].id /\ hits[k].score >= VectorSimilarMin}

Reasons(ds, hits, i) ==
    LocalReasons(ds, i)
        \cup {r \in {"duplicate"} : i \in Copies(ds.invoices)}
        \cup {r \in {"vector_similar"} : HitsFor(ds, hits, i) # {}}

Flagged(ds, hits) == {i \in DOMAIN ds.invoices : Reasons(ds, hits, i) # {}}

\* _priority; its first component follows from the second.
Priority(ds, hits, i) ==
    LET found == Reasons(ds, hits, i)
    IN  <<Cardinality(found \cap HighSignal), Cardinality(found), ds.invoices[i].amount>>

\* When the dict of reasons first sees an invoice: in the loop over the invoices,
\* among the duplicates (group by group), or by a hit.
FoundAt(ds, hits, i) ==
    LET invs == ds.invoices
        First(S) == CHOOSE j \in S : \A k \in S : j <= k
    IN  IF LocalReasons(ds, i) # {} THEN <<1, i, 0>>
        ELSE IF i \in Copies(invs)
             THEN <<2, First(Group(invs, i)),
                    Cardinality({j \in Group(invs, i) : Earlier(invs, j, i)})>>
        ELSE <<3, First(HitsFor(ds, hits, i)), 0>>

\* Mutant: the list is sorted without reverse = True.
AheadAscending(ds, hits, i, j) == Before(Priority(ds, hits, i), Priority(ds, hits, j))

\* The list is sorted by priority, highest first; sort is stable.
Ahead(ds, hits, i, j) ==
    LET p == Priority(ds, hits, i)
        q == Priority(ds, hits, j)
    IN  \/ Before(q, p)
        \/ p = q /\ Before(FoundAt(ds, hits, i), FoundAt(ds, hits, j))

\* The first max items of the list, as ids.
Shown(ds, hits, max) ==
    LET all == Flagged(ds, hits)
    IN  {ds.invoices[i].id : i \in
            {i \in all : Cardinality({j \in all : Ahead(ds, hits, j, i)}) < max}}
===============================================================================
