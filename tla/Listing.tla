------------------------------ MODULE Listing ------------------------------
(***************************************************************************)
(* GET /photos and GET /moderation/queue: limit/offset pages of a table    *)
(* others insert into and delete from. A row is a photo of the caller, or  *)
(* a flag still pending; a decision ends a row of the queue as a deletion  *)
(* ends a row of the photos. Each SELECT of a page sees what is committed  *)
(* when it runs (READ COMMITTED). A client walks the pages until one comes *)
(* back short.                                                             *)
(***************************************************************************)
EXTENDS Integers, Sequences, FiniteSets, SequencesExt

CONSTANTS
    Writer,      \* transactions inserting one row each
    Limit,       \* page size the client asks for, 1..100
    MaxOffset,   \* largest offset accepted: 1 000 000
    Initial,     \* how many rows there are when the walk begins
    MaxRemovals  \* bound: how many rows go during a run

ASSUME ListingAssumption ==
    /\ Limit \in 1..100 /\ MaxOffset \in Nat
    /\ Initial \in Nat /\ MaxRemovals \in Nat

VARIABLES
    rows,     \* committed rows: [id, at], at being created_at
    clock,    \* transaction start times
    lastId,   \* the id sequence
    writer,   \* what each inserting transaction has got so far
    walk,     \* the client's walk and the page in the making; history: the
              \* rows there at its start and at its last count
    gone      \* rows that were in the listing and left it

vars == <<rows, clock, lastId, writer, walk, gone>>

RowAt(id, at) == [id |-> id, at |-> at]

(* ORDER BY created_at DESC, id DESC. *)
Newer(a, b) == a.at > b.at \/ (a.at = b.at /\ a.id > b.id)
Place(x, S) == Cardinality({y \in S : Newer(y, x)})  \* how many come before x
Listed(S)   == [i \in 1..Cardinality(S) |-> CHOOSE x \in S : Place(x, S) = i - 1]

(* LIMIT and OFFSET. *)
Window(s, offset) == SubSeq(s, offset + 1, Min({offset + Limit, Len(s)}))

Init ==
    /\ rows = {RowAt(i, 0) : i \in 1..Initial}
    /\ clock = 0 /\ lastId = Initial
    /\ writer = [w \in Writer |-> [pc |-> "begin", id |-> 0, at |-> 0]]
    /\ walk = [pc |-> "count", offset |-> 0, total |-> 0, page |-> <<>>,
               related |-> {}, seen |-> <<>>, start |-> rows, counted |-> {}]
    /\ gone = {}

---------------------------------------------------------------------------
(* Writers. created_at is now(), the start of the transaction, which the   *)
(* SELECT of the caller's account begins; the id comes with the flush, and *)
(* the row is listed from the commit on. The three need not agree.         *)

Begin(w) ==
    /\ writer[w].pc = "begin"
    /\ clock' \in {clock, clock + 1}
    /\ writer' = [writer EXCEPT ![w] = [pc |-> "flush", id |-> 0, at |-> clock']]
    /\ UNCHANGED <<rows, lastId, walk, gone>>

Flush(w) ==
    /\ writer[w].pc = "flush"
    /\ lastId' = lastId + 1
    /\ writer' = [writer EXCEPT ![w].pc = "commit", ![w].id = lastId']
    /\ UNCHANGED <<rows, clock, walk, gone>>

Commit(w) ==
    /\ writer[w].pc = "commit"
    /\ rows' = rows \cup {RowAt(writer[w].id, writer[w].at)}
    /\ writer' = [writer EXCEPT ![w].pc = "done"]
    /\ UNCHANGED <<clock, lastId, walk, gone>>

(* The photo is deleted, or the flag decided or deleted with its photo. *)
Leave(x) ==
    /\ Cardinality(gone) < MaxRemovals
    /\ x \in rows
    /\ rows' = rows \ {x} /\ gone' = gone \cup {x}
    /\ UNCHANGED <<clock, lastId, writer, walk>>

---------------------------------------------------------------------------
(* One request of the walk: three SELECTs.                                 *)

(* An offset beyond the bound is a 422 before any of them. *)
Refuse ==
    /\ walk.pc = "count" /\ walk.offset > MaxOffset
    /\ walk' = [walk EXCEPT !.pc = "refused"]
    /\ UNCHANGED <<rows, clock, lastId, writer, gone>>

(* Mutant: the count has no WHERE. *)
CountAll ==
    /\ walk.pc = "count" /\ walk.offset <= MaxOffset
    /\ walk' = [walk EXCEPT !.pc = "page", !.counted = rows,
                            !.total = Cardinality(rows \cup gone) + 1]
    /\ UNCHANGED <<rows, clock, lastId, writer, gone>>

Count ==
    /\ walk.pc = "count" /\ walk.offset <= MaxOffset
    /\ walk' = [walk EXCEPT !.pc = "page", !.total = Cardinality(rows),
                            !.counted = rows]
    /\ UNCHANGED <<rows, clock, lastId, writer, gone>>

(* Mutant: no id in the ORDER BY, so equal times come in any order. *)
PageTiesAnyOrder ==
    /\ walk.pc = "page"
    /\ \E s \in {Listed(rows),
                 SetToSortSeq(rows, LAMBDA a, b : a.at > b.at \/ (a.at = b.at /\ a.id < b.id))} :
          walk' = [walk EXCEPT !.pc = "related", !.related = {},
                               !.page = Window(s, walk.offset)]
    /\ UNCHANGED <<rows, clock, lastId, writer, gone>>

Page ==
    /\ walk.pc = "page"
    /\ walk' = [walk EXCEPT !.pc = "related", !.related = {},
                            !.page = Window(Listed(rows), walk.offset)]
    /\ UNCHANGED <<rows, clock, lastId, writer, gone>>

(* selectinload: the thumbnails of the page's photos, the photos of the    *)
(* page's flags. One that left since is answered with null in its place.   *)
Related ==
    /\ walk.pc = "related"
    /\ walk' = [walk EXCEPT !.pc = "answered",
                            !.related = ToSet(walk.page) \cap rows]
    /\ UNCHANGED <<rows, clock, lastId, writer, gone>>

(* The client: a short page ends the walk, a full one leads to the next. *)
Turn ==
    /\ walk.pc = "answered"
    /\ walk' = [walk EXCEPT
                  !.seen = @ \o walk.page,
                  !.pc = IF Len(walk.page) < Limit THEN "end" ELSE "count",
                  !.offset = @ + Limit]
    /\ UNCHANGED <<rows, clock, lastId, writer, gone>>

Done == walk.pc \in {"end", "refused"} /\ UNCHANGED vars

Next ==
    \/ \E w \in Writer : Begin(w) \/ Flush(w) \/ Commit(w)
    \/ \E x \in rows : Leave(x)
    \/ Refuse \/ Count \/ Page \/ Related \/ Turn
    \/ Done

Spec == Init /\ [][Next]_vars

---------------------------------------------------------------------------
Inserted == {x \in rows \cup gone : x \notin walk.start}
Times(x) == Cardinality({i \in DOMAIN walk.seen : walk.seen[i] = x})

TypeOK ==
    /\ \A x \in rows \cup gone : x \in [id : 1..lastId, at : 0..clock]
    /\ \A w \in Writer : writer[w].pc \in {"begin", "flush", "commit", "done"}
    /\ walk.pc \in {"count", "page", "related", "answered", "end", "refused"}
    /\ walk.related \subseteq ToSet(walk.page)
    /\ ToSet(walk.page) \cup ToSet(walk.seen) \subseteq rows \cup gone

(* A full walk misses at most as many of the rows that were there all      *)
(* along as rows left the listing meanwhile; inserts, wherever they land   *)
(* in the order, never make it miss one. (A moderator deciding on flags    *)
(* while paging through the queue skips one flag per decision.) And it     *)
(* sees a row twice only because others were inserted before it.           *)
WalkAccountsForRows ==
    /\ walk.pc = "end" =>
          Cardinality({x \in walk.start \cap rows : Times(x) = 0})
              <= Cardinality(gone)
    /\ \A x \in ToSet(walk.seen) : Times(x) - 1 <= Cardinality(Inserted)

(* The total and the page are two SELECTs. They disagree by no more than   *)
(* the rows that came or went since the count: without any, the total      *)
(* reaches to the end of the page, and a short page to the total.          *)
TotalFitsPage ==
    walk.pc = "answered" =>
        /\ walk.page # <<>> =>
              walk.offset + Len(walk.page)
                  <= walk.total + Cardinality((rows \cup gone) \ walk.counted)
        /\ Len(walk.page) < Limit =>
              walk.total - Cardinality(walk.counted \cap gone)
                  <= walk.offset + Len(walk.page)
=============================================================================
