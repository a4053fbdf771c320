----------------------------- MODULE UserListing -----------------------------
(***************************************************************************)
(* GET /users, read page by page by a client while users come and go.  The *)
(* module follows one walk: by cursor, from one _id to the next, or by the *)
(* number of the page.  Users are their _ids, numbers that order them as   *)
(* MongoDB does; new users may come anywhere, since several processes make *)
(* _ids.  Only who matches the filter of the walk is kept: a user enters   *)
(* by being created or changed, and leaves likewise.                       *)
(*                                                                         *)
(* A query is one step, as its results fit the first batch.                *)
(***************************************************************************)
EXTENDS Integers, FiniteSets

CONSTANTS
    Users,
    Rank,                    \* what a walk with ?sort orders users by
    DefaultLimit, MaxLimit,  \* 10 and 100
    Asked,                   \* values of ?limit; 0 stands for none or no number
    NoCursor, NotYet

ASSUME ListingAssumption ==
    /\ Users \subseteq Nat \ {0} /\ IsFiniteSet(Users)
    /\ Rank \in [Users -> Nat]
    /\ DefaultLimit \in Nat \ {0} /\ MaxLimit \in Nat \ {0} /\ Asked \subseteq Int
    /\ NoCursor \notin Nat /\ NotYet \notin Nat

VARIABLES
    matching,     \* who matches the filter
    query,        \* what the client asks in every request of the walk
    state, position,  \* the request under way, and its cursor (0 at first) or page
    found, count, \* what its two queries have answered
    more,         \* hasNextPage of the last answer
    shown,        \* who has been shown
    twice,        \* ghost: who has been shown on two pages
    stayed,       \* ghost: who has matched since the first request
    quiet         \* ghost: nobody has come or gone since then

lvars == <<matching, query, state, position, found, count, more, shown, twice, stayed, quiet>>

\* sorted: with ?sort; named: the selection of fields keeps _id.
Query == [type : {"cursor", "offset"}, limit : Asked, sorted : BOOLEAN, named : BOOLEAN]

ListTypeOK ==
    /\ matching \subseteq Users /\ query \in Query
    /\ state \in {"new", "idle", "asked"} /\ position \in Nat \cup {NoCursor}
    /\ found \in (SUBSET Users) \cup {NotYet} /\ count \in Nat \cup {NotYet}
    /\ more \in BOOLEAN
    /\ shown \subseteq Users /\ twice \subseteq Users /\ stayed \subseteq Users
    /\ quiet \in BOOLEAN

ListInit ==
    /\ matching \in SUBSET Users /\ query \in Query
    /\ state = "new" /\ position = (IF query.type = "cursor" THEN 0 ELSE 1)
    /\ found = NotYet /\ count = NotYet
    /\ more = TRUE /\ shown = {} /\ twice = {} /\ stayed = {} /\ quiet = TRUE

-----------------------------------------------------------------------------
(* The collection and the client.                                          *)

Enter(u) ==
    /\ u \notin matching
    /\ matching' = matching \cup {u} /\ quiet' = (state = "new")
    /\ UNCHANGED <<query, state, position, found, count, more, shown, twice, stayed>>

Leave(u) ==
    /\ u \in matching
    /\ matching' = matching \ {u} /\ stayed' = stayed \ {u} /\ quiet' = (state = "new")
    /\ UNCHANGED <<query, state, position, found, count, more, shown, twice>>

\* The client asks for the first page, for the next one, or again.
Ask ==
    /\ state # "asked" /\ more /\ position # NoCursor
    /\ state' = "asked"
    /\ stayed' = IF state = "new" THEN matching ELSE stayed
    /\ UNCHANGED <<matching, query, position, found, count, more, shown, twice, quiet>>

-----------------------------------------------------------------------------
(* getUsers                                                                *)

\* Math.min(parseInt(limit) || 10, 100)
Limit ==
    LET n == IF query.limit = 0 THEN DefaultLimit ELSE query.limit
    IN IF n > MaxLimit THEN MaxLimit ELSE n

\* MongoDB takes a limit of 0 for none, and a negative one for its absolute value.
Batch(S, n) == IF n = 0 THEN Cardinality(S) ELSE IF n < 0 THEN -n ELSE n

\* The k members of S, or all, that come first by key; equal keys come in any order.
First(S, k, key) ==
    {F \in SUBSET S :
        /\ Cardinality(F) = IF k < Cardinality(S) THEN k ELSE Cardinality(S)
        /\ \A u \in F, v \in S \ F : key[u] <= key[v]}

ById == [u \in Users |-> u]

Highest(S) == {u \in S : \A v \in S : v <= u}

Answer(page, hasNext, next) ==
    /\ state' = "idle" /\ more' = hasNext /\ position' = next
    /\ found' = NotYet /\ count' = NotYet
    /\ shown' = shown \cup page /\ twice' = twice \cup (shown \cap page)
    /\ UNCHANGED <<matching, query, stayed, quiet>>

\* Any await or statement of the handler throws: the client learns nothing of the page.
Reject ==
    /\ state = "asked"
    /\ state' = "idle" /\ found' = NotYet /\ count' = NotYet
    /\ UNCHANGED <<matching, query, position, more, shown, twice, stayed, quiet>>

\* Mutant: the cursor is taken before the extra record is discarded.
NextCursorOfFetched(fetched, page) == IF query.named THEN Highest(fetched) ELSE {NoCursor}

\* users[users.length - 1]._id, which is undefined if the selection leaves it out.
NextCursor(fetched, page) == IF query.named THEN Highest(page) ELSE {NoCursor}

\* By cursor: limit + 1 users are fetched; the extra one only tells that there is more.
\* Nothing may be left when it is taken off, if the limit is negative: that throws.
FindAfter ==
    /\ state = "asked" /\ query.type = "cursor"
    /\ LET after == {u \in matching : u > position} IN
       \E fetched \in First(after, Batch(after, Limit + 1), ById) :
           IF Cardinality(fetched) > Limit
           THEN LET page == fetched \ Highest(fetched)
                IN page # {} /\ \E next \in NextCursor(fetched, page) : Answer(page, TRUE, next)
           ELSE Answer(fetched, FALSE, NoCursor)

\* By page: the query of the page and the count are under way together.  MongoDB
\* refuses a negative skip.
FindPage ==
    /\ state = "asked" /\ query.type = "offset" /\ found = NotYet
    /\ LET skip == (position - 1) * Limit
           key == IF query.sorted THEN Rank ELSE ById
       IN /\ skip >= 0
          /\ \E skipped \in First(matching, skip, key) :
             \E upTo \in First(matching, skip + Batch(matching, Limit), key) :
                 skipped \subseteq upTo /\ found' = upTo \ skipped
    /\ UNCHANGED <<matching, query, state, position, count, more, shown, twice, stayed, quiet>>

CountAll ==
    /\ state = "asked" /\ query.type = "offset" /\ count = NotYet
    /\ count' = Cardinality(matching)
    /\ UNCHANGED <<matching, query, state, position, found, more, shown, twice, stayed, quiet>>

\* Mutant: the quotient is rounded down.
FullPages == IF Limit > 0 THEN count \div Limit ELSE 0

\* Math.ceil(totalCount / parsedLimit), which is not positive for a negative limit.
TotalPages == IF Limit > 0 THEN (count + Limit - 1) \div Limit ELSE 0

AnswerPage ==
    /\ found # NotYet /\ count # NotYet
    /\ Answer(found, position < TotalPages, position + 1)

-----------------------------------------------------------------------------

ListNext ==
    \/ \E u \in Users : Enter(u) \/ Leave(u)
    \/ Ask \/ Reject \/ FindAfter \/ FindPage \/ CountAll \/ AnswerPage

ListSpec == ListInit /\ [][ListNext]_lvars

-----------------------------------------------------------------------------
(* Properties.                                                             *)

\* "Stable. [...] No duplicated items on list shifts": whoever comes and goes, a walk
\* by cursor shows nobody twice, and one that has ended has shown everybody who was
\* there all along.
CursorWalksAreStable ==
    query.type = "cursor" => twice = {} /\ (~more => stayed \subseteq shown)

\* A walk by pages promises that only while nobody comes or goes, for the order of
\* _ids, in which no two users are equal, and a limit that is not negative.
PagesFitTogether ==
    query.type = "offset" /\ quiet /\ ~query.sorted /\ query.limit >= 0
    => twice = {} /\ (~more => shown = matching)
=============================================================================
