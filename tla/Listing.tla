------------------------------ MODULE Listing ------------------------------
(***************************************************************************)
(* ListResources page by page, while another process that seeds the        *)
(* catalogue creates resources.                                            *)
(***************************************************************************)
EXTENDS Integers, FiniteSets

CONSTANTS
    Code,          \* codes of resources, in their order
    MaxLimit,      \* 100
    DefaultLimit,  \* 25
    AskedLimit,    \* what clients write in the query
    AskedOffset    \* and where they begin: at the top, or before it

ASSUME ListingAssumption ==
    /\ Code \subseteq Nat
    /\ DefaultLimit \in Nat \ {0} /\ MaxLimit \in Nat
    /\ AskedLimit \subseteq Int
    /\ AskedOffset \subseteq Int /\ \A n \in AskedOffset : n <= 0

VARIABLES
    codes,  \* codes in table resources
    client  \* one client that goes through the list, and what it has seen

listingVars == <<codes, client>>

Client == [pc: {"idle", "next", "done"}, limit: Int, offset: Int,
           first: SUBSET Code, seen: SUBSET Code]

\* How many rows ORDER BY code puts before one.
Before(c) == Cardinality({d \in codes : d < c})

\* Mutant: the first row is number one.
PageFromOne(limit, offset) ==
    {c \in codes : Before(c) > offset /\ Before(c) <= offset + limit}

EffectiveLimit(limit) == IF limit <= 0 \/ limit > MaxLimit THEN DefaultLimit ELSE limit
EffectiveOffset(offset) == IF offset < 0 THEN 0 ELSE offset

\* ORDER BY code LIMIT ? OFFSET ?
Page(limit, offset) == {c \in codes : Before(c) >= offset /\ Before(c) < offset + limit}

CreateResource(c) == c \notin codes /\ codes' = codes \cup {c} /\ UNCHANGED client

BeginList(limit, offset) ==
    /\ client.pc = "idle"
    /\ client' = [client EXCEPT !.pc = "next", !.limit = limit, !.offset = offset,
                                !.first = codes]
    /\ UNCHANGED codes

\* The client goes on by the number of rows it got, until it gets none.  It does not use the
\* total of the answer: another statement counts it, and rows may be created between the two.
ListResources ==
    LET offset == EffectiveOffset(client.offset)
        page == Page(EffectiveLimit(client.limit), offset)
    IN  /\ client.pc = "next"
        /\ client' = [client EXCEPT !.pc = IF page = {} THEN "done" ELSE "next",
                                    !.offset = offset + Cardinality(page),
                                    !.seen = @ \cup page]
        /\ UNCHANGED codes

ListingInit ==
    /\ codes = {}
    /\ client = [pc |-> "idle", limit |-> 0, offset |-> 0, first |-> {}, seen |-> {}]

ListingNext ==
    \/ \E c \in Code : CreateResource(c)
    \/ \E limit \in AskedLimit, offset \in AskedOffset : BeginList(limit, offset)
    \/ ListResources

ListingSpec == ListingInit /\ [][ListingNext]_listingVars

-----------------------------------------------------------------------------
\* A client that goes on by the rows it got sees every resource that was there when it
\* began, whatever limit it asks for and whatever is created between its pages.
PagesCoverList == client.pc = "done" => client.first \subseteq client.seen
=============================================================================
