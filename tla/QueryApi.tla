------------------------------- MODULE QueryApi -------------------------------
(***************************************************************************)
(* GET /cto of services/gateway/api_phase2a.py: a client of the gateway    *)
(* lists the current rows page by page, while the operational store        *)
(* (Opstore) writes and retires rows.  Each page is one SELECT, so one     *)
(* snapshot; between two pages the client has nothing but the cursor, the  *)
(* event time and the uid of the last row it got.                          *)
(***************************************************************************)
EXTENDS Opstore

CONSTANTS
    EventTime,  \* the event_time of each CTO
    UidRank,    \* the order of their uids
    Limit,      \* the rows of a page
    Dated       \* the streams whose messages have a valid_to: those of CoT

ASSUME QueryAssumption ==
    /\ EventTime \in [Msg -> Nat]
    /\ UidRank \in [Msg -> Nat]
    /\ \A m, n \in Msg : UidRank[m] = UidRank[n] => m = n
    /\ Limit \in Nat \ {0}
    /\ Dated \subseteq Key \ FileKey

VARIABLES
    listed,     \* the rows of the pages so far, in their order
    more,       \* next_cursor was not null; TRUE before the first page
    first       \* the rows that were current at the first page

reader == <<listed, more, first>>

QInit == Init /\ listed = <<>> /\ more = TRUE /\ first = {}

\* valid_to IS NULL: not retired, and without an end of its own.
Listable == {m \in Current : KeyOfMsg(m) \notin Dated}

\* ORDER BY event_time DESC, uid DESC
Later(m, n) ==
    \/ EventTime[m] > EventTime[n]
    \/ EventTime[m] = EventTime[n] /\ UidRank[m] > UidRank[n]

Descending(rows) == \A i, j \in DOMAIN rows : i < j => Later(rows[i], rows[j])

\* Mutants of Behind: rows of the cursor's own time, or the cursor's own row.
Behind_TimeOnly(m, cursor) == EventTime[m] < EventTime[cursor]
Behind_Inclusive(m, cursor) == Later(cursor, m) \/ m = cursor
Behind(m, cursor) == Later(cursor, m)

\* LIMIT, but for the row that tells whether there are more.
Items(rows) == SubSeq(rows, 1, Min({Limit, Len(rows)}))

Page ==
    /\ more
    /\ LET matching == {m \in Listable : listed # <<>> => Behind(m, Last(listed))}
       IN  \E rows \in SetToSeqs(matching) :
               /\ Descending(rows)
               /\ listed' = listed \o Items(rows)
               /\ more' = (Len(rows) > Limit)
    /\ first' = IF listed = <<>> THEN Listable ELSE first
    /\ UNCHANGED vars

QNext == Page \/ (Next /\ UNCHANGED reader)
QSpec == QInit /\ [][QNext]_<<vars, reader>> /\ Fairness

-----------------------------------------------------------------------------
(* No row is listed twice and the order is kept over the pages, whatever is *)
(* inserted and retired between them and with rows of one event time.       *)
PagesDescend == Descending(listed)

(* A row that is current from the first page to the last is listed: no row  *)
(* slips through because another one was written or retired meanwhile.      *)
PagesComplete ==
    ~more => \A m \in first \cap Listable : m \in ToSet(listed)

=============================================================================
