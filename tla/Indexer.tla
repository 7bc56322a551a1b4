-------------------------------- MODULE Indexer --------------------------------
(***************************************************************************)
(* src/frontend/lib/indexer: a tick reads the cursor, fetches a page of    *)
(* contract events from the RPC node, saves each event and its key in the  *)
(* product's list, then moves the cursor behind the page.  A tick is a job *)
(* queued every minute, so drains of the queue may run two at a time, and  *)
(* it may die anywhere; the node closes ledgers meanwhile.  The RPC node   *)
(* is external: chain is what it serves.                                   *)
(* An event is kept under its ledger, its transaction and its index, and   *)
(* what the node serves has no index: its position in the page stands in.  *)
(***************************************************************************)
EXTENDS Naturals, Sequences, FiniteSets

CONSTANTS
  Ticker,        \* ticks that can run at the same time
  PageLimit,     \* events of a page (200)
  MaxEvents, MaxDeaths,  \* bounds
  MaxCrowd               \* bound of events once ticks have overlapped

ASSUME IndexerAssumption == PageLimit \in Nat

VARIABLES
  chain,      \* ledger of each event, in the order the node serves them
  source,     \* transaction of each event, named by its first event
  ledgerSeq,  \* ledgers closed
  cursor,     \* index:cursor
  saved,      \* index:event:*: each event saved, with the position in its key
  listed,     \* index:product:*: keys, as a list rewritten whole
  tick,       \* what each tick is doing
  deaths,
  cutLedgers, \* history: ledgers whose events did not all fit in a page
  overlapped  \* history: a tick began while another was running

indexVars == <<chain, source, ledgerSeq, cursor, saved, listed, tick, deaths, cutLedgers, overlapped>>

IdleTick == [at |-> "idle", page |-> <<>>, next |-> 1, keys |-> {}, from |-> 0]

\* A ledger is closed as a whole, with the events of one transaction or of several.
CloseLedger(n, together) ==
  /\ Len(chain) + n <= (IF overlapped THEN MaxCrowd ELSE MaxEvents)
  /\ ledgerSeq' = ledgerSeq + 1
  /\ chain' = chain \o [i \in 1..n |-> ledgerSeq + 1]
  /\ source' = source \o [i \in 1..n |-> Len(chain) + (IF together THEN 1 ELSE i)]
  /\ UNCHANGED <<cursor, saved, listed, tick, deaths, cutLedgers, overlapped>>

\* getCursor
ReadCursor(t) ==
  /\ tick[t].at = "idle"
  /\ overlapped' = (overlapped \/ \E u \in Ticker : tick[u].at # "idle")
  /\ overlapped' => Len(chain) <= MaxCrowd
  /\ tick' = [tick EXCEPT ![t] = [IdleTick EXCEPT !.at = "fetch", !.from = cursor]]
  /\ UNCHANGED <<chain, source, ledgerSeq, cursor, saved, listed, deaths, cutLedgers>>

\* The node serves ledgers in order: a page from ledger l on begins behind the
\* events of the ledgers before it.
BehindAndIn(l) == Cardinality({i \in DOMAIN chain : chain[i] <= l})   \* faulty variant
Behind(l) == Cardinality({i \in DOMAIN chain : chain[i] < l})
PageOf(l) ==
  LET left == Len(chain) - Behind(l) IN
  [i \in 1..(IF left < PageLimit THEN left ELSE PageLimit) |-> Behind(l) + i]

\* fetchContractEvents: an unreachable node gives the empty page too, and an
\* empty page ends the tick.
Fetch(t) ==
  /\ tick[t].at = "fetch"
  /\ \E page \in {<<>>, PageOf(tick[t].from)} :
       /\ tick' = [tick EXCEPT ![t] = IF page = <<>> THEN IdleTick
                                      ELSE [tick[t] EXCEPT !.at = "look", !.page = page]]
       /\ cutLedgers' = cutLedgers \cup
            {chain[i] : i \in {j \in DOMAIN chain : /\ page # <<>>
                                                     /\ chain[j] = chain[page[Len(page)]]
                                                     /\ j > page[Len(page)]}}
  /\ UNCHANGED <<chain, source, ledgerSeq, cursor, saved, listed, deaths, overlapped>>

\* eventKey: of the event in hand, and of one that is saved.
Entry(t) == <<tick[t].page[tick[t].next], tick[t].next>>
EventKey(e) == <<source[e[1]], e[2]>>
Under(k) == {e \in saved : EventKey(e) = k}

Advance(t) ==
  tick' = [tick EXCEPT ![t] =
    [tick[t] EXCEPT !.at = IF tick[t].next = Len(tick[t].page) THEN "cursor" ELSE "look",
                    !.next = tick[t].next + 1]]

\* indexEvent: where the key is taken, by this event or another of its transaction,
\* the event is skipped, listed or not.
LookForEvent(t) ==
  /\ tick[t].at = "look"
  /\ IF Under(EventKey(Entry(t))) # {} THEN Advance(t)
     ELSE tick' = [tick EXCEPT ![t].at = "save"]
  /\ UNCHANGED <<chain, source, ledgerSeq, cursor, saved, listed, deaths, cutLedgers, overlapped>>

SaveEvent(t) ==
  /\ tick[t].at = "save"
  /\ saved' = (saved \ Under(EventKey(Entry(t)))) \cup {Entry(t)}
  /\ tick' = [tick EXCEPT ![t].at = "readList"]
  /\ UNCHANGED <<chain, source, ledgerSeq, cursor, listed, deaths, cutLedgers, overlapped>>

ReadProductKeys(t) ==
  /\ tick[t].at = "readList"
  /\ tick' = [tick EXCEPT ![t].at = "writeList", ![t].keys = listed]
  /\ UNCHANGED <<chain, source, ledgerSeq, cursor, saved, listed, deaths, cutLedgers, overlapped>>

WriteProductKeys(t) ==
  /\ tick[t].at = "writeList"
  /\ listed' = tick[t].keys \cup {EventKey(Entry(t))}
  /\ Advance(t)
  /\ UNCHANGED <<chain, source, ledgerSeq, cursor, saved, deaths, cutLedgers, overlapped>>

LastLedger(t) == chain[tick[t].page[Len(tick[t].page)]]
CursorTooFar(t) == LastLedger(t) + 2                         \* faulty variant
CursorAtPage(t) == LastLedger(t)                             \* faulty variant
CursorBehind(t) == LastLedger(t) + 1
SetCursor(t) ==
  /\ tick[t].at = "cursor"
  /\ cursor' = CursorBehind(t)
  /\ tick' = [tick EXCEPT ![t] = IdleTick]
  /\ UNCHANGED <<chain, source, ledgerSeq, saved, listed, deaths, cutLedgers, overlapped>>

TickDies(t) ==
  /\ tick[t].at # "idle" /\ deaths < MaxDeaths
  /\ deaths' = deaths + 1
  /\ tick' = [tick EXCEPT ![t] = IdleTick]
  /\ UNCHANGED <<chain, source, ledgerSeq, cursor, saved, listed, cutLedgers, overlapped>>

IndexInit ==
  /\ chain = <<>> /\ source = <<>> /\ ledgerSeq = 0 /\ cursor = 0
  /\ saved = {} /\ listed = {}
  /\ tick = [t \in Ticker |-> IdleTick]
  /\ deaths = 0 /\ cutLedgers = {} /\ overlapped = FALSE

TickStep(t) ==
  \/ ReadCursor(t) \/ Fetch(t) \/ LookForEvent(t) \/ SaveEvent(t)
  \/ ReadProductKeys(t) \/ WriteProductKeys(t) \/ SetCursor(t)

IndexNext ==
  \/ \E n \in 1..2, together \in BOOLEAN : CloseLedger(n, together)
  \/ \E t \in Ticker : TickStep(t) \/ TickDies(t)

\* The cron job ticks again and again, a tick that lives runs on (weak fairness of
\* TickStep), and the node answers with events again and again (strong fairness of
\* FetchAnswered).
FetchAnswered(t) == Fetch(t) /\ tick'[t].at = "look"

-----------------------------------------------------------------------------
\* Two ticks at once may read a page from different cursors, and an event takes
\* a key there that belongs to another event of its transaction.
MayCollide(i) == overlapped /\ \E j \in DOMAIN chain : j # i /\ source[j] = source[i]
IsSaved(i) == \E e \in saved : e[1] = i

\* Every event of a ledger behind the cursor is saved, across ticks that
\* overlap and die, with two exceptions: a page ended inside its ledger, and
\* setCursor went one ledger too far (indexerWorker.ts:108-120); ticks
\* overlapped, and another event of its transaction had taken its key
\* (eventIndex.ts:32-34, 43-44; indexerWorker.ts:77).
NothingMissedBehindCursor ==
  \A i \in DOMAIN chain :
    chain[i] < cursor /\ chain[i] \notin cutLedgers /\ ~MayCollide(i) => IsSaved(i)

\* As long as ticks do not overlap, an event keeps its key across ticks that
\* die and run again, and is indexed once: its position in the page, which is
\* part of the key, comes back the same (indexerWorker.ts:6, 77;
\* eventIndex.ts:32-34).
IndexedOnceUnlessTicksOverlap ==
  ~overlapped => \A d, e \in saved : d[1] = e[1] => d = e

\* Whatever a ledger brings, the index catches up in the end, with the same two
\* exceptions, as long as ticks come and the node answers.
CaughtUp ==
  \A i \in DOMAIN chain : IsSaved(i) \/ chain[i] \in cutLedgers \/ MayCollide(i)
EventuallyIndexed == ~CaughtUp ~> CaughtUp
=============================================================================
