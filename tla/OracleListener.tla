---------------------------- MODULE OracleListener ----------------------------
(***************************************************************************)
(* The listener that copies oracle updates from the chain into the table   *)
(* oracle_price_feed (services/oracle-event-listener.ts): polls that may   *)
(* overlap, on one or more instances, a checkpoint in listener_state, and  *)
(* an RPC node that answers with a page of events.                         *)
(***************************************************************************)
EXTENDS Integers, FiniteSets

CONSTANTS
  Events,        \* oracle events the contract may emit
  Unreadable,    \* those parseOracleEvent has no row for
  Polls,         \* polls that may overlap
  PAGE,          \* limit of getEvents: 200
  WINDOW,        \* MAX_LEDGER_WINDOW: 200
  LOOKBACK,      \* INITIAL_LOOKBACK_LEDGERS: 720
  MAX_LEDGER,    \* bound of the model: ledgers
  MAX_ERRORS     \* bound of the model: errors and crashes

ASSUME OracleListenerAssumption ==
  /\ Unreadable \subseteq Events /\ IsFiniteSet(Events)
  /\ PAGE \in Nat \ {0} /\ WINDOW \in Nat \ {0} /\ LOOKBACK \in Nat
  /\ MAX_LEDGER \in Nat \ {0} /\ MAX_ERRORS \in Nat

VARIABLES
  ledger,            \* latest ledger of the network
  ledgerOf,          \* ledger of each event, 0 while it has not happened
  listener_state,    \* last_ledger_sequence, -1 while there is no row
  oracle_price_feed, \* events with a row
  poll,              \* what each poll is doing
  origin,            \* history: where the last poll without a checkpoint began
  insertFailed,      \* history: events whose insert failed in a poll that went on
  cutOff,            \* history: events in the window of a poll but not on its page
  errors             \* bound of the model

listenerVars == <<ledger, ledgerOf, listener_state, oracle_price_feed, poll, origin,
                  insertFailed, cutOff, errors>>

-----------------------------------------------------------------------------

NoPoll == [at |-> "idle", head |-> 0, from |-> 0, to |-> 0, page |-> {}]

Poll == [at : {"idle", "state", "fetch", "insert"}, head : Nat, from : Nat, to : Nat,
         page : SUBSET Events]

Smaller(m, n) == IF m <= n THEN m ELSE n
Larger(m, n) == IF m >= n THEN m ELSE n

Happened(e) == ledgerOf[e] > 0

Window(from, to) == {e \in Events : ledgerOf[e] \in (from + 1)..to}

(* The answers of getEvents from a ledger on: oldest first, PAGE at most. *)
Pages(from) ==
  LET all == {e \in Events : ledgerOf[e] > from}
  IN {page \in SUBSET all :
        /\ Cardinality(page) = Smaller(PAGE, Cardinality(all))
        /\ \A e \in page, f \in all \ page : ledgerOf[e] <= ledgerOf[f]}

Error == errors < MAX_ERRORS /\ errors' = errors + 1

-----------------------------------------------------------------------------
(* pollOracleEvents, every 12 s whether or not the last one has ended *)

(* getLatestLedger *)
StartPoll(p) ==
  /\ poll[p] = NoPoll
  /\ poll' = [poll EXCEPT ![p].at = "state", ![p].head = ledger]
  /\ UNCHANGED <<ledger, ledgerOf, listener_state, oracle_price_feed, origin,
                 insertFailed, cutOff, errors>>

FromLedger(head) ==
  IF listener_state = -1 THEN Larger(1, head - LOOKBACK) ELSE listener_state

(* getListenerState, and the window; nothing new ends the poll. *)
ReadState(p) ==
  LET from == FromLedger(poll[p].head)
  IN /\ poll[p].at = "state"
     /\ poll' = [poll EXCEPT ![p] =
          IF from >= poll[p].head THEN NoPoll
          ELSE [@ EXCEPT !.at = "fetch", !.from = from,
                         !.to = Smaller(poll[p].head, from + WINDOW)]]
     /\ origin' = IF listener_state = -1 THEN Larger(origin, from) ELSE origin
     /\ UNCHANGED <<ledger, ledgerOf, listener_state, oracle_price_feed, insertFailed,
                    cutOff, errors>>

(* getEvents; what is past the window or cannot be read is left out. *)
FetchEvents(p) ==
  /\ poll[p].at = "fetch"
  /\ \E page \in Pages(poll[p].from) :
       /\ poll' = [poll EXCEPT ![p].at = "insert",
            ![p].page = (page \cap Window(poll[p].from, poll[p].to)) \ Unreadable]
       /\ cutOff' = cutOff \cup (Window(poll[p].from, poll[p].to) \ page)
  /\ UNCHANGED <<ledger, ledgerOf, listener_state, oracle_price_feed, origin,
                 insertFailed, errors>>

(* Events are taken in the order of the page. *)
NextEvent(p, e) ==
  /\ poll[p].at = "insert" /\ e \in poll[p].page
  /\ \A f \in poll[p].page : ledgerOf[e] <= ledgerOf[f]

(* insertOracleFeedRow: ON CONFLICT DO NOTHING *)
InsertEvent(p, e) ==
  /\ NextEvent(p, e)
  /\ oracle_price_feed' = oracle_price_feed \cup {e}
  /\ poll' = [poll EXCEPT ![p].page = @ \ {e}]
  /\ UNCHANGED <<ledger, ledgerOf, listener_state, origin, insertFailed, cutOff, errors>>

(* The insert fails: logged, and the poll goes on. *)
InsertFails(p, e) ==
  /\ NextEvent(p, e)
  /\ Error
  /\ insertFailed' = insertFailed \cup {e}
  /\ poll' = [poll EXCEPT ![p].page = @ \ {e}]
  /\ UNCHANGED <<ledger, ledgerOf, listener_state, oracle_price_feed, origin, cutOff>>

(* Mutants of AllTaken, which moves the checkpoint before the rows are in, *)
(* and of MovedTo, which leaves it where it is.                             *)
TakenAnyway(p) == poll[p].at = "insert"
StaysAt(p) == poll[p].from

AllTaken(p) == poll[p].at = "insert" /\ poll[p].page = {}

MovedTo(p) == poll[p].to

(* setListenerState *)
MoveCheckpoint(p) ==
  /\ AllTaken(p)
  /\ listener_state' = MovedTo(p)
  /\ poll' = [poll EXCEPT ![p] = NoPoll]
  /\ UNCHANGED <<ledger, ledgerOf, oracle_price_feed, origin, insertFailed, cutOff, errors>>

(* The RPC node or the database fails outside an insert, or the process dies. *)
PollBreaks(p) ==
  /\ poll[p] # NoPoll
  /\ Error
  /\ poll' = [poll EXCEPT ![p] = NoPoll]
  /\ UNCHANGED <<ledger, ledgerOf, listener_state, oracle_price_feed, origin,
                 insertFailed, cutOff>>

-----------------------------------------------------------------------------

(* A ledger closes, with some oracle updates in it. *)
LedgerCloses ==
  /\ ledger < MAX_LEDGER
  /\ ledger' = ledger + 1
  /\ \E new \in SUBSET {e \in Events : ~Happened(e)} :
       ledgerOf' = [e \in Events |-> IF e \in new THEN ledger + 1 ELSE ledgerOf[e]]
  /\ UNCHANGED <<listener_state, oracle_price_feed, poll, origin, insertFailed, cutOff,
                 errors>>

ListenerInit ==
  /\ ledger = 1 /\ ledgerOf = [e \in Events |-> 0]
  /\ listener_state = -1 /\ oracle_price_feed = {}
  /\ poll = [p \in Polls |-> NoPoll]
  /\ origin = -1 /\ insertFailed = {} /\ cutOff = {} /\ errors = 0

PollWorks(p) ==
  \/ StartPoll(p) \/ ReadState(p) \/ FetchEvents(p) \/ MoveCheckpoint(p)
  \/ \E e \in Events : InsertEvent(p, e)

ListenerNext ==
  \/ LedgerCloses
  \/ \E p \in Polls : PollWorks(p) \/ PollBreaks(p) \/ \E e \in Events : InsertFails(p, e)

(* One of the instances lives: it keeps polling. *)
ListenerSpec ==
  /\ ListenerInit /\ [][ListenerNext]_listenerVars
  /\ WF_listenerVars(\E p \in Polls : PollWorks(p))

-----------------------------------------------------------------------------

PollInBounds(p) ==
  /\ poll[p].head <= ledger
  /\ poll[p].at \in {"fetch", "insert"} => poll[p].from < poll[p].to
  /\ poll[p].page \subseteq Window(poll[p].from, poll[p].to) \ Unreadable

ListenerTypeOK ==
  /\ ledger \in 1..MAX_LEDGER /\ ledgerOf \in [Events -> 0..ledger]
  /\ listener_state \in -1..ledger /\ origin \in -1..ledger
  /\ poll \in [Polls -> Poll]
  /\ \A p \in Polls : PollInBounds(p)
  /\ oracle_price_feed \cup insertFailed \cup cutOff \subseteq {e \in Events : Happened(e)}

(* No update below the checkpoint is missing from the feed, but one whose own *)
(* insert failed, one the page had no room for, or one that cannot be read:   *)
(* a crash, a failed read or an overlapping poll never makes a gap.           *)
FeedHasNoGap ==
  listener_state # -1 =>
    Window(origin, listener_state) \subseteq
      oracle_price_feed \cup insertFailed \cup cutOff \cup Unreadable

(* Every update after the start of the listener gets to the feed, or is given *)
(* up for one of those reasons.                                               *)
UpdatesArrive ==
  \A e \in Events :
    Happened(e) ~> \/ e \in oracle_price_feed \cup insertFailed \cup cutOff \cup Unreadable
                   \/ origin # -1 /\ ledgerOf[e] <= origin

=============================================================================
