--------------------------- MODULE ServicesProofs ---------------------------
(***************************************************************************)
(* The services that go on by themselves: the feed of oracle events, the   *)
(* recurring deposits and the delivery of reports, for every value of the  *)
(* constants, and all of them beside the queue, as in module MCServices.   *)
(***************************************************************************)
EXTENDS MCServices, SequenceTheorems, PipelineProofs

GivenUp == insertFailed \cup cutOff \cup Unreadable

Covered(from, to) == Window(from, to) \subseteq oracle_price_feed \cup GivenUp

Known ==
  oracle_price_feed \cup insertFailed \cup cutOff \subseteq {e \in Events : Happened(e)}

(* What is known of a poll: where its window is, that what is below it is in  *)
(* the feed, and what of it has still to be inserted.                         *)
Holds(r) ==
  /\ r.head <= ledger /\ r.to <= r.head
  /\ r.at = "idle" => r = NoPoll
  /\ r.at = "state" => r.page = {}
  /\ r.at \in {"fetch", "insert"} => r.from < r.to /\ Covered(origin, r.from)
  /\ r.page \subseteq Window(r.from, r.to) \ Unreadable
  /\ r.at = "insert" =>
       Window(r.from, r.to) \subseteq r.page \cup oracle_price_feed \cup GivenUp

ListenerInv ==
  /\ ledger \in 1..MAX_LEDGER /\ ledgerOf \in [Events -> 0..ledger]
  /\ listener_state \in -1..ledger /\ origin \in -1..ledger
  /\ poll \in [Polls -> Poll] /\ \A p \in Polls : Holds(poll[p])
  /\ Known /\ FeedHasNoGap

LEMMA ListenerInitially == ListenerInit => ListenerInv
<1> SUFFICES ASSUME ListenerInit PROVE ListenerInv
  OBVIOUS
<1>1. /\ ledger \in 1..MAX_LEDGER /\ ledgerOf \in [Events -> 0..ledger]
      /\ listener_state \in -1..ledger /\ origin \in -1..ledger
      /\ poll \in [Polls -> Poll]
  BY OracleListenerAssumption DEF ListenerInit, NoPoll, Poll
<1>2. ASSUME NEW p \in Polls PROVE Holds(poll[p])
  BY DEF ListenerInit, Holds, NoPoll
<1>3. FeedHasNoGap /\ Known
  BY DEF ListenerInit, FeedHasNoGap, Known
<1> QED
  BY <1>1, <1>2, <1>3 DEF ListenerInv

LEMMA InvIsTyped == ASSUME ListenerInv PROVE ListenerTypeOK
BY DEF ListenerInv, ListenerTypeOK, PollInBounds, Holds, Known

-----------------------------------------------------------------------------

(* What the steps of the polls have in common: no ledger closes, the feed and   *)
(* what was given up grow, and the window of a poll that did not move keeps     *)
(* what is known of it.                                                         *)
Grows ==
  /\ UNCHANGED <<ledger, ledgerOf>>
  /\ oracle_price_feed \cup GivenUp \subseteq oracle_price_feed' \cup GivenUp'
  /\ origin' \in -1..ledger /\ origin' >= origin

LEMMA WindowStays ==
  ASSUME ledgerOf' = ledgerOf, NEW from, NEW to
  PROVE  Window(from, to)' = Window(from, to)
BY DEF Window

LEMMA CoveredStays ==
  ASSUME ListenerInv, Grows, NEW to \in Int, Covered(origin, to)
  PROVE  Covered(origin, to)'
<1>1. \A e \in Events : ledgerOf[e] \in Int
  BY DEF ListenerInv
<1>2. origin \in Int /\ origin' \in Int /\ origin' >= origin /\ ledgerOf' = ledgerOf
  BY DEF ListenerInv, Grows
<1>3. Window(origin', to) \subseteq Window(origin, to)
  BY <1>1, <1>2 DEF Window
<1>4. Window(origin, to)' = Window(origin', to)
  BY <1>2 DEF Window
<1> QED
  BY <1>3, <1>4 DEF Covered, Grows

LEMMA HoldsStays ==
  ASSUME ListenerInv, Grows, NEW r \in Poll, Holds(r)
  PROVE  Holds(r)'
<1>1. r.from \in Int
  BY DEF Poll
<1>2. r.at \in {"fetch", "insert"} => Covered(origin, r.from)'
  BY <1>1, CoveredStays DEF Holds
<1>3. Window(r.from, r.to)' = Window(r.from, r.to) /\ ledger' = ledger
  BY WindowStays DEF Grows
<1> QED
  BY <1>2, <1>3 DEF Holds, Grows

LEMMA PollMoves ==
  ASSUME ListenerInv, Grows, Known',
         NEW p \in Polls, NEW r \in Poll, poll' = [poll EXCEPT ![p] = r], Holds(r)',
         listener_state' \in -1..ledger, listener_state' = listener_state \/ FeedHasNoGap'
  PROVE  ListenerInv'
<1>1. /\ ledger' \in 1..MAX_LEDGER /\ ledgerOf' \in [Events -> 0..ledger']
      /\ listener_state' \in -1..ledger' /\ origin' \in -1..ledger'
      /\ poll' \in [Polls -> Poll]
  BY DEF ListenerInv, Grows
<1>2. ASSUME NEW q \in Polls PROVE Holds(poll[q])'
  <2>1. CASE q = p
    <3>1. poll'[q] = r
      BY <2>1 DEF ListenerInv
    <3> QED
      BY <3>1 DEF Holds, Covered, Window
  <2>2. CASE q # p
    <3>1. PICK s \in Poll : s = poll[q] /\ s = poll'[q] /\ Holds(s)
      BY <2>2 DEF ListenerInv
    <3>2. Holds(s)'
      BY <3>1, HoldsStays
    <3> QED
      BY <3>1, <3>2 DEF Holds, Covered, Window
  <2> QED
    BY <2>1, <2>2
<1>3. FeedHasNoGap'
  <2>1. CASE listener_state' = listener_state /\ listener_state # -1
    <3>1. PICK at \in Int : at = listener_state
      BY DEF ListenerInv
    <3>2. Covered(origin, at)
      BY <2>1, <3>1 DEF ListenerInv, FeedHasNoGap, Covered, GivenUp
    <3>3. Covered(origin, at)'
      BY <3>2, CoveredStays
    <3> QED
      BY <2>1, <3>1, <3>3 DEF FeedHasNoGap, Covered, GivenUp, Window
  <2>2. CASE listener_state' = -1
    BY <2>2 DEF FeedHasNoGap
  <2> QED
    BY <2>1, <2>2
<1> QED
  BY <1>1, <1>2, <1>3 DEF ListenerInv

(* A poll that ends, or does nothing to the tables. *)
LEMMA Quiet ==
  ASSUME ListenerInv,
         UNCHANGED <<ledger, ledgerOf, oracle_price_feed, origin, insertFailed, cutOff>>
  PROVE  Grows /\ Known'
BY DEF ListenerInv, Grows, Known, GivenUp, Happened

LEMMA PollEnds ==
  ASSUME ListenerInv, NEW p \in Polls, poll' = [poll EXCEPT ![p] = NoPoll], Grows, Known',
         listener_state' \in -1..ledger, listener_state' = listener_state \/ FeedHasNoGap'
  PROVE  ListenerInv'
<1>1. PICK r \in Poll : r = NoPoll
  BY DEF NoPoll, Poll
<1>2. Holds(r)'
  BY <1>1 DEF Holds, NoPoll, Grows, ListenerInv
<1>3. poll' = [poll EXCEPT ![p] = r]
  BY <1>1
<1> QED
  BY <1>2, <1>3, PollMoves

-----------------------------------------------------------------------------

(* The record of a poll after each of its steps. *)
LEMMA PollRecords ==
  ASSUME NEW s \in Poll, NEW head \in Nat, NEW from \in Nat, NEW to \in Nat,
         NEW page \in SUBSET Events
  PROVE  /\ [s EXCEPT !.at = "state", !.head = head]
              = [at |-> "state", head |-> head, from |-> s.from, to |-> s.to, page |-> s.page]
         /\ [s EXCEPT !.at = "fetch", !.from = from, !.to = to]
              = [at |-> "fetch", head |-> s.head, from |-> from, to |-> to, page |-> s.page]
         /\ [s EXCEPT !.at = "insert", !.page = page]
              = [at |-> "insert", head |-> s.head, from |-> s.from, to |-> s.to, page |-> page]
<1> DEFINE started == [s EXCEPT !.at = "state", !.head = head]
           read == [s EXCEPT !.at = "fetch", !.from = from, !.to = to]
           fetched == [s EXCEPT !.at = "insert", !.page = page]
<1>1. /\ started \in Poll /\ started.at = "state" /\ started.head = head
      /\ started.from = s.from /\ started.to = s.to /\ started.page = s.page
  BY DEF Poll
<1>2. /\ read \in Poll /\ read.at = "fetch" /\ read.from = from /\ read.to = to
      /\ read.head = s.head /\ read.page = s.page
  BY DEF Poll
<1>3. /\ fetched \in Poll /\ fetched.at = "insert" /\ fetched.page = page
      /\ fetched.head = s.head /\ fetched.from = s.from /\ fetched.to = s.to
  BY DEF Poll
<1> HIDE DEF started, read, fetched
<1>4. /\ started
           = [at |-> "state", head |-> head, from |-> s.from, to |-> s.to, page |-> s.page]
      /\ read
           = [at |-> "fetch", head |-> s.head, from |-> from, to |-> to, page |-> s.page]
      /\ fetched
           = [at |-> "insert", head |-> s.head, from |-> s.from, to |-> s.to, page |-> page]
  BY <1>1, <1>2, <1>3 DEF Poll
<1> QED
  BY <1>4 DEF started, read, fetched

LEMMA PollStartStep == ASSUME ListenerInv, NEW p \in Polls, StartPoll(p) PROVE ListenerInv'
<1>0. ledger \in Nat /\ poll[p] = NoPoll /\ NoPoll \in Poll
  BY OracleListenerAssumption DEF ListenerInv, StartPoll, NoPoll, Poll
<1>1. PICK r \in Poll :
        r = [at |-> "state", head |-> ledger, from |-> 0, to |-> 0, page |-> {}]
  BY <1>0 DEF Poll
<1>2. poll' = [poll EXCEPT ![p] = r]
  <2>1. [NoPoll EXCEPT !.at = "state", !.head = ledger] = r
    <3>1. [NoPoll EXCEPT !.at = "state", !.head = ledger]
            = [at |-> "state", head |-> ledger, from |-> NoPoll.from, to |-> NoPoll.to,
               page |-> NoPoll.page]
      BY <1>0, PollRecords
    <3> QED
      BY <1>1, <3>1 DEF NoPoll
  <2>2. poll' = [poll EXCEPT ![p] = [poll[p] EXCEPT !.at = "state", !.head = ledger]]
    BY DEF StartPoll
  <2> QED
    BY <1>0, <2>1, <2>2
<1>3. Grows /\ Known' /\ listener_state' = listener_state /\ listener_state' \in -1..ledger
  BY Quiet DEF StartPoll, ListenerInv
<1>4. Holds(r)'
  BY <1>1, <1>3 DEF Holds, Grows, ListenerInv
<1> QED
  BY <1>2, <1>3, <1>4, PollMoves

LEMMA ReadStep == ASSUME ListenerInv, NEW p \in Polls, ReadState(p) PROVE ListenerInv'
<1>1. /\ poll[p] \in Poll /\ Holds(poll[p]) /\ poll[p].at = "state" /\ poll[p].page = {}
      /\ poll[p].head \in Nat /\ poll[p].head <= ledger /\ ledger \in Nat
      /\ listener_state \in -1..ledger /\ origin \in -1..ledger
  BY DEF ListenerInv, ReadState, Poll, Holds
<1>2. PICK from \in Nat : from = FromLedger(poll[p].head) /\ from <= ledger
  BY <1>1, OracleListenerAssumption DEF FromLedger, Larger, ListenerInv
<1>3. /\ UNCHANGED <<ledger, ledgerOf, listener_state, oracle_price_feed, insertFailed,
                     cutOff>>
      /\ origin' = IF listener_state = -1 THEN Larger(origin, from) ELSE origin
  BY <1>2 DEF ReadState
<1>4. /\ origin' \in -1..ledger /\ origin' >= origin
      /\ listener_state = -1 => from <= origin'
  BY <1>1, <1>2, <1>3 DEF Larger
<1>5. Grows /\ Known'
  BY <1>3, <1>4 DEF ListenerInv, Grows, Known, GivenUp, Happened
<1>6. Covered(origin, from)'
  <2>1. CASE listener_state = -1
    BY <1>1, <1>2, <1>3, <1>4, <2>1 DEF Covered, Window, ListenerInv
  <2>2. CASE listener_state # -1
    <3>1. Covered(origin, from)
      BY <1>2, <2>2 DEF FromLedger, ListenerInv, FeedHasNoGap, Covered, GivenUp
    <3> QED
      BY <1>5, <3>1, CoveredStays
  <2> QED
    BY <2>1, <2>2
<1>7. CASE from >= poll[p].head
  <2>1. poll' = [poll EXCEPT ![p] = NoPoll]
    BY <1>2, <1>7 DEF ReadState
  <2> QED
    BY <1>1, <1>3, <1>5, <2>1, PollEnds
<1>8. CASE ~(from >= poll[p].head)
  <2>1. PICK to \in Nat : /\ to = Smaller(poll[p].head, from + WINDOW)
                          /\ to <= poll[p].head /\ from < to
    BY <1>1, <1>8, OracleListenerAssumption DEF Smaller
  <2>2. PICK r \in Poll :
          r = [at |-> "fetch", head |-> poll[p].head, from |-> from, to |-> to, page |-> {}]
    BY <1>1 DEF Poll
  <2>3. poll' = [poll EXCEPT ![p] = r]
    <3>1. [poll[p] EXCEPT !.at = "fetch", !.from = from, !.to = to] = r
      <4>1. [poll[p] EXCEPT !.at = "fetch", !.from = from, !.to = to]
              = [at |-> "fetch", head |-> poll[p].head, from |-> from, to |-> to,
                 page |-> poll[p].page]
        BY ZenonT(40), <1>1, PollRecords
      <4> QED
        BY <1>1, <2>2, <4>1
    <3>2. poll' = [poll EXCEPT ![p] = [poll[p] EXCEPT !.at = "fetch", !.from = from,
                                                      !.to = to]]
      BY <1>2, <1>8, <2>1 DEF ReadState
    <3> QED
      BY <3>1, <3>2
  <2>4. Holds(r)'
    BY <1>1, <1>3, <1>6, <2>1, <2>2 DEF Holds
  <2> QED
    BY <1>1, <1>3, <1>5, <2>3, <2>4, PollMoves
<1> QED
  BY <1>7, <1>8

LEMMA FetchStep == ASSUME ListenerInv, NEW p \in Polls, FetchEvents(p) PROVE ListenerInv'
<1>1. /\ poll[p] \in Poll /\ Holds(poll[p]) /\ poll[p].at = "fetch"
      /\ poll[p].from \in Nat /\ poll[p].to \in Nat /\ poll[p].head \in Nat
      /\ listener_state \in -1..ledger
  BY DEF ListenerInv, FetchEvents, Poll
<1>2. PICK seen : seen = Window(poll[p].from, poll[p].to)
  OBVIOUS
<1>3. PICK page \in Pages(poll[p].from) :
        /\ poll' = [poll EXCEPT ![p].at = "insert", ![p].page = (page \cap seen) \ Unreadable]
        /\ cutOff' = cutOff \cup (seen \ page)
  BY <1>2 DEF FetchEvents
<1>4. UNCHANGED <<ledger, ledgerOf, listener_state, oracle_price_feed, origin, insertFailed>>
  BY DEF FetchEvents
<1>5. seen \subseteq {e \in Events : Happened(e)} /\ seen \subseteq Events
  BY <1>1, <1>2 DEF Window, Happened, ListenerInv
<1>6. Grows /\ Known'
  BY <1>3, <1>4, <1>5 DEF ListenerInv, Grows, Known, GivenUp, Happened
<1>7. PICK r \in Poll :
        r = [at |-> "insert", head |-> poll[p].head, from |-> poll[p].from,
             to |-> poll[p].to, page |-> (page \cap seen) \ Unreadable]
  BY <1>1, <1>5 DEF Poll
<1>8. poll' = [poll EXCEPT ![p] = r]
  <2>1. [poll[p] EXCEPT !.at = "insert", !.page = (page \cap seen) \ Unreadable] = r
    <3>1. (page \cap seen) \ Unreadable \in SUBSET Events
      BY <1>5
    <3> QED
      BY <1>1, <1>7, <3>1, PollRecords
  <2>2. poll' = [poll EXCEPT ![p] = [poll[p] EXCEPT !.at = "insert",
                                       !.page = (page \cap seen) \ Unreadable]]
    BY <1>3
  <2> QED
    BY <2>1, <2>2
<1>9. Holds(r)'
  <2>1. Covered(origin, r.from)
    BY <1>1, <1>7 DEF Holds
  <2>2. Covered(origin, r.from)'
    BY <1>1, <1>6, <1>7, <2>1, CoveredStays
  <2>3. Window(r.from, r.to)' = seen
    BY <1>2, <1>4, <1>7, WindowStays
  <2>4. seen \subseteq r.page \cup oracle_price_feed' \cup GivenUp'
    BY <1>3, <1>7 DEF GivenUp
  <2> QED
    BY <1>1, <1>4, <1>7, <2>2, <2>3, <2>4 DEF Holds
<1> QED
  BY <1>1, <1>4, <1>6, <1>8, <1>9, PollMoves

LEMMA EventInsertStep ==
  ASSUME ListenerInv, NEW p \in Polls, NEW e \in Events, InsertEvent(p, e) \/ InsertFails(p, e)
  PROVE  ListenerInv'
<1>1. /\ poll[p] \in Poll /\ Holds(poll[p]) /\ poll[p].at = "insert" /\ e \in poll[p].page
      /\ poll[p].from \in Nat /\ poll[p].to \in Nat /\ poll[p].head \in Nat
      /\ listener_state \in -1..ledger
  BY DEF ListenerInv, InsertEvent, InsertFails, NextEvent, Poll
<1>2. /\ poll' = [poll EXCEPT ![p].page = @ \ {e}]
      /\ UNCHANGED <<ledger, ledgerOf, listener_state, origin, cutOff>>
      /\ \/ oracle_price_feed' = oracle_price_feed \cup {e} /\ insertFailed' = insertFailed
         \/ oracle_price_feed' = oracle_price_feed /\ insertFailed' = insertFailed \cup {e}
  BY DEF InsertEvent, InsertFails
<1>3. e \in Window(poll[p].from, poll[p].to) /\ Happened(e)
  BY <1>1 DEF Holds, Window, Happened, ListenerInv
<1>4. Grows /\ Known'
  BY <1>2, <1>3 DEF ListenerInv, Grows, Known, GivenUp, Happened
<1>5. PICK r \in Poll :
        r = [at |-> "insert", head |-> poll[p].head, from |-> poll[p].from,
             to |-> poll[p].to, page |-> poll[p].page \ {e}]
  BY <1>1 DEF Poll
<1>6. poll' = [poll EXCEPT ![p] = r]
  <2>1. [poll[p] EXCEPT !.page = @ \ {e}] = r
    BY <1>1, <1>5 DEF Poll
  <2>2. poll' = [poll EXCEPT ![p] = [poll[p] EXCEPT !.page = @ \ {e}]]
    BY <1>2
  <2> QED
    BY <2>1, <2>2
<1>7. Holds(r)'
  <2>1. Covered(origin, r.from)'
    BY <1>1, <1>4, <1>5, CoveredStays DEF Holds
  <2>2. Window(r.from, r.to)' = Window(poll[p].from, poll[p].to)
    BY <1>2, <1>5, WindowStays
  <2>3. e \in oracle_price_feed' \cup GivenUp'
    BY <1>2 DEF GivenUp
  <2>4. Window(poll[p].from, poll[p].to) \subseteq r.page \cup oracle_price_feed' \cup GivenUp'
    BY <1>1, <1>4, <1>5, <2>3 DEF Holds, Grows
  <2>5. r.page \subseteq Window(poll[p].from, poll[p].to) \ Unreadable
    BY <1>1, <1>5 DEF Holds
  <2> QED
    BY <1>1, <1>2, <1>5, <2>1, <2>2, <2>4, <2>5 DEF Holds
<1> QED
  BY <1>1, <1>2, <1>4, <1>6, <1>7, PollMoves

LEMMA MoveStep == ASSUME ListenerInv, NEW p \in Polls, MoveCheckpoint(p) PROVE ListenerInv'
<1>1. /\ poll[p] \in Poll /\ Holds(poll[p]) /\ poll[p].at = "insert" /\ poll[p].page = {}
      /\ poll[p].from \in Nat /\ poll[p].to \in Nat /\ poll[p].head \in Nat
      /\ ledger \in Nat /\ origin \in Int /\ \A e \in Events : ledgerOf[e] \in Nat
  BY DEF ListenerInv, MoveCheckpoint, AllTaken, Poll
<1>2. /\ poll' = [poll EXCEPT ![p] = NoPoll] /\ listener_state' = poll[p].to
      /\ UNCHANGED <<ledger, ledgerOf, oracle_price_feed, origin, insertFailed, cutOff>>
  BY DEF MoveCheckpoint, MovedTo
<1>3. Grows /\ Known'
  BY <1>2, Quiet
<1>4. listener_state' \in -1..ledger
  BY <1>1, <1>2 DEF Holds
<1>5. FeedHasNoGap'
  <2>1. /\ Window(poll[p].from, poll[p].to) \subseteq oracle_price_feed \cup GivenUp
        /\ Window(origin, poll[p].from) \subseteq oracle_price_feed \cup GivenUp
    BY <1>1 DEF Holds, Covered
  <2>2. Window(origin, poll[p].to) \subseteq
          Window(origin, poll[p].from) \cup Window(poll[p].from, poll[p].to)
    BY <1>1 DEF Window
  <2>3. Window(origin, listener_state)' = Window(origin, poll[p].to)
    BY <1>2 DEF Window
  <2> QED
    BY <1>2, <2>1, <2>2, <2>3 DEF FeedHasNoGap, GivenUp
<1> QED
  BY <1>2, <1>3, <1>4, <1>5, PollEnds

LEMMA BreakStep == ASSUME ListenerInv, NEW p \in Polls, PollBreaks(p) PROVE ListenerInv'
<1>1. /\ poll' = [poll EXCEPT ![p] = NoPoll] /\ listener_state' = listener_state
      /\ UNCHANGED <<ledger, ledgerOf, oracle_price_feed, origin, insertFailed, cutOff>>
      /\ listener_state' \in -1..ledger
  BY DEF PollBreaks, ListenerInv
<1> QED
  BY <1>1, Quiet, PollEnds

(* The updates of a new ledger are above every window there is. *)
LEMMA LedgerStep == ASSUME ListenerInv, LedgerCloses PROVE ListenerInv'
<1>1. /\ ledger \in Nat /\ ledger' = ledger + 1 /\ ledger' \in 1..MAX_LEDGER
      /\ UNCHANGED <<listener_state, oracle_price_feed, poll, origin, insertFailed, cutOff>>
  BY OracleListenerAssumption DEF ListenerInv, LedgerCloses
<1>2. PICK new \in SUBSET {e \in Events : ~Happened(e)} :
        ledgerOf' = [e \in Events |-> IF e \in new THEN ledger + 1 ELSE ledgerOf[e]]
  BY DEF LedgerCloses
<1>3. \A e \in Events : /\ ledgerOf[e] \in 0..ledger
                        /\ ledgerOf'[e] \in 0..(ledger + 1)
                        /\ ledgerOf'[e] = ledgerOf[e] \/ ledgerOf'[e] > ledger
                        /\ Happened(e) => ledgerOf'[e] = ledgerOf[e]
  BY <1>1, <1>2 DEF ListenerInv, Happened
<1>4. ASSUME NEW from \in Int, NEW to \in Int, to <= ledger
      PROVE  /\ Window(from, to)' \subseteq Window(from, to)
             /\ from \in Nat => Window(from, to)' = Window(from, to)
  <2>1. ASSUME NEW e \in Events
        PROVE  /\ ledgerOf'[e] \in (from + 1)..to => ledgerOf[e] \in (from + 1)..to
               /\ from \in Nat =>
                    (ledgerOf'[e] \in (from + 1)..to <=> ledgerOf[e] \in (from + 1)..to)
    BY <1>1, <1>3, <1>4 DEF Happened
  <2> QED
    BY <2>1 DEF Window
<1>5. ledgerOf' \in [Events -> 0..ledger']
  BY <1>1, <1>2, <1>3
<1>6. ASSUME NEW p \in Polls PROVE Holds(poll[p])'
  <2>1. PICK r \in Poll : r = poll[p] /\ r = poll'[p] /\ Holds(r)
    BY <1>1 DEF ListenerInv
  <2>2. r.from \in Nat /\ r.to \in Nat /\ r.head \in Nat /\ origin \in Int
    BY <2>1 DEF Poll, ListenerInv
  <2>3. r.to <= ledger /\ (r.at \in {"fetch", "insert"} => r.from <= ledger)
    BY <1>1, <2>1, <2>2 DEF Holds
  <2>4. Window(r.from, r.to)' = Window(r.from, r.to)
    BY <1>4, <2>2, <2>3
  <2>5. r.at \in {"fetch", "insert"} =>
          Window(origin, r.from)' \subseteq Window(origin, r.from)
    <3>1. SUFFICES ASSUME r.from <= ledger
                   PROVE  Window(origin, r.from)' \subseteq Window(origin, r.from)
      BY <2>3
    <3>2. PICK o \in Int : o = origin /\ o = origin'
      BY <1>1, <2>2
    <3>3. Window(o, r.from)' \subseteq Window(o, r.from)
      BY <1>4, <2>2, <3>1
    <3> QED
      BY <3>2, <3>3 DEF Window
  <2>6. Holds(r)'
    BY <1>1, <2>1, <2>2, <2>4, <2>5 DEF Holds, Covered, GivenUp
  <2> QED
    BY <2>1, <2>6 DEF Holds, Covered, Window
<1>7. Known'
  BY <1>1, <1>3 DEF ListenerInv, Known, Happened
<1>8. FeedHasNoGap'
  <2>1. PICK o \in Int, at \in Int : /\ o = origin /\ o = origin'
                                     /\ at = listener_state /\ at = listener_state'
                                     /\ at <= ledger
    BY <1>1 DEF ListenerInv
  <2>2. Window(o, at)' \subseteq Window(o, at)
    BY <1>4, <2>1
  <2>3. Window(origin, listener_state)' \subseteq Window(origin, listener_state)
    BY <2>1, <2>2 DEF Window
  <2> QED
    BY <1>1, <2>3 DEF ListenerInv, FeedHasNoGap
<1>9. listener_state' \in -1..ledger' /\ origin' \in -1..ledger' /\ poll' \in [Polls -> Poll]
  BY <1>1 DEF ListenerInv
<1> QED
  BY <1>1, <1>5, <1>6, <1>7, <1>8, <1>9 DEF ListenerInv

-----------------------------------------------------------------------------

LEMMA ListenerStep == ASSUME ListenerInv, ListenerNext PROVE ListenerInv'
BY PollStartStep, ReadStep, FetchStep, EventInsertStep, MoveStep, BreakStep, LedgerStep
   DEF ListenerNext, PollWorks

LEMMA ListenerStutter == ASSUME ListenerInv, UNCHANGED listenerVars PROVE ListenerInv'
<1>1. UNCHANGED <<ledger, ledgerOf, listener_state, oracle_price_feed, poll, origin,
                  insertFailed, cutOff>>
  BY DEF listenerVars
<1>2. Known' /\ FeedHasNoGap'
  BY <1>1 DEF ListenerInv, Known, FeedHasNoGap, Happened, Window
<1>3. ASSUME NEW p \in Polls PROVE Holds(poll[p])'
  BY <1>1 DEF ListenerInv, Holds, Covered, GivenUp, Window
<1> QED
  BY <1>1, <1>2, <1>3 DEF ListenerInv

LEMMA ListenerInvariance == ListenerSpec => []ListenerInv
BY ListenerInitially, ListenerStep, ListenerStutter, PTL DEF ListenerSpec

(* The feed, the checkpoint and the polls stay of their types; no poll looks   *)
(* past the ledger it began at.                                                *)
THEOREM ListenerIsTyped == ListenerSpec => []ListenerTypeOK
BY ListenerInvariance, InvIsTyped, PTL

(* With any number of polls overlapping on any number of instances, whatever   *)
(* fails between two of their steps, and whether the checkpoint goes forward   *)
(* or back, no update below it is missing from the feed but those given up.    *)
THEOREM NoGap == ListenerSpec => []FeedHasNoGap
BY ListenerInvariance, PTL DEF ListenerInv

-----------------------------------------------------------------------------

Until(s) == deposits[s].until

HoldersOf(s) == {w \in Sweeps : \E row \in sweep[w].todo : row.id = s}

(* Between the queue and the update of the date *)
Midway(w) == sweep[w].at \in {"insert", "advance"}

AtWork(s) == {w \in Sweeps : Midway(w) /\ DueFirst(w).id = s}

Inserting(s) == {w \in Sweeps : AtRow(w, "insert") /\ DueFirst(w).id = s}

(* A schedule that no two runs had in hand is in hand of one at most.  Its     *)
(* next deposit is not before the end of the last one's period, but while its  *)
(* date has still to be moved.                                                 *)
ScheduleInv(s) ==
  /\ ~Stored(s) => Until(s) = 0
  /\ s \notin mixed =>
       /\ \A v, w \in HoldersOf(s) : v = w
       /\ AtWork(s) = {} => deposit_schedules[s].next_run_at >= Until(s)
       /\ deposits[s].count =
            deposit_schedule_executions[s].success + (IF Inserting(s) # {} THEN 1 ELSE 0)

(* The rows a run has still to queue may be queued now; the date it is to      *)
(* store for the one it has queued is the end of that one's period.            *)
SweepInv(w) ==
  /\ \A row \in sweep[w].todo :
       /\ Stored(row.id)
       /\ row.id \notin mixed /\ (sweep[w].at = "next" \/ row # DueFirst(w)) => clock >= Until(row.id)
  /\ Midway(w) /\ DueFirst(w).id \notin mixed => sweep[w].next >= Until(DueFirst(w).id)

EditInv(e) ==
  /\ edit[e].op \in {"resume", "patch"} => Stored(edit[e].id)
  /\ edit[e].op = "resume" /\ edit[e].id \notin mixed =>
       HoldersOf(edit[e].id) = {} /\ edit[e].next >= Until(edit[e].id)

RecurringInv ==
  /\ \A s \in Schedules : ScheduleInv(s)
  /\ \A w \in Sweeps : SweepInv(w)
  /\ \A e \in Edits : EditInv(e)

DepositsInv == DepositsTypeOK /\ RecurringInv

LEMMA EditForms ==
  /\ NoEdit \in Edit /\ NoEdit.op = "none"
  /\ \A q \in Edit :
       /\ q.op = "resume" => q.id \in Schedules /\ q.next \in Nat
       /\ q.op = "patch" => q.id \in Schedules /\ q.cadence \in Cadences
                            /\ q.status \in {"active", "paused", "cancelled"}
BY DEF Edit, NoEdit

LEMMA NoSweepForms == NoSweep \in Sweep /\ NoSweep.at = "idle" /\ NoSweep.todo = {}
BY DEF NoSweep, Sweep

LEMMA DepositsInitially == DepositsInit => DepositsInv
<1> SUFFICES ASSUME DepositsInit PROVE DepositsInv
  OBVIOUS
<1> USE DepositSchedulesAssumption
<1>1. \A w \in Sweeps : sweep[w].at = "idle" /\ sweep[w].todo = {}
  BY NoSweepForms DEF DepositsInit
<1>2. DepositsTypeOK
  <2>1. edit \in [Edits -> Edit] /\ sweep \in [Sweeps -> Sweep]
    BY EditForms, NoSweepForms DEF DepositsInit
  <2>2. deposit_schedules \in [Schedules -> Schedule]
    BY DEF DepositsInit, Schedule
  <2>3. deposit_schedule_executions \in [Schedules -> Executions]
    BY DEF DepositsInit, Executions
  <2>4. deposits \in [Schedules -> [count : Nat, until : Nat]]
    BY DEF DepositsInit
  <2> QED  BY <1>1, <2>1, <2>2, <2>3, <2>4 DEF DepositsInit, DepositsTypeOK, AtRow
<1>3. \A s \in Schedules : ScheduleInv(s)
  <2>1. \A s \in Schedules : HoldersOf(s) = {} /\ AtWork(s) = {} /\ Inserting(s) = {}
    BY <1>1 DEF HoldersOf, AtWork, Inserting, Midway, AtRow
  <2>2. ASSUME NEW s \in Schedules
        PROVE  /\ deposits[s].count = 0 /\ Until(s) = 0 /\ deposit_schedules[s].next_run_at = 0
               /\ deposit_schedule_executions[s].success = 0
    BY DEF DepositsInit, Until
  <2>3. ASSUME NEW s \in Schedules PROVE ScheduleInv(s)
    <3>1. /\ HoldersOf(s) = {} /\ AtWork(s) = {} /\ Inserting(s) = {}
          /\ deposits[s].count = 0 /\ Until(s) = 0 /\ deposit_schedules[s].next_run_at = 0
          /\ deposit_schedule_executions[s].success = 0
      BY <2>1, <2>2
    <3> QED  BY <3>1 DEF ScheduleInv
  <2> QED  BY <2>3
<1>4. \A w \in Sweeps : SweepInv(w)
  BY <1>1 DEF SweepInv, Midway
<1>5. \A e \in Edits : EditInv(e)
  BY EditForms DEF DepositsInit, EditInv
<1> QED  BY <1>2, <1>3, <1>4, <1>5 DEF DepositsInv, RecurringInv

(* The row a run is at. *)
LEMMA FirstIsDue ==
  ASSUME NEW rows \in SUBSET DueRow, rows # {}
  PROVE  FirstDue(rows) \in rows
<1>1. \A row \in rows : row.due \in Nat
  BY DEF DueRow
<1>2. PICK n \in {row.due : row \in rows} : \A m \in {row.due : row \in rows} : n <= m
  BY ZenonT(40), <1>1, LeastNat
<1>3. \E row \in rows : \A other \in rows : row.due <= other.due
  BY <1>2
<1> QED  BY <1>3 DEF FirstDue

LEMMA RowInHandIs ==
  ASSUME DepositsTypeOK, NEW w \in Sweeps, sweep[w].at # "idle"
  PROVE  /\ DueFirst(w) \in sweep[w].todo /\ DueFirst(w) \in DueRow
         /\ sweep[w].todo \in SUBSET DueRow
         /\ \A row \in sweep[w].todo : row.id = DueFirst(w).id => row = DueFirst(w)
<1>1. sweep[w].todo \in SUBSET DueRow /\ sweep[w].todo # {}
  BY DEF DepositsTypeOK, Sweep, AtRow
<1> QED  BY <1>1, FirstIsDue DEF DueFirst, DepositsTypeOK

(* Those who are at a schedule hold it. *)
LEMMA WorkHolds ==
  ASSUME DepositsTypeOK, NEW s \in Schedules
  PROVE  AtWork(s) \subseteq HoldersOf(s) /\ Inserting(s) \subseteq AtWork(s)
BY RowInHandIs DEF AtWork, HoldersOf, Inserting, Midway, AtRow

-----------------------------------------------------------------------------
(* Types *)

LEMMA LeaveTyped ==
  ASSUME DepositsTypeOK, NEW w \in Sweeps, LeaveRow(w) \/ sweep' = [sweep EXCEPT ![w] = NoSweep]
  PROVE  /\ sweep' \in [Sweeps -> Sweep]
         /\ \A v \in Sweeps : /\ AtRow(v, "idle")' <=> sweep'[v].todo = {}
                              /\ \A row, other \in sweep'[v].todo : row.id = other.id => row = other
         /\ sweep'[w].at \in {"idle", "next"}
         /\ sweep'[w].todo \subseteq sweep[w].todo \ {DueFirst(w)}
         /\ \A v \in Sweeps \ {w} : sweep'[v] = sweep[v]
<1> DEFINE rest == sweep[w].todo \ {DueFirst(w)}
           left == [sweep[w] EXCEPT !.at = "next", !.todo = rest, !.next = 0]
<1>1. sweep[w] \in Sweep /\ rest \subseteq sweep[w].todo
  BY DEF DepositsTypeOK
<1>3. left \in Sweep /\ left.at = "next" /\ left.todo = rest
  <2> DEFINE first == [sweep[w] EXCEPT !.at = "next"]
             second == [first EXCEPT !.todo = rest]
             third == [second EXCEPT !.next = 0]
  <2>1. first \in Sweep /\ first.at = "next"
    BY <1>1 DEF Sweep
  <2>2. second \in Sweep /\ second.at = "next" /\ second.todo = rest
    <3>1. rest \in SUBSET DueRow
      BY <1>1 DEF Sweep
    <3> HIDE DEF first, rest
    <3> QED  BY <2>1, <3>1 DEF Sweep
  <2>3. third \in Sweep /\ third.at = "next" /\ third.todo = rest
    <3> HIDE DEF second, rest
    <3> QED  BY <2>2 DEF Sweep
  <2>4. left = third
    OBVIOUS
  <2> HIDE DEF left, third
  <2> QED  BY <2>3, <2>4
<1>4. PICK state \in Sweep :
        /\ sweep' = [sweep EXCEPT ![w] = state]
        /\ state.at \in {"idle", "next"} /\ state.todo \subseteq rest
        /\ state.at = "idle" <=> state.todo = {}
  <2>1. CASE rest = {} \/ sweep' = [sweep EXCEPT ![w] = NoSweep]
    <3>1. sweep' = [sweep EXCEPT ![w] = NoSweep]
      BY <2>1 DEF LeaveRow
    <3> QED  BY <3>1, NoSweepForms
  <2>2. CASE rest # {} /\ LeaveRow(w)
    <3>1. sweep' = [sweep EXCEPT ![w] = left]
      BY <2>2 DEF LeaveRow
    <3> QED  BY <1>3, <2>2, <3>1
  <2> QED  BY <2>1, <2>2
<1>5. /\ sweep' \in [Sweeps -> Sweep] /\ sweep'[w] = state
      /\ \A v \in Sweeps \ {w} : sweep'[v] = sweep[v]
  BY <1>4 DEF DepositsTypeOK
<1>6. ASSUME NEW v \in Sweeps
      PROVE  /\ AtRow(v, "idle")' <=> sweep'[v].todo = {}
             /\ \A row, other \in sweep'[v].todo : row.id = other.id => row = other
  BY <1>1, <1>4, <1>5 DEF DepositsTypeOK, AtRow
<1> QED  BY <1>4, <1>5, <1>6

(* A run stays at its row. *)
GoesOn(w, at, next) ==
  sweep' = [sweep EXCEPT ![w] = [at |-> at, todo |-> sweep[w].todo, kyc |-> sweep[w].kyc,
                                 next |-> next]]

LEMMA StayTyped ==
  ASSUME DepositsTypeOK, NEW w \in Sweeps, NEW at \in {"insert", "advance", "notify"},
         NEW next \in Nat, sweep[w].at # "idle",
         GoesOn(w, at, next)
  PROVE  /\ sweep' \in [Sweeps -> Sweep]
         /\ \A v \in Sweeps : /\ AtRow(v, "idle")' <=> sweep'[v].todo = {}
                              /\ \A row, other \in sweep'[v].todo : row.id = other.id => row = other
         /\ sweep'[w].at = at /\ sweep'[w].next = next /\ sweep'[w].todo = sweep[w].todo
         /\ DueFirst(w)' = DueFirst(w)
         /\ \A v \in Sweeps \ {w} : sweep'[v] = sweep[v] /\ DueFirst(v)' = DueFirst(v)
<1> PICK state : state = [at |-> at, todo |-> sweep[w].todo, kyc |-> sweep[w].kyc, next |-> next]
  OBVIOUS
<1>1. sweep[w] \in Sweep
  BY DEF DepositsTypeOK
<1>2. state \in Sweep /\ state.at = at /\ state.todo = sweep[w].todo /\ state.next = next
  BY <1>1 DEF Sweep
<1>3. /\ sweep' \in [Sweeps -> Sweep] /\ sweep'[w] = state
      /\ \A v \in Sweeps \ {w} : sweep'[v] = sweep[v]
  BY <1>2 DEF DepositsTypeOK, GoesOn
<1>4. ASSUME NEW v \in Sweeps
      PROVE  /\ AtRow(v, "idle")' <=> sweep'[v].todo = {}
             /\ \A row, other \in sweep'[v].todo : row.id = other.id => row = other
  BY <1>2, <1>3 DEF DepositsTypeOK, AtRow
<1> QED  BY <1>2, <1>3, <1>4 DEF DueFirst

-----------------------------------------------------------------------------
(* Routes, the clock, decisions on KYC *)

(* The runs and the queue are not concerned. *)
LEMMA RunsKeep ==
  ASSUME DepositsInv, UNCHANGED <<sweep, deposits, deposit_schedule_executions>>,
         clock' \in Nat, clock' >= clock, mixed \subseteq mixed',
         \A s \in Schedules : Stored(s) => Stored(s)',
         \A s \in Schedules \ mixed' :
           \/ deposit_schedules'[s].next_run_at = deposit_schedules[s].next_run_at
           \/ deposit_schedules'[s].next_run_at >= Until(s),
         \A e \in Edits : EditInv(e)'
  PROVE  RecurringInv'
<1> USE DEF DepositsInv, RecurringInv
<1>1. ASSUME NEW s \in Schedules
      PROVE  /\ HoldersOf(s)' = HoldersOf(s) /\ AtWork(s)' = AtWork(s)
             /\ Inserting(s)' = Inserting(s) /\ Until(s)' = Until(s)
  BY DEF HoldersOf, AtWork, Inserting, Midway, AtRow, DueFirst, Until
<1>2. \A w \in Sweeps : DueFirst(w)' = DueFirst(w)
  BY DEF DueFirst
<1>3. ASSUME NEW s \in Schedules PROVE ScheduleInv(s)'
  BY <1>1 DEF ScheduleInv
<1>4. ASSUME NEW w \in Sweeps PROVE SweepInv(w)'
  <2>1. ASSUME NEW row \in sweep'[w].todo
        PROVE  /\ Stored(row.id)'
               /\ row.id \notin mixed' /\ (sweep'[w].at = "next" \/ row # DueFirst(w)')
                    => clock' >= Until(row.id)'
    <3>1. row \in sweep[w].todo /\ row.id \in Schedules
      BY <2>1 DEF DepositsTypeOK, Sweep, DueRow
    <3>2. Until(row.id) \in Nat /\ clock \in Nat
      BY <3>1 DEF DepositsTypeOK, Until
    <3>3. row.id \notin mixed' /\ (sweep'[w].at = "next" \/ row # DueFirst(w)') => clock >= Until(row.id)
      BY <1>2, <3>1 DEF SweepInv
    <3>4. Until(row.id)' = Until(row.id)
      BY DEF Until
    <3> QED  BY <3>1, <3>2, <3>3, <3>4 DEF SweepInv
  <2>2. Midway(w)' /\ DueFirst(w)' \notin mixed' => Midway(w)
    BY DEF Midway
  <2>3. Midway(w)' /\ DueFirst(w)'.id \notin mixed' =>
          sweep'[w].next >= Until(DueFirst(w).id)'
    BY <1>2 DEF SweepInv, Midway, Until
  <2> QED  BY <1>2, <2>1, <2>3 DEF SweepInv
<1> QED  BY <1>3, <1>4

LEMMA EditTyped ==
  ASSUME DepositsTypeOK, NEW e \in Edits, NEW q \in Edit, edit' = [edit EXCEPT ![e] = q]
  PROVE  /\ edit' \in [Edits -> Edit] /\ edit'[e] = q
         /\ \A f \in Edits \ {e} : edit'[f] = edit[f]
BY DEF DepositsTypeOK

LEMMA RunsTyped ==
  ASSUME DepositsTypeOK, UNCHANGED <<sweep, deposits, deposit_schedule_executions>>,
         clock' \in 0..MAX_CLOCK, kycOk' \in BOOLEAN, events' \in 0..MAX_EVENTS,
         deposit_schedules' \in [Schedules -> Schedule], edit' \in [Edits -> Edit],
         mixed' \subseteq Schedules
  PROVE  DepositsTypeOK'
BY DEF DepositsTypeOK, AtRow

LEMMA EventTyped == ASSUME DepositsTypeOK, Event PROVE events' \in 0..MAX_EVENTS
BY DepositSchedulesAssumption DEF Event, DepositsTypeOK

LEMMA TypedNow ==
  ASSUME DepositsTypeOK
  PROVE  /\ clock \in 0..MAX_CLOCK /\ clock \in Nat /\ kycOk \in BOOLEAN
         /\ events \in 0..MAX_EVENTS /\ mixed \subseteq Schedules
         /\ deposit_schedules \in [Schedules -> Schedule] /\ edit \in [Edits -> Edit]
         /\ \A s \in Schedules : Until(s) \in Nat
BY DEF DepositsTypeOK, Until

(* What holds of an edit goes on to hold. *)
LEMMA EditStill ==
  ASSUME DepositsInv, NEW e \in Edits, edit'[e] = edit[e], UNCHANGED <<sweep, deposits>>,
         mixed \subseteq mixed', \A s \in Schedules : Stored(s) => Stored(s)'
  PROVE  EditInv(e)'
<1>1. edit[e] \in Edit
  BY DEF DepositsInv, DepositsTypeOK
<1>2. edit[e].op \in {"resume", "patch"} => edit[e].id \in Schedules
  BY <1>1, EditForms
<1>3. \A s : HoldersOf(s)' = HoldersOf(s) /\ Until(s)' = Until(s)
  BY DEF HoldersOf, Until
<1> QED  BY <1>2, <1>3 DEF DepositsInv, RecurringInv, EditInv

LEMMA CreateStep ==
  ASSUME DepositsInv, NEW e \in Edits, CreateSchedule(e) PROVE DepositsInv'
<1>1. [op |-> "create"] \in Edit /\ [op |-> "create"].op = "create"
  BY DEF Edit
<1>2. /\ edit' \in [Edits -> Edit] /\ edit'[e].op = "create"
      /\ \A f \in Edits \ {e} : edit'[f] = edit[f]
  BY <1>1, EditTyped DEF CreateSchedule, BeginEdit, DepositsInv
<1>3. DepositsTypeOK'
  BY <1>2, TypedNow, RunsTyped DEF CreateSchedule, DepositsInv
<1>4. \A f \in Edits : EditInv(f)'
  BY <1>2, EditStill DEF CreateSchedule, EditInv, Stored
<1>5. RecurringInv'
  BY <1>4, TypedNow, RunsKeep DEF CreateSchedule, DepositsInv, Stored
<1> QED  BY <1>3, <1>5 DEF DepositsInv

(* An edit that ends. *)
LEMMA EditEnds ==
  ASSUME DepositsInv, NEW e \in Edits, EndEdit(e), UNCHANGED <<sweep, deposits, mixed>>,
         \A s \in Schedules : Stored(s) => Stored(s)'
  PROVE  edit' \in [Edits -> Edit] /\ \A f \in Edits : EditInv(f)'
<1>1. /\ edit' \in [Edits -> Edit] /\ edit'[e].op = "none"
      /\ \A f \in Edits \ {e} : edit'[f] = edit[f]
  BY EditForms, EditTyped DEF EndEdit, DepositsInv
<1> QED  BY <1>1, EditStill DEF EditInv

LEMMA StoreStep ==
  ASSUME DepositsInv, NEW e \in Edits, NEW s \in Schedules, NEW c \in Cadences, NEW start \in Nat,
         StoreSchedule(e, s, c, start)
  PROVE  DepositsInv'
<1>1. [status |-> "active", cadence |-> c, next_run_at |-> start] \in Schedule
  BY DEF Schedule
<1>2. /\ deposit_schedules' \in [Schedules -> Schedule]
      /\ deposit_schedules'[s] = [status |-> "active", cadence |-> c, next_run_at |-> start]
      /\ \A t \in Schedules \ {s} : deposit_schedules'[t] = deposit_schedules[t]
  BY <1>1, TypedNow DEF StoreSchedule, DepositsInv
<1>3. \A t \in Schedules : Stored(t) => Stored(t)'
  BY <1>2 DEF Stored
<1>4. edit' \in [Edits -> Edit] /\ \A f \in Edits : EditInv(f)'
  BY <1>3, EditEnds DEF StoreSchedule
<1>5. DepositsTypeOK'
  BY <1>2, <1>4, TypedNow, RunsTyped DEF StoreSchedule, DepositsInv
<1>6. Until(s) = 0
  BY DEF StoreSchedule, DepositsInv, RecurringInv, ScheduleInv
<1>7. RecurringInv'
  BY <1>2, <1>3, <1>4, <1>6, TypedNow, RunsKeep DEF StoreSchedule, DepositsInv
<1> QED  BY <1>5, <1>7 DEF DepositsInv

LEMMA SetStep ==
  ASSUME DepositsInv, NEW s \in Schedules, NEW status \in {"paused", "cancelled"},
         SetSchedule(s, status)
  PROVE  DepositsInv'
<1>1. /\ deposit_schedules' \in [Schedules -> Schedule]
      /\ \A t \in Schedules :
           /\ deposit_schedules'[t].next_run_at = deposit_schedules[t].next_run_at
           /\ Stored(t) => Stored(t)'
  <2>1. deposit_schedules' = [deposit_schedules EXCEPT ![s].status = status]
    BY DEF SetSchedule
  <2> QED  BY <2>1, TypedNow DEF DepositsInv, Schedule, Stored
<1>2. \A f \in Edits : EditInv(f)'
  BY <1>1, EditStill DEF SetSchedule
<1>3. DepositsTypeOK'
  BY <1>1, TypedNow, RunsTyped, EventTyped DEF SetSchedule, DepositsInv
<1>4. RecurringInv'
  BY <1>1, <1>2, TypedNow, RunsKeep DEF SetSchedule, DepositsInv
<1> QED  BY <1>3, <1>4 DEF DepositsInv

LEMMA ResumeStep ==
  ASSUME DepositsInv, NEW e \in Edits, NEW s \in Schedules, ResumeSchedule(e, s)
  PROVE  DepositsInv'
<1> USE DepositSchedulesAssumption
<1> PICK next : next = ResumedAt(deposit_schedules[s])
  OBVIOUS
<1> PICK q : q = [op |-> "resume", id |-> s, next |-> next]
  OBVIOUS
<1>1. deposit_schedules[s] \in Schedule /\ clock \in Nat
  BY TypedNow DEF DepositsInv
<1>2. PERIOD[deposit_schedules[s].cadence] \in Nat
  BY <1>1 DEF Schedule
<1>3. next \in Nat /\ (deposit_schedules[s].next_run_at <= clock => next >= clock)
      /\ (deposit_schedules[s].next_run_at > clock => next = deposit_schedules[s].next_run_at)
  BY <1>1, <1>2 DEF ResumedAt, NextRunAt, Schedule
<1>4. q \in Edit /\ q.op = "resume" /\ q.id = s /\ q.next = next
  BY <1>3 DEF Edit
<1>5. /\ edit' \in [Edits -> Edit] /\ edit'[e] = q
      /\ \A f \in Edits \ {e} : edit'[f] = edit[f]
  BY <1>4, EditTyped DEF ResumeSchedule, BeginEdit, DepositsInv
<1>6. /\ UNCHANGED <<clock, kycOk, deposit_schedules, deposit_schedule_executions, sweep, deposits>>
      /\ mixed' = mixed \cup ({s} \cap InSweeps) /\ Event
  BY DEF ResumeSchedule
<1>7. s \notin mixed' => HoldersOf(s) = {} /\ next >= Until(s)
  <2> SUFFICES ASSUME s \notin mixed' PROVE HoldersOf(s) = {} /\ next >= Until(s)
    OBVIOUS
  <2>1. HoldersOf(s) = {}
    BY <1>6 DEF InSweeps, HoldersOf
  <2>2. AtWork(s) = {}
    BY <2>1, WorkHolds DEF DepositsInv
  <2>3. deposit_schedules[s].next_run_at >= Until(s)
    BY <1>6, <2>2 DEF DepositsInv, RecurringInv, ScheduleInv
  <2>4. Until(s) \in Nat /\ deposit_schedules[s].next_run_at \in Nat
    BY <1>1, TypedNow DEF DepositsInv, Schedule
  <2> QED  BY <1>1, <1>3, <2>1, <2>3, <2>4
<1>8. EditInv(e)'
  BY <1>4, <1>5, <1>6, <1>7 DEF EditInv, HoldersOf, Until, Stored, ResumeSchedule
<1>9. \A f \in Edits : EditInv(f)'
  BY <1>5, <1>6, <1>8, EditStill DEF Stored
<1>10. DepositsTypeOK'
  BY <1>5, <1>6, TypedNow, RunsTyped, EventTyped DEF DepositsInv
<1>11. RecurringInv'
  BY <1>6, <1>9, TypedNow, RunsKeep DEF DepositsInv, Stored
<1> QED  BY <1>10, <1>11 DEF DepositsInv

LEMMA ResumeWrittenStep ==
  ASSUME DepositsInv, NEW e \in Edits, ResumeWritten(e) PROVE DepositsInv'
<1>1. edit[e] \in Edit /\ edit[e].op = "resume" /\ EditInv(e)
  BY TypedNow DEF ResumeWritten, DepositsInv, RecurringInv
<1>2. edit[e].id \in Schedules /\ edit[e].next \in Nat
  BY <1>1, EditForms
<1> PICK s \in Schedules, next \in Nat : edit[e].id = s /\ edit[e].next = next
  BY <1>2
<1>3. /\ deposit_schedules' \in [Schedules -> Schedule]
      /\ deposit_schedules'[s].next_run_at = next /\ deposit_schedules'[s].status = "active"
      /\ \A t \in Schedules \ {s} : deposit_schedules'[t] = deposit_schedules[t]
  <2>1. deposit_schedules' = [deposit_schedules EXCEPT ![s].status = "active", ![s].next_run_at = next]
    BY DEF ResumeWritten
  <2> DEFINE first == [deposit_schedules[s] EXCEPT !.status = "active"]
             second == [first EXCEPT !.next_run_at = next]
  <2>2. first \in Schedule /\ first.status = "active"
    BY TypedNow DEF DepositsInv, Schedule
  <2>3. second \in Schedule /\ second.status = "active" /\ second.next_run_at = next
    <3> HIDE DEF first
    <3> QED  BY <2>2 DEF Schedule
  <2>4. deposit_schedules' = [deposit_schedules EXCEPT ![s] = second]
    BY <2>1, TypedNow DEF DepositsInv
  <2> HIDE DEF second
  <2> QED  BY <2>3, <2>4, TypedNow DEF DepositsInv
<1>4. \A t \in Schedules : Stored(t) => Stored(t)'
  BY <1>3 DEF Stored
<1>5. edit' \in [Edits -> Edit] /\ \A f \in Edits : EditInv(f)'
  BY <1>4, EditEnds DEF ResumeWritten
<1>6. DepositsTypeOK'
  BY <1>3, <1>5, TypedNow, RunsTyped DEF ResumeWritten, DepositsInv
<1>7. s \notin mixed => next >= Until(s)
  BY <1>1 DEF EditInv
<1>8. RecurringInv'
  BY <1>3, <1>4, <1>5, <1>7, TypedNow, RunsKeep DEF ResumeWritten, DepositsInv
<1> QED  BY <1>6, <1>8 DEF DepositsInv

LEMMA PatchStep ==
  ASSUME DepositsInv, NEW e \in Edits, NEW s \in Schedules, NEW c \in Cadences,
         NEW status \in {"active", "paused", "cancelled"}, PatchSchedule(e, s, c, status)
  PROVE  DepositsInv'
<1> PICK q : q = [op |-> "patch", id |-> s, cadence |-> c, status |-> status]
  OBVIOUS
<1>1. q \in Edit /\ q.op = "patch" /\ q.id = s
  BY DEF Edit
<1>2. /\ edit' \in [Edits -> Edit] /\ edit'[e] = q
      /\ \A f \in Edits \ {e} : edit'[f] = edit[f]
  BY <1>1, EditTyped DEF PatchSchedule, BeginEdit, DepositsInv
<1>3. DepositsTypeOK'
  BY <1>2, TypedNow, RunsTyped, EventTyped DEF PatchSchedule, DepositsInv
<1>4. \A f \in Edits : EditInv(f)'
  BY <1>1, <1>2, EditStill DEF PatchSchedule, EditInv, Stored
<1>5. RecurringInv'
  BY <1>4, TypedNow, RunsKeep DEF PatchSchedule, DepositsInv, Stored
<1> QED  BY <1>3, <1>5 DEF DepositsInv

LEMMA PatchWrittenStep ==
  ASSUME DepositsInv, NEW e \in Edits, PatchWritten(e) PROVE DepositsInv'
<1>1. edit[e] \in Edit /\ edit[e].op = "patch"
  BY TypedNow DEF PatchWritten, DepositsInv
<1>2. /\ edit[e].id \in Schedules /\ edit[e].cadence \in Cadences
      /\ edit[e].status \in {"active", "paused", "cancelled"}
  BY <1>1, EditForms
<1> PICK s \in Schedules, c \in Cadences, status \in {"active", "paused", "cancelled"} :
      edit[e].id = s /\ edit[e].cadence = c /\ edit[e].status = status
  BY <1>2
<1>3. /\ deposit_schedules' \in [Schedules -> Schedule]
      /\ \A t \in Schedules :
           /\ deposit_schedules'[t].next_run_at = deposit_schedules[t].next_run_at
           /\ Stored(t) => Stored(t)'
  <2>1. deposit_schedules' = [deposit_schedules EXCEPT ![s].status = status, ![s].cadence = c]
    BY DEF PatchWritten
  <2> DEFINE first == [deposit_schedules[s] EXCEPT !.status = status]
             second == [first EXCEPT !.cadence = c]
  <2>2. first \in Schedule /\ first.status = status
        /\ first.next_run_at = deposit_schedules[s].next_run_at
    BY TypedNow DEF DepositsInv, Schedule
  <2>3. second \in Schedule /\ second.status = status
        /\ second.next_run_at = deposit_schedules[s].next_run_at
    <3> HIDE DEF first
    <3> QED  BY <2>2 DEF Schedule
  <2>4. deposit_schedules' = [deposit_schedules EXCEPT ![s] = second]
    BY <2>1, TypedNow DEF DepositsInv
  <2> HIDE DEF second
  <2> QED  BY <2>3, <2>4, TypedNow DEF DepositsInv, Stored
<1>5. edit' \in [Edits -> Edit] /\ \A f \in Edits : EditInv(f)'
  BY <1>3, EditEnds DEF PatchWritten
<1>6. DepositsTypeOK'
  BY <1>3, <1>5, TypedNow, RunsTyped DEF PatchWritten, DepositsInv
<1>8. RecurringInv'
  BY <1>3, <1>5, TypedNow, RunsKeep DEF PatchWritten, DepositsInv
<1> QED  BY <1>6, <1>8 DEF DepositsInv

LEMMA EditBreaksStep ==
  ASSUME DepositsInv, NEW e \in Edits, EditBreaks(e) PROVE DepositsInv'
<1>1. edit' \in [Edits -> Edit] /\ \A f \in Edits : EditInv(f)'
  BY EditEnds DEF EditBreaks, Stored
<1>2. DepositsTypeOK'
  BY <1>1, TypedNow, RunsTyped DEF EditBreaks, DepositsInv
<1>3. RecurringInv'
  BY <1>1, TypedNow, RunsKeep DEF EditBreaks, DepositsInv, Stored
<1> QED  BY <1>2, <1>3 DEF DepositsInv

LEMMA WorldStep ==
  ASSUME DepositsInv, KycChanges \/ ClockTicks \/ UNCHANGED scheduleVars PROVE DepositsInv'
<1>1. /\ UNCHANGED <<deposit_schedules, deposit_schedule_executions, edit, sweep, deposits, mixed>>
      /\ clock' \in 0..MAX_CLOCK /\ clock' >= clock /\ kycOk' \in BOOLEAN /\ events' \in 0..MAX_EVENTS
  <2>1. CASE KycChanges
    BY <2>1, TypedNow, EventTyped DEF KycChanges, DepositsInv
  <2>2. CASE ClockTicks
    BY <2>2, TypedNow, DepositSchedulesAssumption DEF ClockTicks, DepositsInv
  <2>3. CASE UNCHANGED scheduleVars
    BY <2>3, TypedNow DEF scheduleVars, DepositsInv
  <2> QED  BY <2>1, <2>2, <2>3
<1>2. \A f \in Edits : EditInv(f)'
  BY <1>1, EditStill DEF Stored
<1>3. DepositsTypeOK'
  BY <1>1, TypedNow, RunsTyped DEF DepositsInv
<1>4. RecurringInv'
  BY <1>1, <1>2, TypedNow, RunsKeep, DepositSchedulesAssumption DEF DepositsInv, Stored
<1> QED  BY <1>3, <1>4 DEF DepositsInv

-----------------------------------------------------------------------------
(* Runs *)

(* A run leaves its row, or dies. *)
LEMMA LeaveStep ==
  ASSUME DepositsInv, NEW w \in Sweeps, sweep[w].at # "idle",
         LeaveRow(w) \/ sweep' = [sweep EXCEPT ![w] = NoSweep],
         UNCHANGED <<clock, kycOk, deposit_schedules, edit, deposits>>,
         events' \in 0..MAX_EVENTS, mixed \subseteq mixed', mixed' \subseteq Schedules,
         Midway(w) => DueFirst(w).id \in mixed',
         deposit_schedule_executions' \in [Schedules -> Executions],
         \A s \in Schedules :
           deposit_schedule_executions'[s].success = deposit_schedule_executions[s].success
  PROVE  DepositsInv'
<1> USE DEF DepositsInv, RecurringInv
<1>1. /\ sweep' \in [Sweeps -> Sweep]
      /\ \A v \in Sweeps : /\ AtRow(v, "idle")' <=> sweep'[v].todo = {}
                           /\ \A row, other \in sweep'[v].todo : row.id = other.id => row = other
      /\ sweep'[w].at \in {"idle", "next"}
      /\ sweep'[w].todo \subseteq sweep[w].todo \ {DueFirst(w)}
      /\ \A v \in Sweeps \ {w} : sweep'[v] = sweep[v]
  BY LeaveTyped
<1>2. DepositsTypeOK'
  BY <1>1 DEF DepositsTypeOK
<1>3. \A v \in Sweeps \ {w} : DueFirst(v)' = DueFirst(v) /\ (Midway(v)' <=> Midway(v))
  BY <1>1 DEF DueFirst, Midway
<1>4. ~Midway(w)'
  BY <1>1 DEF Midway
<1>5. ASSUME NEW s
      PROVE  /\ HoldersOf(s)' \subseteq HoldersOf(s) /\ Until(s)' = Until(s)
             /\ Stored(s)' <=> Stored(s)
  BY <1>1 DEF HoldersOf, Until, Stored
<1>6. ASSUME NEW s, s \notin mixed'
      PROVE  AtWork(s)' = AtWork(s) /\ Inserting(s)' = Inserting(s)
  <2>1. w \notin AtWork(s) /\ w \notin Inserting(s)
    BY <1>6 DEF AtWork, Inserting, Midway, AtRow
  <2>2. w \notin AtWork(s)' /\ w \notin Inserting(s)'
    BY <1>4 DEF AtWork, Inserting, Midway, AtRow
  <2>3. ASSUME NEW v \in Sweeps \ {w}
        PROVE  /\ v \in AtWork(s)' <=> v \in AtWork(s)
               /\ v \in Inserting(s)' <=> v \in Inserting(s)
    BY <1>1, <1>3 DEF AtWork, Inserting, AtRow
  <2>4. /\ AtWork(s)' \subseteq Sweeps /\ AtWork(s) \subseteq Sweeps
        /\ Inserting(s)' \subseteq Sweeps /\ Inserting(s) \subseteq Sweeps
    BY DEF AtWork, Inserting
  <2>5. \A v : v \in AtWork(s)' <=> v \in AtWork(s)
    BY <2>1, <2>2, <2>3, <2>4
  <2>6. \A v : v \in Inserting(s)' <=> v \in Inserting(s)
    BY <2>1, <2>2, <2>3, <2>4
  <2> QED  BY <2>5, <2>6
<1>7. ASSUME NEW s \in Schedules PROVE ScheduleInv(s)'
  BY <1>5, <1>6 DEF ScheduleInv
<1>8. ASSUME NEW v \in Sweeps PROVE SweepInv(v)'
  <2>1. CASE v = w
    <3>1. ASSUME NEW row \in sweep'[w].todo
          PROVE  /\ Stored(row.id)'
                 /\ row.id \notin mixed' => clock' >= Until(row.id)'
      <4>1. row \in sweep[w].todo /\ row # DueFirst(w)
        BY <1>1
      <4> QED  BY <1>5, <4>1 DEF SweepInv
    <3> QED  BY <1>4, <2>1, <3>1 DEF SweepInv
  <2>2. CASE v # w
    BY <1>1, <1>3, <1>5, <2>2 DEF SweepInv
  <2> QED  BY <2>1, <2>2
<1>9. ASSUME NEW e \in Edits PROVE EditInv(e)'
  <2>1. \A s : HoldersOf(s) = {} => HoldersOf(s)' = {}
    BY <1>5
  <2> QED  BY <1>5, <2>1 DEF EditInv
<1> QED  BY <1>2, <1>7, <1>8, <1>9

LEMMA OneMore ==
  ASSUME DepositsTypeOK, NEW s \in Schedules,
         \/ deposit_schedule_executions' = [deposit_schedule_executions EXCEPT ![s].failed = @ + 1]
         \/ deposit_schedule_executions' = [deposit_schedule_executions EXCEPT ![s].skipped = TRUE]
  PROVE  /\ deposit_schedule_executions' \in [Schedules -> Executions]
         /\ \A t \in Schedules :
              deposit_schedule_executions'[t].success = deposit_schedule_executions[t].success
<1>1. deposit_schedule_executions \in [Schedules -> Executions]
  BY DEF DepositsTypeOK
<1>2. CASE deposit_schedule_executions' = [deposit_schedule_executions EXCEPT ![s].failed = @ + 1]
  BY <1>1, <1>2 DEF Executions
<1>3. CASE deposit_schedule_executions' = [deposit_schedule_executions EXCEPT ![s].skipped = TRUE]
  BY <1>1, <1>3 DEF Executions
<1> QED  BY <1>2, <1>3

LEMMA AtScheduleNow ==
  ASSUME DepositsInv, NEW w \in Sweeps, sweep[w].at # "idle"
  PROVE  /\ DueFirst(w).id \in Schedules /\ DueFirst(w).cadence \in Cadences
         /\ w \in HoldersOf(DueFirst(w).id) /\ Stored(DueFirst(w).id)
         /\ DueFirst(w).id \notin mixed => HoldersOf(DueFirst(w).id) = {w}
<1>1. DueFirst(w) \in sweep[w].todo /\ DueFirst(w) \in DueRow
  BY RowInHandIs DEF DepositsInv
<1>2. DueFirst(w).id \in Schedules /\ DueFirst(w).cadence \in Cadences
  BY <1>1 DEF DueRow
<1>3. w \in HoldersOf(DueFirst(w).id) /\ Stored(DueFirst(w).id)
  BY <1>1 DEF HoldersOf, DepositsInv, RecurringInv, SweepInv
<1>4. ASSUME DueFirst(w).id \notin mixed PROVE HoldersOf(DueFirst(w).id) = {w}
  BY <1>2, <1>3, <1>4 DEF DepositsInv, RecurringInv, ScheduleInv
<1> QED  BY <1>2, <1>3, <1>4

LEMMA LeaveSteps ==
  ASSUME DepositsInv, NEW w \in Sweeps,
         SkipRow(w) \/ NotifyDeposit(w) \/ RowFails(w) \/ SweepDies(w)
  PROVE  DepositsInv'
<1>1. sweep[w].at # "idle"
  BY DEF SkipRow, NotifyDeposit, RowFails, SweepDies, AtRow
<1>2. DueFirst(w).id \in Schedules
  BY <1>1, AtScheduleNow
<1>3. CASE SkipRow(w)
  <2>1. /\ deposit_schedule_executions' \in [Schedules -> Executions]
        /\ \A t \in Schedules :
             deposit_schedule_executions'[t].success = deposit_schedule_executions[t].success
    BY <1>2, <1>3, OneMore DEF SkipRow, DepositsInv
  <2>2. ~Midway(w)
    BY <1>3 DEF SkipRow, AtRow, Midway
  <2> QED  BY <1>1, <1>3, <2>1, <2>2, LeaveStep, TypedNow DEF SkipRow, DepositsInv
<1>4. CASE NotifyDeposit(w)
  <2>1. ~Midway(w)
    BY <1>4 DEF NotifyDeposit, AtRow, Midway
  <2>2. /\ UNCHANGED <<clock, kycOk, deposit_schedules, edit, deposits, mixed, events, deposit_schedule_executions>>
        /\ deposit_schedule_executions \in [Schedules -> Executions]
    BY <1>4 DEF NotifyDeposit, DepositsInv, DepositsTypeOK
  <2> QED  BY <1>1, <1>4, <2>1, <2>2, LeaveStep, TypedNow DEF NotifyDeposit, DepositsInv
<1>5. CASE RowFails(w) \/ SweepDies(w)
  <2>1. /\ Event /\ BreakOff(w)
        /\ UNCHANGED <<clock, kycOk, deposit_schedules, edit, deposits>>
        /\ LeaveRow(w) \/ sweep' = [sweep EXCEPT ![w] = NoSweep]
    BY <1>5 DEF RowFails, SweepDies
  <2>2. /\ mixed \subseteq mixed' /\ mixed' \subseteq Schedules
        /\ Midway(w) => DueFirst(w).id \in mixed'
    BY <1>2, <2>1, TypedNow DEF BreakOff, Midway, DepositsInv
  <2>3. /\ deposit_schedule_executions' \in [Schedules -> Executions]
        /\ \A t \in Schedules :
             deposit_schedule_executions'[t].success = deposit_schedule_executions[t].success
    <3>1. CASE RowFails(w)
      BY <1>2, <3>1, OneMore DEF RowFails, DepositsInv
    <3>2. CASE SweepDies(w)
      BY <3>2 DEF SweepDies, DepositsInv, DepositsTypeOK
    <3> QED  BY <1>5, <3>1, <3>2
  <2>4. events' \in 0..MAX_EVENTS
    BY <2>1, EventTyped DEF DepositsInv
  <2> QED  BY <1>1, <2>1, <2>2, <2>3, <2>4, LeaveStep
<1> QED  BY <1>3, <1>4, <1>5

LEMMA StayStep ==
  ASSUME DepositsInv, NEW w \in Sweeps, NEW at \in {"insert", "advance", "notify"},
         NEW next \in Nat, NEW id, id = DueFirst(w).id, sweep[w].at # "idle",
         GoesOn(w, at, next)
  PROVE  /\ \A s : HoldersOf(s)' = HoldersOf(s)
         /\ \A s : s # id => AtWork(s)' = AtWork(s) /\ Inserting(s)' = Inserting(s)
         /\ id \notin mixed =>
              /\ AtWork(id) = (IF sweep[w].at \in {"insert", "advance"} THEN {w} ELSE {})
              /\ Inserting(id) = (IF sweep[w].at = "insert" THEN {w} ELSE {})
              /\ AtWork(id)' = (IF at \in {"insert", "advance"} THEN {w} ELSE {})
              /\ Inserting(id)' = (IF at = "insert" THEN {w} ELSE {})
<1>1. /\ sweep'[w].at = at /\ sweep'[w].next = next /\ sweep'[w].todo = sweep[w].todo
      /\ DueFirst(w)' = DueFirst(w)
      /\ \A v \in Sweeps \ {w} : sweep'[v] = sweep[v] /\ DueFirst(v)' = DueFirst(v)
  BY StayTyped DEF DepositsInv
<1>2. ASSUME NEW s PROVE HoldersOf(s)' = HoldersOf(s)
  BY <1>1 DEF HoldersOf
<1>3. ASSUME NEW s, s # id
      PROVE  AtWork(s)' = AtWork(s) /\ Inserting(s)' = Inserting(s)
  <2>1. ASSUME NEW v \in Sweeps
        PROVE  /\ v \in AtWork(s)' <=> v \in AtWork(s)
               /\ v \in Inserting(s)' <=> v \in Inserting(s)
    BY <1>1, <1>3 DEF AtWork, Inserting, AtRow, Midway
  <2>2. \A v : v \in AtWork(s)' <=> v \in AtWork(s)
    BY <2>1 DEF AtWork
  <2>3. \A v : v \in Inserting(s)' <=> v \in Inserting(s)
    BY <2>1 DEF Inserting
  <2> QED  BY <2>2, <2>3
<1>4. ASSUME id \notin mixed
      PROVE  /\ AtWork(id) = (IF sweep[w].at \in {"insert", "advance"} THEN {w} ELSE {})
             /\ Inserting(id) = (IF sweep[w].at = "insert" THEN {w} ELSE {})
             /\ AtWork(id)' = (IF at \in {"insert", "advance"} THEN {w} ELSE {})
             /\ Inserting(id)' = (IF at = "insert" THEN {w} ELSE {})
  <2>1. HoldersOf(id) = {w} /\ id \in Schedules
    BY <1>4, AtScheduleNow
  <2>2. AtWork(id) \subseteq {w} /\ Inserting(id) \subseteq {w}
    BY <2>1, WorkHolds DEF DepositsInv
  <2>3. ASSUME NEW v \in Sweeps, v # w PROVE ~(Midway(v)' /\ DueFirst(v)'.id = id)
    <3>1. v \notin AtWork(id) /\ DueFirst(v)' = DueFirst(v) /\ (Midway(v)' <=> Midway(v))
      BY <1>1, <2>2, <2>3 DEF Midway
    <3> QED  BY <3>1 DEF AtWork
  <2>4. AtWork(id)' \subseteq {w} /\ Inserting(id)' \subseteq {w}
    BY <2>3 DEF AtWork, Inserting, Midway, AtRow
  <2>5. /\ w \in AtWork(id) <=> sweep[w].at \in {"insert", "advance"}
        /\ w \in Inserting(id) <=> sweep[w].at = "insert"
        /\ w \in AtWork(id)' <=> at \in {"insert", "advance"}
        /\ w \in Inserting(id)' <=> at = "insert"
    BY <1>1 DEF AtWork, Inserting, Midway, AtRow
  <2>6. /\ AtWork(id) = (IF w \in AtWork(id) THEN {w} ELSE {})
        /\ Inserting(id) = (IF w \in Inserting(id) THEN {w} ELSE {})
    BY <2>2
  <2>7. /\ AtWork(id)' = (IF w \in AtWork(id)' THEN {w} ELSE {})
        /\ Inserting(id)' = (IF w \in Inserting(id)' THEN {w} ELSE {})
    BY <2>4
  <2> QED  BY <2>5, <2>6, <2>7
<1> QED  BY <1>2, <1>3, <1>4

(* The record of a run that goes on at its row. *)
LEMMA StaysAs ==
  ASSUME DepositsTypeOK, NEW w \in Sweeps, NEW at \in {"insert", "advance", "notify"},
         NEW next \in Nat,
         \/ sweep' = [sweep EXCEPT ![w].at = at, ![w].next = next]
         \/ sweep' = [sweep EXCEPT ![w].at = at] /\ next = sweep[w].next
  PROVE  GoesOn(w, at, next)
<1> DEFINE first == [sweep[w] EXCEPT !.at = at]
           second == [first EXCEPT !.next = next]
           state == [at |-> at, todo |-> sweep[w].todo, kyc |-> sweep[w].kyc, next |-> next]
<1>1. sweep[w] \in Sweep
  BY DEF DepositsTypeOK
<1>2. first = [at |-> at, todo |-> sweep[w].todo, kyc |-> sweep[w].kyc, next |-> sweep[w].next]
  BY <1>1 DEF Sweep
<1>3. second = state
  <2>1. [[at |-> at, todo |-> sweep[w].todo, kyc |-> sweep[w].kyc, next |-> sweep[w].next]
            EXCEPT !.next = next] = state
    OBVIOUS
  <2> HIDE DEF first, state
  <2> QED  BY <1>2, <2>1
<1>4. CASE sweep' = [sweep EXCEPT ![w].at = at, ![w].next = next]
  <2>1. sweep' = [sweep EXCEPT ![w] = second]
    BY <1>4 DEF DepositsTypeOK
  <2> QED  BY <1>3, <2>1 DEF GoesOn
<1>5. CASE sweep' = [sweep EXCEPT ![w].at = at] /\ next = sweep[w].next
  <2>1. sweep' = [sweep EXCEPT ![w] = first]
    BY <1>5
  <2> QED  BY <1>2, <1>5, <2>1 DEF GoesOn
<1> QED  BY <1>4, <1>5

LEMMA QueueStep ==
  ASSUME DepositsInv, NEW w \in Sweeps, QueueDeposit(w) PROVE DepositsInv'
<1> USE DEF DepositsInv, RecurringInv
<1> PICK id, row, next : id = DueFirst(w).id /\ row = DueFirst(w) /\ next = clock + PERIOD[row.cadence]
  OBVIOUS
<1>1. sweep[w].at = "next" /\ UNCHANGED <<clock, kycOk, deposit_schedules,
                                          deposit_schedule_executions, edit, mixed, events>>
  BY DEF QueueDeposit, AtRow
<1>2. /\ id \in Schedules /\ Stored(id) /\ w \in HoldersOf(id) /\ row \in sweep[w].todo
      /\ id \notin mixed => HoldersOf(id) = {w}
      /\ next \in Nat /\ next > clock /\ clock \in Nat
  <2>1. /\ id \in Schedules /\ Stored(id) /\ w \in HoldersOf(id) /\ row.cadence \in Cadences
        /\ id \notin mixed => HoldersOf(id) = {w}
    BY <1>1, AtScheduleNow
  <2>2. row \in sweep[w].todo
    BY <1>1, RowInHandIs
  <2>3. clock \in Nat
    BY TypedNow
  <2>4. PERIOD[row.cadence] \in Nat \ {0}
    BY <2>1, DepositSchedulesAssumption
  <2> QED  BY <2>1, <2>2, <2>3, <2>4
<1>3. /\ deposits' \in [Schedules -> [count : Nat, until : Nat]]
      /\ deposits'[id].count = deposits[id].count + 1 /\ deposits'[id].until = next
      /\ \A t \in Schedules : t # id => deposits'[t] = deposits[t]
  <2>1. deposits' = [deposits EXCEPT ![id] = [count |-> @.count + 1, until |-> next]]
    BY DEF QueueDeposit
  <2> QED  BY <1>2, <2>1 DEF DepositsTypeOK
<1>4. sweep' = [sweep EXCEPT ![w].at = "insert", ![w].next = next]
  BY DEF QueueDeposit, NextRunAt
<1>5. GoesOn(w, "insert", next)
  BY <1>2, <1>4, StaysAs
<1>6. /\ sweep' \in [Sweeps -> Sweep]
      /\ \A v \in Sweeps : /\ AtRow(v, "idle")' <=> sweep'[v].todo = {}
                           /\ \A r, other \in sweep'[v].todo : r.id = other.id => r = other
      /\ sweep'[w].at = "insert" /\ sweep'[w].next = next /\ sweep'[w].todo = sweep[w].todo
      /\ DueFirst(w)' = row
      /\ \A v \in Sweeps \ {w} : sweep'[v] = sweep[v] /\ DueFirst(v)' = DueFirst(v)
  BY <1>1, <1>2, <1>5, StayTyped
<1>7. DepositsTypeOK'
  BY <1>1, <1>3, <1>6 DEF DepositsTypeOK
<1>8. /\ \A s : HoldersOf(s)' = HoldersOf(s)
      /\ \A s : s # id => AtWork(s)' = AtWork(s) /\ Inserting(s)' = Inserting(s)
      /\ id \notin mixed => /\ AtWork(id) = {} /\ Inserting(id) = {}
                            /\ AtWork(id)' = {w} /\ Inserting(id)' = {w}
  <2>1. ~Midway(w) /\ ~AtRow(w, "insert") /\ sweep[w].at # "idle"
    BY <1>1 DEF Midway, AtRow
  <2>2. /\ \A s : HoldersOf(s)' = HoldersOf(s)
        /\ \A s : s # id => AtWork(s)' = AtWork(s) /\ Inserting(s)' = Inserting(s)
        /\ id \notin mixed =>
             /\ AtWork(id) = (IF sweep[w].at \in {"insert", "advance"} THEN {w} ELSE {})
             /\ Inserting(id) = (IF sweep[w].at = "insert" THEN {w} ELSE {})
             /\ AtWork(id)' = (IF "insert" \in {"insert", "advance"} THEN {w} ELSE {})
             /\ Inserting(id)' = (IF "insert" = "insert" THEN {w} ELSE {})
    <3> PICK at \in {"insert", "advance", "notify"} : at = "insert"
      OBVIOUS
    <3> HIDE DEF DepositsInv, RecurringInv
    <3>1. \A s : HoldersOf(s)' = HoldersOf(s)
      BY <1>2, <1>5, <2>1, StayStep
    <3>2. \A s : s # id => AtWork(s)' = AtWork(s) /\ Inserting(s)' = Inserting(s)
      BY <1>2, <1>5, <2>1, StayStep
    <3>3. id \notin mixed => AtWork(id) = (IF sweep[w].at \in {"insert", "advance"} THEN {w} ELSE {})
      BY <1>2, <1>5, <2>1, StayStep
    <3>4. id \notin mixed => Inserting(id) = (IF sweep[w].at = "insert" THEN {w} ELSE {})
      BY <1>2, <1>5, <2>1, StayStep
    <3>5. id \notin mixed => AtWork(id)' = (IF at \in {"insert", "advance"} THEN {w} ELSE {})
      BY <1>2, <1>5, <2>1, StayStep
    <3>6. id \notin mixed => Inserting(id)' = (IF at = "insert" THEN {w} ELSE {})
      BY <1>2, <1>5, <2>1, StayStep
    <3> QED  BY <3>1, <3>2, <3>3, <3>4, <3>5, <3>6
  <2> QED  BY <1>1, <2>2
<1>9. \A s \in Schedules : s # id => Until(s)' = Until(s)
  BY <1>3 DEF Until
<1>10. Until(id)' = next
  BY <1>3 DEF Until
<1>11. ASSUME NEW s \in Schedules PROVE ScheduleInv(s)'
  <2>1. CASE s = id
    <3>1. s \notin mixed => deposits[s].count = deposit_schedule_executions[s].success + 0
      BY <1>8, <2>1 DEF ScheduleInv
    <3>2. s \notin mixed => deposits'[s].count = deposit_schedule_executions'[s].success + 1
      BY <1>1, <1>3, <2>1, <3>1 DEF DepositsTypeOK, Executions
    <3> QED  BY <1>1, <1>2, <1>8, <2>1, <3>2 DEF ScheduleInv, Stored
  <2>2. CASE s # id
    BY <1>1, <1>3, <1>8, <1>9, <2>2 DEF ScheduleInv, Stored
  <2> QED  BY <2>1, <2>2
<1>12. ASSUME NEW v \in Sweeps PROVE SweepInv(v)'
  <2>1. ASSUME NEW r \in sweep'[v].todo, r.id # id
        PROVE  /\ Stored(r.id)'
               /\ r.id \notin mixed' /\ (sweep'[v].at = "next" \/ r # DueFirst(v)') => clock' >= Until(r.id)'
    <3>1. r \in sweep[v].todo /\ r.id \in Schedules
      BY <1>6, <2>1 DEF DepositsTypeOK, Sweep, DueRow
    <3>2. r.id \notin mixed /\ (sweep'[v].at = "next" \/ r # DueFirst(v)') => clock >= Until(r.id)
      BY <1>1, <1>2, <1>6, <2>1, <3>1 DEF SweepInv
    <3> QED  BY <1>1, <1>9, <2>1, <3>1, <3>2 DEF SweepInv, Stored
  <2>2. ASSUME NEW r \in sweep'[v].todo, r.id = id
        PROVE  /\ Stored(r.id)'
               /\ r.id \notin mixed' => v = w /\ r = DueFirst(v)' /\ sweep'[v].at # "next"
    <3>1. r \in sweep[v].todo
      BY <1>6, <2>2
    <3>2. v \in HoldersOf(id)
      BY <2>2, <3>1 DEF HoldersOf
    <3>3. v = w => r = row
      BY <1>1, <2>2, <3>1, RowInHandIs
    <3>4. Stored(r.id)'
      BY <1>1, <1>2, <2>2 DEF Stored
    <3>5. ASSUME r.id \notin mixed' PROVE v = w
      BY <1>1, <1>2, <2>2, <3>2, <3>5
    <3> QED  BY <1>6, <3>3, <3>4, <3>5
  <2>3. CASE v = w
    <3>1. Midway(v)' /\ DueFirst(v)'.id \notin mixed' => sweep'[v].next >= Until(DueFirst(v).id)'
      BY <1>2, <1>6, <1>10, <2>3
    <3> QED  BY <2>1, <2>2, <3>1 DEF SweepInv
  <2>4. CASE v # w
    <3>1. ASSUME Midway(v)', DueFirst(v)'.id \notin mixed'
          PROVE  sweep'[v].next >= Until(DueFirst(v).id)'
      <4>1. Midway(v) /\ DueFirst(v)' = DueFirst(v) /\ sweep'[v] = sweep[v] /\ sweep[v].at # "idle"
        BY <1>6, <2>4, <3>1 DEF Midway
      <4>2. DueFirst(v).id # id /\ DueFirst(v).id \in Schedules
        BY <1>1, <1>2, <2>4, <3>1, <4>1, AtScheduleNow
      <4> QED  BY <1>1, <1>9, <3>1, <4>1, <4>2 DEF SweepInv
    <3> QED  BY <2>1, <2>2, <3>1 DEF SweepInv
  <2> QED  BY <2>3, <2>4
<1>13. ASSUME NEW e \in Edits PROVE EditInv(e)'
  <2>1. edit[e].op = "resume" => edit[e].id \in Schedules
    BY TypedNow, EditForms
  <2>2. edit[e].op = "resume" /\ edit[e].id \notin mixed => edit[e].id # id
    BY <1>2 DEF EditInv
  <2> QED  BY <1>1, <1>8, <1>9, <2>1, <2>2 DEF EditInv, Stored
<1> QED  BY <1>7, <1>11, <1>12, <1>13

(* The row of the history, then the date, which leave deposits as they are. *)
LEMMA WriteStep ==
  ASSUME DepositsInv, NEW w \in Sweeps, NEW at \in {"advance", "notify"}, sweep[w].at # "idle",
         GoesOn(w, at, sweep[w].next), Midway(w),
         UNCHANGED <<clock, kycOk, edit, deposits, mixed, events>>,
         deposit_schedule_executions' \in [Schedules -> Executions],
         deposit_schedules' \in [Schedules -> Schedule],
         \A s \in Schedules : Stored(s)' <=> Stored(s),
         \A s \in Schedules : s # DueFirst(w).id =>
           /\ deposit_schedules'[s].next_run_at = deposit_schedules[s].next_run_at
           /\ deposit_schedule_executions'[s].success = deposit_schedule_executions[s].success,
         deposit_schedule_executions'[DueFirst(w).id].success =
           deposit_schedule_executions[DueFirst(w).id].success
             + (IF AtRow(w, "insert") THEN 1 ELSE 0),
         at = "notify" => deposit_schedules'[DueFirst(w).id].next_run_at = sweep[w].next
  PROVE  DepositsInv'
<1> USE DEF DepositsInv, RecurringInv
<1> PICK id, row, next : id = DueFirst(w).id /\ row = DueFirst(w) /\ next = sweep[w].next
  OBVIOUS
<1>1. /\ id \in Schedules /\ Stored(id) /\ w \in HoldersOf(id) /\ row \in sweep[w].todo
      /\ id \notin mixed => HoldersOf(id) = {w}
  BY AtScheduleNow, RowInHandIs
<1>2. next \in Nat /\ at \in {"insert", "advance", "notify"} /\ sweep[w].at # "idle"
  BY DEF DepositsTypeOK, Sweep
<1>3. GoesOn(w, at, next)
  OBVIOUS
<1>4. /\ sweep' \in [Sweeps -> Sweep]
      /\ \A v \in Sweeps : /\ AtRow(v, "idle")' <=> sweep'[v].todo = {}
                           /\ \A r, other \in sweep'[v].todo : r.id = other.id => r = other
      /\ sweep'[w].at = at /\ sweep'[w].next = next /\ sweep'[w].todo = sweep[w].todo
      /\ DueFirst(w)' = row
      /\ \A v \in Sweeps \ {w} : sweep'[v] = sweep[v] /\ DueFirst(v)' = DueFirst(v)
  <2> HIDE DEF DepositsInv, RecurringInv
  <2>1. DepositsTypeOK
    BY DEF DepositsInv
  <2> QED  BY <1>2, <1>3, <2>1, StayTyped
<1>5. DepositsTypeOK'
  BY <1>4 DEF DepositsTypeOK
<1>6. /\ \A s : HoldersOf(s)' = HoldersOf(s)
      /\ \A s : s # id => AtWork(s)' = AtWork(s) /\ Inserting(s)' = Inserting(s)
      /\ id \notin mixed =>
           /\ AtWork(id) = (IF sweep[w].at \in {"insert", "advance"} THEN {w} ELSE {})
           /\ Inserting(id) = (IF sweep[w].at = "insert" THEN {w} ELSE {})
           /\ AtWork(id)' = (IF at \in {"insert", "advance"} THEN {w} ELSE {})
           /\ Inserting(id)' = (IF at = "insert" THEN {w} ELSE {})
  <2> HIDE DEF DepositsInv, RecurringInv
  <2>1. \A s : HoldersOf(s)' = HoldersOf(s)
    BY <1>2, <1>3, StayStep
  <2>2. \A s : s # id => AtWork(s)' = AtWork(s) /\ Inserting(s)' = Inserting(s)
    BY <1>2, <1>3, StayStep
  <2>3. id \notin mixed => AtWork(id) = (IF sweep[w].at \in {"insert", "advance"} THEN {w} ELSE {})
    BY <1>2, <1>3, StayStep
  <2>4. id \notin mixed => Inserting(id) = (IF sweep[w].at = "insert" THEN {w} ELSE {})
    BY <1>2, <1>3, StayStep
  <2>5. id \notin mixed => AtWork(id)' = (IF at \in {"insert", "advance"} THEN {w} ELSE {})
    BY <1>2, <1>3, StayStep
  <2>6. id \notin mixed => Inserting(id)' = (IF at = "insert" THEN {w} ELSE {})
    BY <1>2, <1>3, StayStep
  <2> QED  BY <2>1, <2>2, <2>3, <2>4, <2>5, <2>6
<1>7. \A s : Until(s)' = Until(s)
  BY DEF Until
<1>8. id \notin mixed => next >= Until(id)
  BY DEF SweepInv
<1>9. ASSUME NEW s \in Schedules PROVE ScheduleInv(s)'
  <2>1. CASE s = id
    <3>1. s \notin mixed => deposits'[s].count = deposit_schedule_executions'[s].success + 0
      <4> SUFFICES ASSUME s \notin mixed
                   PROVE  deposits'[s].count = deposit_schedule_executions'[s].success + 0
        OBVIOUS
      <4>1. /\ deposits[s].count = deposit_schedule_executions[s].success
                                     + (IF Inserting(s) # {} THEN 1 ELSE 0)
            /\ Inserting(s) # {} <=> AtRow(w, "insert")
        BY <1>6, <2>1 DEF ScheduleInv, AtRow
      <4>2. deposits'[s].count = deposit_schedule_executions'[s].success
        BY <2>1, <4>1
      <4> QED  BY <2>1, <4>2, <1>5 DEF DepositsTypeOK, Executions
    <3>2. s \notin mixed => Inserting(s)' = {}
      BY <1>6, <2>1
    <3>3. s \notin mixed /\ AtWork(s)' = {} => deposit_schedules'[s].next_run_at >= Until(s)
      BY <1>6, <1>8, <2>1
    <3> QED  BY <1>1, <1>6, <1>7, <2>1, <3>1, <3>2, <3>3 DEF ScheduleInv
  <2>2. CASE s # id
    BY <1>6, <1>7, <2>2 DEF ScheduleInv
  <2> QED  BY <2>1, <2>2
<1>10. ASSUME NEW v \in Sweeps PROVE SweepInv(v)'
  <2>1. ASSUME NEW r \in sweep'[v].todo
        PROVE  /\ Stored(r.id)'
               /\ r.id \notin mixed' /\ (sweep'[v].at = "next" \/ r # DueFirst(v)') => clock' >= Until(r.id)'
    <3>1. r \in sweep[v].todo /\ r.id \in Schedules
      BY <1>4, <2>1 DEF DepositsTypeOK, Sweep, DueRow
    <3>2. r.id \notin mixed /\ (sweep'[v].at = "next" \/ r # DueFirst(v)') => clock >= Until(r.id)
      BY <1>4, <2>1, <3>1 DEF SweepInv
    <3> QED  BY <1>7, <3>1, <3>2 DEF SweepInv
  <2>2. ASSUME Midway(v)', DueFirst(v)'.id \notin mixed'
        PROVE  sweep'[v].next >= Until(DueFirst(v).id)'
    <3>1. /\ Midway(v) /\ DueFirst(v)' = DueFirst(v) /\ sweep'[v].next = sweep[v].next
      BY <1>4, <2>2 DEF Midway
    <3> QED  BY <2>2, <3>1 DEF SweepInv, Until
  <2> QED  BY <2>1, <2>2 DEF SweepInv
<1>11. ASSUME NEW e \in Edits PROVE EditInv(e)'
  BY <1>6, <1>7, TypedNow, EditForms DEF EditInv
<1> QED  BY <1>5, <1>9, <1>10, <1>11

LEMMA InsertStep ==
  ASSUME DepositsInv, NEW w \in Sweeps, InsertExecution(w) PROVE DepositsInv'
<1> PICK id : id = DueFirst(w).id
  OBVIOUS
<1>1. /\ sweep[w].at = "insert" /\ AtRow(w, "insert") /\ Midway(w)
      /\ sweep' = [sweep EXCEPT ![w].at = "advance"]
      /\ UNCHANGED <<clock, kycOk, edit, deposits, mixed, events, deposit_schedules>>
  BY DEF InsertExecution, AtRow, Midway, GotoRow
<1>2. id \in Schedules
  BY <1>1, AtScheduleNow
<1>3. /\ deposit_schedule_executions' \in [Schedules -> Executions]
      /\ deposit_schedule_executions'[id].success = deposit_schedule_executions[id].success + 1
      /\ \A s \in Schedules : s # id =>
           deposit_schedule_executions'[s].success = deposit_schedule_executions[s].success
  <2>1. deposit_schedule_executions' = [deposit_schedule_executions EXCEPT ![id].success = @ + 1]
    BY DEF InsertExecution
  <2> QED  BY <1>2, <2>1 DEF DepositsInv, DepositsTypeOK, Executions
<1>4. deposit_schedules' \in [Schedules -> Schedule] /\ \A s : Stored(s)' <=> Stored(s)
  BY <1>1, TypedNow DEF DepositsInv, Stored
<1>5. GoesOn(w, "advance", sweep[w].next)
  <2>1. sweep[w].next \in Nat
    BY DEF DepositsInv, DepositsTypeOK, Sweep
  <2> QED  BY <1>1, <2>1, StaysAs DEF DepositsInv
<1> QED  BY <1>1, <1>3, <1>4, <1>5, WriteStep

LEMMA AdvanceStep ==
  ASSUME DepositsInv, NEW w \in Sweeps, AdvanceSchedule(w) PROVE DepositsInv'
<1> PICK id, next : id = DueFirst(w).id /\ next = sweep[w].next
  OBVIOUS
<1>1. /\ sweep[w].at = "advance" /\ ~AtRow(w, "insert") /\ Midway(w)
      /\ sweep' = [sweep EXCEPT ![w].at = "notify"]
      /\ UNCHANGED <<clock, kycOk, edit, deposits, mixed, events, deposit_schedule_executions>>
  BY DEF AdvanceSchedule, AtRow, Midway, GotoRow
<1>2. id \in Schedules /\ next \in Nat
  BY <1>1, AtScheduleNow DEF DepositsInv, DepositsTypeOK, Sweep
<1>3. /\ deposit_schedules' \in [Schedules -> Schedule]
      /\ deposit_schedules'[id].next_run_at = next
      /\ \A s \in Schedules : s # id => deposit_schedules'[s] = deposit_schedules[s]
      /\ \A s \in Schedules : Stored(s)' <=> Stored(s)
  <2>1. deposit_schedules' = [deposit_schedules EXCEPT ![id].next_run_at = next]
    BY DEF AdvanceSchedule
  <2> QED  BY <1>2, <2>1, TypedNow DEF DepositsInv, Schedule, Stored
<1>4. /\ deposit_schedule_executions' \in [Schedules -> Executions]
      /\ deposit_schedule_executions'[id].success = deposit_schedule_executions[id].success + 0
  BY <1>1, <1>2 DEF DepositsInv, DepositsTypeOK, Executions
<1>5. GoesOn(w, "notify", sweep[w].next)
  <2>1. sweep[w].next \in Nat
    BY DEF DepositsInv, DepositsTypeOK, Sweep
  <2> QED  BY <1>1, <2>1, StaysAs DEF DepositsInv
<1> QED  BY <1>1, <1>3, <1>4, <1>5, WriteStep

LEMMA StartStep ==
  ASSUME DepositsInv, NEW w \in Sweeps, StartSweep(w) PROVE DepositsInv'
<1> USE DEF DepositsInv, RecurringInv
<1> DEFINE DueRows == {[id |-> s, cadence |-> deposit_schedules[s].cadence,
                        due |-> deposit_schedules[s].next_run_at] : s \in {t \in Schedules : IsDue(t)}}
<1> PICK due, rows : due = {t \in Schedules : IsDue(t)} /\ rows = DueRows
  OBVIOUS
<1> PICK state : state = [at |-> "next", kyc |-> kycOk, next |-> 0, todo |-> rows]
  OBVIOUS
<1>1. /\ sweep[w] = NoSweep /\ due # {} /\ sweep' = [sweep EXCEPT ![w] = state]
      /\ mixed' = mixed \cup (due \cap (InSweeps \cup InResumes))
      /\ UNCHANGED <<clock, kycOk, deposit_schedules, deposit_schedule_executions, edit,
                     deposits, events>>
  BY DEF StartSweep
<1>2. ASSUME NEW s \in due
      PROVE  /\ deposit_schedules[s].status = "active" /\ deposit_schedules[s].next_run_at <= clock
             /\ deposit_schedules[s].cadence \in Cadences /\ deposit_schedules[s].next_run_at \in Nat
             /\ s \in Schedules /\ Stored(s)
  BY TypedNow DEF IsDue, Schedule, Stored
<1>3. rows \in SUBSET DueRow /\ rows # {} /\ \A r \in rows : r.id \in due
  <2>1. rows = {[id |-> s, cadence |-> deposit_schedules[s].cadence,
                 due |-> deposit_schedules[s].next_run_at] : s \in due}
    OBVIOUS
  <2>2. \A s \in due : [id |-> s, cadence |-> deposit_schedules[s].cadence,
                        due |-> deposit_schedules[s].next_run_at] \in DueRow
    BY <1>2 DEF DueRow
  <2>3. \E s : s \in due
    BY <1>1
  <2>4. ASSUME NEW r \in rows PROVE r \in DueRow /\ r.id \in due
    BY <2>1, <2>2
  <2>5. rows # {}
    BY <2>1, <2>3
  <2> QED  BY <2>4, <2>5
<1>4. \A r, other \in rows : r.id = other.id => r = other
  OBVIOUS
<1>5. state \in Sweep /\ state.at = "next" /\ state.todo = rows
  BY <1>3, TypedNow DEF Sweep
<1>6. /\ sweep' \in [Sweeps -> Sweep] /\ sweep'[w] = state
      /\ \A v \in Sweeps \ {w} : sweep'[v] = sweep[v] /\ DueFirst(v)' = DueFirst(v)
  BY <1>1, <1>5 DEF DepositsTypeOK, DueFirst
<1>7. DepositsTypeOK'
  <2>1. ASSUME NEW v \in Sweeps
        PROVE  /\ AtRow(v, "idle")' <=> sweep'[v].todo = {}
               /\ \A r, other \in sweep'[v].todo : r.id = other.id => r = other
    BY <1>3, <1>4, <1>5, <1>6 DEF DepositsTypeOK, AtRow
  <2>2. mixed' \subseteq Schedules
    BY <1>1, TypedNow
  <2> QED  BY <1>1, <1>6, <2>1, <2>2 DEF DepositsTypeOK
<1>8. ASSUME NEW s
      PROVE  AtWork(s)' = AtWork(s) /\ Inserting(s)' = Inserting(s) /\ Until(s)' = Until(s)
  <2>1. ~Midway(w) /\ ~Midway(w)' /\ ~AtRow(w, "insert") /\ ~AtRow(w, "insert")'
    BY <1>1, <1>5, <1>6, NoSweepForms DEF Midway, AtRow
  <2>2. \A v : v \in AtWork(s)' <=> v \in AtWork(s)
    BY <1>6, <2>1 DEF AtWork, Midway
  <2>3. \A v : v \in Inserting(s)' <=> v \in Inserting(s)
    BY <1>6, <2>1 DEF Inserting, AtRow
  <2> QED  BY <1>1, <2>2, <2>3 DEF Until
<1>9. ASSUME NEW s, s \in due, s \notin mixed'
      PROVE  /\ HoldersOf(s) = {} /\ clock >= Until(s)
             /\ \A e \in Edits : ~(edit[e].op = "resume" /\ edit[e].id = s)
  <2>1. HoldersOf(s) = {}
    BY <1>1, <1>9 DEF InSweeps, HoldersOf
  <2>2. AtWork(s) = {}
    BY <1>2, <1>9, <2>1, WorkHolds
  <2>3. deposit_schedules[s].next_run_at >= Until(s)
    BY <1>1, <1>2, <1>9, <2>2 DEF ScheduleInv
  <2>4. clock >= Until(s)
    BY <1>2, <1>9, <2>3, TypedNow
  <2> QED  BY <1>1, <1>9, <2>1, <2>4 DEF InResumes
<1>10. ASSUME NEW s, s \notin mixed'
       PROVE  /\ s \in due => HoldersOf(s)' \subseteq {w}
              /\ s \notin due => HoldersOf(s)' \subseteq HoldersOf(s)
  <2>1. ASSUME NEW v \in Sweeps \ {w} PROVE v \in HoldersOf(s)' <=> v \in HoldersOf(s)
    BY <1>6 DEF HoldersOf
  <2>2. s \notin due => w \notin HoldersOf(s)'
    BY <1>3, <1>5, <1>6 DEF HoldersOf
  <2>3. HoldersOf(s)' \subseteq Sweeps
    BY DEF HoldersOf
  <2> QED  BY <1>9, <1>10, <2>1, <2>2, <2>3
<1>11. ASSUME NEW s \in Schedules PROVE ScheduleInv(s)'
  <2>1. \A u, v \in HoldersOf(s)' : s \notin mixed' => u = v
    BY <1>1, <1>10 DEF ScheduleInv
  <2> QED  BY <1>1, <1>8, <2>1 DEF ScheduleInv, Stored
<1>12. ASSUME NEW v \in Sweeps PROVE SweepInv(v)'
  <2>1. CASE v = w
    <3>1. ASSUME NEW r \in rows
          PROVE  Stored(r.id)' /\ (r.id \notin mixed' => clock' >= Until(r.id)')
      <4>1. Stored(r.id) /\ (r.id \notin mixed' => clock >= Until(r.id))
        BY <1>2, <1>3, <1>9
      <4> QED  BY <1>1, <1>8, <4>1 DEF Stored
    <3> QED  BY <1>5, <1>6, <2>1, <3>1 DEF SweepInv, Midway
  <2>2. CASE v # w
    <3>1. \A s : Until(s)' = Until(s) /\ (Stored(s)' <=> Stored(s))
      BY <1>1 DEF Until, Stored
    <3> QED  BY <1>1, <1>6, <2>2, <3>1 DEF SweepInv, Midway, Until
  <2> QED  BY <2>1, <2>2
<1>13. ASSUME NEW e \in Edits PROVE EditInv(e)'
  <2>1. edit[e].op = "resume" /\ edit[e].id \notin mixed' => edit[e].id \notin due
    BY <1>9
  <2>2. edit[e].op = "resume" /\ edit[e].id \notin mixed' => HoldersOf(edit[e].id)' = {}
    <3> PICK id : id = edit[e].id
      OBVIOUS
    <3>1. edit[e].op = "resume" /\ id \notin mixed' => HoldersOf(id)' = {}
      BY <1>1, <1>10, <2>1 DEF EditInv
    <3> QED  BY <1>1, <3>1
  <2> QED  BY <1>1, <2>2 DEF EditInv, Stored, Until
<1> QED  BY <1>7, <1>11, <1>12, <1>13

LEMMA DepositsStep ==
  ASSUME DepositsInv, [DepositsNext]_scheduleVars PROVE DepositsInv'
<1>1. ASSUME NEW e \in Edits, NEW s \in Schedules, NEW c \in Cadences,
             NEW start \in 1..MAX_CLOCK \cup {NextRunAt(c, clock)}, StoreSchedule(e, s, c, start)
      PROVE  DepositsInv'
  <2>1. clock \in Nat /\ PERIOD[c] \in Nat /\ MAX_CLOCK \in Nat
    BY TypedNow, DepositSchedulesAssumption DEF DepositsInv
  <2>2. start \in Nat
    BY <2>1 DEF NextRunAt
  <2> QED  BY <1>1, <2>2, StoreStep
<1>2. ASSUME NEW s \in Schedules, PauseSchedule(s) \/ CancelSchedule(s) PROVE DepositsInv'
  BY <1>2, SetStep DEF PauseSchedule, CancelSchedule
<1>3. ASSUME NEW e \in Edits, EditStep(e) PROVE DepositsInv'
  BY <1>1, <1>3, CreateStep, ResumeWrittenStep, PatchWrittenStep, EditBreaksStep, PatchStep,
     ResumeStep
  DEF EditStep
<1>4. ASSUME NEW w \in Sweeps, SweepWorks(w) \/ RowFails(w) \/ SweepDies(w) PROVE DepositsInv'
  BY <1>4, StartStep, QueueStep, InsertStep, AdvanceStep, LeaveSteps DEF SweepWorks
<1>5. CASE KycChanges \/ ClockTicks \/ UNCHANGED scheduleVars
  BY <1>5, WorldStep
<1> QED  BY <1>2, <1>3, <1>4, <1>5 DEF DepositsNext

LEMMA DepositsInvariance == DepositsSpec => []DepositsInv
<1>1. DepositsInv /\ [DepositsNext]_scheduleVars => DepositsInv'
  BY DepositsStep
<1> QED  BY <1>1, DepositsInitially, PTL DEF DepositsSpec

(* Types, and a run holds each schedule once, for any number of requests and    *)
(* of runs of the job that overlap.                                            *)
THEOREM DepositsAreTyped == DepositsSpec => []DepositsTypeOK
<1>1. DepositsInv => DepositsTypeOK
  BY DEF DepositsInv
<1> QED  BY <1>1, DepositsInvariance, PTL

(* The rows of the history are the deposits that processScheduledDeposits      *)
(* queued, but for one between the queue and the insert, of any schedule that  *)
(* no two runs, or a run and a resume, had in hand at once.                     *)
THEOREM HistoryTellsDeposits == DepositsSpec => []ExecutionsTellQueue
<1>1. ASSUME DepositsInv PROVE ExecutionsTellQueue
  <2>1. ASSUME NEW s \in Schedules \ mixed
        PROVE  deposits[s].count = deposit_schedule_executions[s].success
                 + (IF \E w \in Sweeps : AtRow(w, "insert") /\ DueFirst(w).id = s THEN 1 ELSE 0)
    <3>1. Inserting(s) # {} <=> \E w \in Sweeps : AtRow(w, "insert") /\ DueFirst(w).id = s
      BY DEF Inserting
    <3>2. deposits[s].count = deposit_schedule_executions[s].success
                                + (IF Inserting(s) # {} THEN 1 ELSE 0)
      BY <1>1 DEF DepositsInv, RecurringInv, ScheduleInv
    <3> QED  BY <3>1, <3>2
  <2> QED  BY <2>1 DEF ExecutionsTellQueue
<1> QED  BY <1>1, DepositsInvariance, PTL

(* No deposit is queued before the period of the one before it is over, in any *)
(* order of pauses, resumes, edits, runs that fail and runs that die.          *)
THEOREM PeriodsAreKept == DepositsSpec => DepositsSpaced
<1> DEFINE Spaced == \A s \in Schedules \ mixed' :
                       deposits'[s].count > deposits[s].count => clock >= deposits[s].until
<1>1. ASSUME DepositsInv, [DepositsNext]_scheduleVars PROVE [Spaced]_scheduleVars
  <2>1. ASSUME NEW w \in Sweeps, QueueDeposit(w) PROVE Spaced
    <3> PICK row, next : row = DueFirst(w) /\ next = clock + PERIOD[row.cadence]
      OBVIOUS
    <3>1. sweep[w].at = "next" /\ mixed' = mixed
      BY <2>1 DEF QueueDeposit, AtRow
    <3>2. row \in sweep[w].todo
      BY <1>1, <3>1, RowInHandIs DEF DepositsInv
    <3>3. row.id \notin mixed => clock >= deposits[row.id].until
      BY <1>1, <3>1, <3>2 DEF DepositsInv, RecurringInv, SweepInv, Until
    <3>4. deposits' = [deposits EXCEPT ![row.id] = [count |-> @.count + 1, until |-> next]]
      BY <2>1 DEF QueueDeposit
    <3>5. deposits \in [Schedules -> [count : Nat, until : Nat]]
      BY <1>1 DEF DepositsInv, DepositsTypeOK
    <3>6. ASSUME NEW s \in Schedules, s # row.id PROVE deposits'[s] = deposits[s]
      BY <3>4, <3>5, <3>6
    <3> QED  BY <3>1, <3>3, <3>5, <3>6
  <2>2. CASE UNCHANGED deposits
    <3>1. ASSUME NEW s \in Schedules PROVE ~(deposits'[s].count > deposits[s].count)
      BY <1>1, <2>2 DEF DepositsInv, DepositsTypeOK
    <3> QED  BY <3>1
  <2>3. (\E w \in Sweeps : QueueDeposit(w)) \/ UNCHANGED deposits
    BY <1>1
    DEF DepositsNext, EditStep, SweepWorks, KycChanges, ClockTicks, PauseSchedule,
        CancelSchedule, SetSchedule, CreateSchedule, ResumeWritten, PatchWritten, EditBreaks,
        StoreSchedule, PatchSchedule, ResumeSchedule, StartSweep, SkipRow, InsertExecution,
        AdvanceSchedule, NotifyDeposit, RowFails, SweepDies, scheduleVars
  <2> QED  BY <2>1, <2>2, <2>3
<1> QED  BY <1>1, DepositsInvariance, PTL DEF DepositsSpec, DepositsSpaced

-----------------------------------------------------------------------------

(* Reports *)

Claimed == [id : Nat, attempts : Nat]

PassState ==
  {NoPass} \cup [at : {"link", "mark", "catch"}, todo : SUBSET Claimed]
           \cup [at : {"mail"}, todo : SUBSET Claimed, link : Nat]

Clean(d) == d \notin strained /\ Row(d).status # "deleted"

PassesWith(d) == {x \in Passes : \E row \in pass[x].todo : row.id = d}

Marking(d) == {x \in Passes : PassAt(x, "mark") /\ AtHand(x).id = d}

TablesInv ==
  /\ slot \in 0..MAX_SLOTS /\ report_schedule \in ReportSchedule /\ put \in [Puts -> Put]
  /\ compliance_reports \in Seq(1..MAX_SLOTS)
  /\ compliance_report_deliveries \in Seq(Delivery)
  /\ links \in Seq(Nat) /\ mailed \in Seq(SUBSET Nat)
  /\ Len(compliance_report_deliveries) = RECIPIENTS * Len(compliance_reports)
  /\ Len(links) = Len(compliance_report_deliveries)
  /\ Len(mailed) = Len(compliance_report_deliveries)
  /\ pass \in [Passes -> PassState]
  /\ strained \subseteq Deliveries

(* A slot that was slept through is not the next one of a schedule that runs,  *)
(* nor will it be, by an edit that is in progress.                             *)
SlotsInv ==
  /\ slept \subseteq 1..slot
  /\ \A i \in DOMAIN compliance_reports : compliance_reports[i] \in (1..slot) \ slept
  /\ report_schedule.next_run_at \in slept => report_schedule.is_paused
  /\ \A e \in Puts :
       /\ put[e] = NoPut \/ put[e].op # "none"
       /\ put[e].next \notin slept
       /\ put[e].op = "resume" /\ put[e].next = 0 => report_schedule.next_run_at \notin slept

PassInv(x) ==
  /\ PassAt(x, "idle") <=> pass[x].todo = {}
  /\ \A row, other \in pass[x].todo : row.id = other.id => row = other
  /\ \A row \in pass[x].todo : row.id \in Deliveries /\ row.attempts < MAX_DELIVERY_ATTEMPTS
  /\ PassAt(x, "mail") => pass[x].link \in 1..links[AtHand(x).id]

(* What a pass has in hand is as the row tells: the link it is to mail, or has *)
(* mailed, is the one that opens the report.                                   *)
MailInv(x) ==
  /\ PassAt(x, "mark") => mailed[AtHand(x).id] # {}
  /\ ~PassAt(x, "idle") /\ Clean(AtHand(x).id) =>
       /\ PassAt(x, "mail") => Row(AtHand(x).id).link = pass[x].link
       /\ PassAt(x, "mark") => mailed[AtHand(x).id] = {Row(AtHand(x).id).link}

(* While claims keep to their lease, a delivery is in hand of one pass at most, *)
(* and out of reach of the others.                                             *)
RowInv(d) ==
  /\ mailed[d] \subseteq 1..links[d]
  /\ Row(d).status = "pending" => Row(d).attempts < MAX_DELIVERY_ATTEMPTS
  /\ Row(d).status = "sent" => mailed[d] # {}
  /\ d \notin strained =>
       /\ Row(d).status = "sent" => mailed[d] = {Row(d).link}
       /\ Row(d).status = "failed" => mailed[d] = {}
       /\ Row(d).status = "pending" /\ Marking(d) = {} => mailed[d] = {}
       /\ Row(d).status # "deleted" =>
            /\ \A x, y \in PassesWith(d) : x = y
            /\ PassesWith(d) # {} => Row(d).status = "pending" /\ Row(d).wait > 0

MailsInv ==
  /\ \A x \in Passes : PassInv(x) /\ MailInv(x)
  /\ \A d \in Deliveries : RowInv(d)

ReportsInv == TablesInv /\ SlotsInv /\ MailsInv

LEMMA PassForms ==
  /\ NoPass \in PassState /\ NoPass.at = "idle" /\ NoPass.todo = {}
  /\ \A q \in PassState :
       /\ q.at \in {"idle", "link", "mail", "mark", "catch"} /\ q.todo \in SUBSET Claimed
       /\ q.at = "mail" => q.link \in Nat
  /\ \A rows \in SUBSET Claimed, at \in {"link", "mark", "catch"} :
       /\ [at |-> at, todo |-> rows] \in PassState
       /\ [at |-> at, todo |-> rows].at = at /\ [at |-> at, todo |-> rows].todo = rows
  /\ \A rows \in SUBSET Claimed, n \in Nat :
       /\ [at |-> "mail", todo |-> rows, link |-> n] \in PassState
       /\ [at |-> "mail", todo |-> rows, link |-> n].at = "mail"
       /\ [at |-> "mail", todo |-> rows, link |-> n].todo = rows
       /\ [at |-> "mail", todo |-> rows, link |-> n].link = n
<1>1. NoPass \in PassState /\ NoPass.at = "idle" /\ NoPass.todo = {}
  BY DEF PassState, NoPass
<1>2. ASSUME NEW q \in PassState
      PROVE  /\ q.at \in {"idle", "link", "mail", "mark", "catch"} /\ q.todo \in SUBSET Claimed
             /\ q.at = "mail" => q.link \in Nat
  BY DEF PassState, NoPass
<1>3. ASSUME NEW rows \in SUBSET Claimed, NEW at \in {"link", "mark", "catch"}
      PROVE  /\ [at |-> at, todo |-> rows] \in PassState
             /\ [at |-> at, todo |-> rows].at = at /\ [at |-> at, todo |-> rows].todo = rows
  BY DEF PassState
<1>4. ASSUME NEW rows \in SUBSET Claimed, NEW n \in Nat
      PROVE  /\ [at |-> "mail", todo |-> rows, link |-> n] \in PassState
             /\ [at |-> "mail", todo |-> rows, link |-> n].at = "mail"
             /\ [at |-> "mail", todo |-> rows, link |-> n].todo = rows
             /\ [at |-> "mail", todo |-> rows, link |-> n].link = n
  BY DEF PassState
<1> QED  BY <1>1, <1>2, <1>3, <1>4

(* The tables as functions. *)
LEMMA TablesNow ==
  ASSUME TablesInv
  PROVE  /\ Deliveries = DOMAIN compliance_report_deliveries
         /\ Deliveries = 1..Len(compliance_report_deliveries)
         /\ Len(compliance_report_deliveries) \in Nat
         /\ compliance_report_deliveries \in [Deliveries -> Delivery]
         /\ links \in [Deliveries -> Nat] /\ mailed \in [Deliveries -> SUBSET Nat]
BY DEF TablesInv, Deliveries

LEMMA FunctionIsSeq ==
  ASSUME NEW n \in Nat, NEW T, NEW f \in [1..n -> T]
  PROVE  f \in Seq(T) /\ Len(f) = n
OBVIOUS

LEMMA TablesStay ==
  ASSUME TablesInv,
         slot' \in 0..MAX_SLOTS, report_schedule' \in ReportSchedule, put' \in [Puts -> Put],
         UNCHANGED compliance_reports,
         compliance_report_deliveries' \in [Deliveries -> Delivery],
         links' \in [Deliveries -> Nat], mailed' \in [Deliveries -> SUBSET Nat],
         pass' \in [Passes -> PassState], strained' \subseteq Deliveries
  PROVE  TablesInv' /\ Deliveries' = Deliveries
<1> PICK n \in Nat : n = Len(compliance_report_deliveries) /\ Deliveries = 1..n
  BY TablesNow
<1>1. /\ compliance_report_deliveries' \in Seq(Delivery) /\ Len(compliance_report_deliveries') = n
      /\ links' \in Seq(Nat) /\ Len(links') = n
      /\ mailed' \in Seq(SUBSET Nat) /\ Len(mailed') = n
  BY FunctionIsSeq
<1>2. Deliveries' = Deliveries
  BY <1>1 DEF Deliveries
<1>3. n = RECIPIENTS * Len(compliance_reports)
  BY DEF TablesInv
<1> QED  BY <1>1, <1>2, <1>3 DEF TablesInv

LEMMA LowestIs ==
  ASSUME NEW rows \in SUBSET Claimed, rows # {}
  PROVE  LowestId(rows) \in rows
<1>1. \A row \in rows : row.id \in Nat
  BY DEF Claimed
<1>2. PICK n \in {row.id : row \in rows} : \A m \in {row.id : row \in rows} : n <= m
  BY ZenonT(40), <1>1, LeastNat
<1>3. \E row \in rows : \A other \in rows : row.id <= other.id
  BY <1>2
<1> QED  BY <1>3 DEF LowestId

(* What a pass has in hand. *)
LEMMA HandNow ==
  ASSUME ReportsInv, NEW x \in Passes, ~PassAt(x, "idle")
  PROVE  /\ pass[x] \in PassState /\ pass[x].todo \in SUBSET Claimed
         /\ AtHand(x) \in pass[x].todo /\ AtHand(x).id \in Deliveries
         /\ AtHand(x).attempts \in Nat /\ AtHand(x).attempts < MAX_DELIVERY_ATTEMPTS
         /\ x \in PassesWith(AtHand(x).id)
         /\ \A row \in pass[x].todo : row.id = AtHand(x).id => row = AtHand(x)
<1>1. pass[x] \in PassState
  BY DEF ReportsInv, TablesInv
<1>2. pass[x].todo \in SUBSET Claimed
  BY <1>1, PassForms
<1>3. PassInv(x)
  BY DEF ReportsInv, MailsInv
<1>4. AtHand(x) \in pass[x].todo
  BY <1>2, <1>3, LowestIs DEF AtHand, PassInv
<1>5. AtHand(x).attempts \in Nat
  BY <1>2, <1>4 DEF Claimed
<1> QED  BY <1>1, <1>2, <1>3, <1>4, <1>5 DEF PassInv, PassesWith

(* ... and who else has it, while claims keep to their lease. *)
LEMMA CleanHand ==
  ASSUME ReportsInv, NEW x \in Passes, ~PassAt(x, "idle"), Clean(AtHand(x).id)
  PROVE  /\ PassesWith(AtHand(x).id) = {x}
         /\ Row(AtHand(x).id).status = "pending" /\ Row(AtHand(x).id).wait > 0
         /\ ~PassAt(x, "mark") => mailed[AtHand(x).id] = {} /\ Marking(AtHand(x).id) = {}
<1> PICK d \in Deliveries : d = AtHand(x).id
  BY HandNow
<1>1. x \in PassesWith(d) /\ RowInv(d)
  BY HandNow DEF ReportsInv, MailsInv
<1>2. PassesWith(d) = {x} /\ Row(d).status = "pending" /\ Row(d).wait > 0
  BY <1>1 DEF RowInv, Clean
<1>3. Marking(d) \subseteq PassesWith(d)
  BY HandNow DEF Marking, PassAt
<1>4. ~PassAt(x, "mark") => Marking(d) = {}
  BY <1>2, <1>3 DEF Marking
<1> QED  BY <1>1, <1>2, <1>4 DEF RowInv, Clean

-----------------------------------------------------------------------------
(* A pass works on its row *)

(* A pass changes itself to q, and of the tables the row d at hand. *)
Touches(x, d, q) ==
  /\ ~PassAt(x, "idle") /\ d \in Deliveries /\ d = AtHand(x).id
  /\ q \in PassState /\ pass' = [pass EXCEPT ![x] = q] /\ q.todo \subseteq pass[x].todo
  /\ UNCHANGED <<slot, report_schedule, put, compliance_reports, slept>>
  /\ compliance_report_deliveries' \in [Deliveries -> Delivery] /\ Deliveries' = Deliveries
  /\ links' \in [Deliveries -> Nat] /\ mailed' \in [Deliveries -> SUBSET Nat]
  /\ \A e \in Deliveries : e # d =>
       /\ compliance_report_deliveries'[e] = compliance_report_deliveries[e]
       /\ links'[e] = links[e] /\ mailed'[e] = mailed[e]
  /\ Row(d).status = "deleted" => compliance_report_deliveries'[d].status = "deleted"
  /\ links'[d] >= links[d] /\ mailed[d] \subseteq mailed'[d]
  /\ strained \subseteq strained' /\ strained' \subseteq Deliveries

(* The other rows and passes then. *)
LEMMA OthersKeep ==
  ASSUME ReportsInv, NEW x \in Passes, NEW d, NEW q, Touches(x, d, q)
  PROVE  /\ \A e \in Deliveries : e # d => RowInv(e)'
         /\ \A y \in Passes : y # x => PassInv(y)' /\ MailInv(y)'
         /\ PassesWith(d)' \subseteq PassesWith(d)
         /\ (\A row \in q.todo : row.id # d) => x \notin PassesWith(d)'
         /\ \A y \in Passes : y # x => (y \in Marking(d)' <=> y \in Marking(d))
<1> USE DEF Touches
<1>1. pass'[x] = q /\ \A y \in Passes : y # x => pass'[y] = pass[y]
  BY DEF ReportsInv, TablesInv
<1>2. \A y \in Passes : y # x => /\ AtHand(y)' = AtHand(y)
                                 /\ \A place : PassAt(y, place)' <=> PassAt(y, place)
  BY <1>1 DEF AtHand, PassAt
<1>3. \A y \in Passes : pass'[y].todo \subseteq pass[y].todo
  BY <1>1
<1>4. ASSUME NEW e PROVE PassesWith(e)' \subseteq PassesWith(e)
  BY <1>3 DEF PassesWith
<1>5. (\A row \in q.todo : row.id # d) => x \notin PassesWith(d)'
  BY <1>1 DEF PassesWith
<1>6. ASSUME NEW e, NEW y \in Passes, y # x PROVE y \in Marking(e)' <=> y \in Marking(e)
  BY <1>2, <1>6 DEF Marking
<1>7. ASSUME NEW e \in Deliveries, e # d PROVE RowInv(e)'
  <2>1. RowInv(e)
    BY DEF ReportsInv, MailsInv
  <2>2. Marking(e)' = {} => Marking(e) = {}
    <3>1. x \notin Marking(e)
      BY <1>7 DEF Marking
    <3>2. Marking(e) \subseteq Passes
      BY DEF Marking
    <3> QED  BY <1>6, <3>1, <3>2
  <2>3. PassesWith(e)' # {} => PassesWith(e) # {}
    BY <1>4
  <2>4. \A y, z \in PassesWith(e)' : y \in PassesWith(e) /\ z \in PassesWith(e)
    BY <1>4
  <2>5. Row(e)' = Row(e) /\ mailed'[e] = mailed[e] /\ links'[e] = links[e] /\ (e \notin strained' => e \notin strained)
    BY <1>7 DEF Row
  <2> QED  BY <2>1, <2>2, <2>3, <2>4, <2>5 DEF RowInv
<1>8. ASSUME NEW y \in Passes, y # x PROVE PassInv(y)' /\ MailInv(y)'
  <2> PICK e : e = AtHand(y).id
    OBVIOUS
  <2>1. PassInv(y) /\ MailInv(y)
    BY DEF ReportsInv, MailsInv
  <2>2. /\ AtHand(y)' = AtHand(y) /\ AtHand(y)'.id = e /\ pass'[y] = pass[y]
        /\ \A place : PassAt(y, place)' <=> PassAt(y, place)
    BY <1>1, <1>2, <1>8
  <2>3. ~PassAt(y, "idle") => e \in Deliveries /\ y \in PassesWith(e)
    BY HandNow
  <2>4. PassAt(y, "mail") \/ PassAt(y, "mark") => ~PassAt(y, "idle")
    BY DEF PassAt
  <2>5. ASSUME ~PassAt(y, "idle")
        PROVE  /\ links'[e] >= links[e] /\ links[e] \in Nat /\ links'[e] \in Nat
               /\ mailed[e] \subseteq mailed'[e]
    <3>1. links[e] \in Nat
      BY <2>3, <2>5, TablesNow DEF ReportsInv
    <3> QED  BY <2>3, <2>5, <3>1
  <2>6. PassInv(y)'
    <3>1. PassAt(y, "mail") => pass[y].link \in 1..links'[e]
      BY <2>1, <2>4, <2>5 DEF PassInv
    <3> QED  BY <2>1, <2>2, <3>1 DEF PassInv
  <2>7. ASSUME ~PassAt(y, "idle"), e \notin strained', Row(e)'.status # "deleted"
        PROVE  Clean(e) /\ Row(e)' = Row(e) /\ mailed'[e] = mailed[e]
    <3>1. Clean(e)
      BY <2>3, <2>7 DEF Clean, Row
    <3>2. e # d
      BY <1>8, <2>3, <2>7, <3>1, CleanHand
    <3> QED  BY <2>3, <2>7, <3>1, <3>2 DEF Row
  <2>8. PassAt(y, "mark") => mailed'[e] # {}
    BY <2>1, <2>4, <2>5 DEF MailInv
  <2>9. ~PassAt(y, "idle") /\ e \notin strained' /\ Row(e)'.status # "deleted" =>
          /\ PassAt(y, "mail") => Row(e)'.link = pass[y].link
          /\ PassAt(y, "mark") => mailed'[e] = {Row(e)'.link}
    BY <2>1, <2>7 DEF MailInv
  <2> QED  BY <2>2, <2>6, <2>8, <2>9 DEF MailInv, Clean, Row
<1> QED  BY <1>4, <1>5, <1>6, <1>7, <1>8

LEMMA UpdateTyped ==
  ASSUME TablesInv, NEW d \in Deliveries, NEW row \in Delivery, UpdateDelivery(d, row)
  PROVE  /\ compliance_report_deliveries' \in [Deliveries -> Delivery]
         /\ \A e \in Deliveries : e # d =>
              compliance_report_deliveries'[e] = compliance_report_deliveries[e]
         /\ Row(d).status = "deleted" => compliance_report_deliveries'[d] = Row(d)
         /\ Row(d).status # "deleted" => compliance_report_deliveries'[d] = row
BY TablesNow DEF UpdateDelivery, Row

LEMMA SlotsKeep ==
  ASSUME SlotsInv, UNCHANGED <<slot, report_schedule, put, compliance_reports, slept>>
  PROVE  SlotsInv'
BY DEF SlotsInv

LEMMA LeaveForms ==
  ASSUME ReportsInv, NEW x \in Passes, ~PassAt(x, "idle"),
         LeaveDelivery(x) \/ pass' = [pass EXCEPT ![x] = NoPass]
  PROVE  \E q \in PassState :
           /\ pass' = [pass EXCEPT ![x] = q]
           /\ q.todo \subseteq pass[x].todo \ {AtHand(x)} /\ q.at \in {"idle", "link"}
           /\ q.at = "idle" <=> q.todo = {}
           /\ \A row \in q.todo : row.id # AtHand(x).id
<1> DEFINE rest == pass[x].todo \ {AtHand(x)}
<1>1. rest \in SUBSET Claimed /\ \A row \in rest : row.id # AtHand(x).id
  BY HandNow
<1>2. CASE rest = {} \/ pass' = [pass EXCEPT ![x] = NoPass]
  <2>1. pass' = [pass EXCEPT ![x] = NoPass]
    BY <1>2 DEF LeaveDelivery
  <2> QED  BY <2>1, PassForms
<1>3. CASE rest # {} /\ LeaveDelivery(x)
  <2>1. pass' = [pass EXCEPT ![x] = [at |-> "link", todo |-> rest]]
    BY <1>3 DEF LeaveDelivery
  <2>2. /\ [at |-> "link", todo |-> rest] \in PassState
        /\ [at |-> "link", todo |-> rest].at = "link" /\ [at |-> "link", todo |-> rest].todo = rest
    BY <1>1, PassForms
  <2> QED  BY <1>1, <1>3, <2>1, <2>2
<1> QED  BY <1>2, <1>3

(* Enough, for a step of a pass: the row at hand, and the pass. *)
LEMMA PassStep ==
  ASSUME ReportsInv, NEW x \in Passes, NEW d, NEW q, Touches(x, d, q),
         q.at = "idle" <=> q.todo = {},
         q.at = "mail" => q.todo = pass[x].todo /\ q.link \in 1..links'[d],
         MailInv(x)', RowInv(d)'
  PROVE  ReportsInv'
<1>1. pass' \in [Passes -> PassState] /\ pass'[x] = q
  BY DEF ReportsInv, TablesInv, Touches
<1>2. TablesInv' /\ Deliveries' = Deliveries
  BY <1>1, TablesStay DEF ReportsInv, TablesInv, Touches
<1>4. /\ \A e \in Deliveries : e # d => RowInv(e)'
      /\ \A y \in Passes : y # x => PassInv(y)' /\ MailInv(y)'
  BY <1>2, OthersKeep
<1>5. PassInv(x)'
  <2>1. PassInv(x)
    BY DEF ReportsInv, MailsInv
  <2>2. q.at = "mail" => AtHand(x)' = AtHand(x)
    BY <1>1 DEF AtHand
  <2> QED  BY <1>1, <1>2, <2>1, <2>2 DEF PassInv, PassAt, Touches
<1>6. MailsInv'
  BY <1>2, <1>4, <1>5 DEF MailsInv
<1>7. SlotsInv'
  BY SlotsKeep DEF ReportsInv, Touches
<1> QED  BY <1>2, <1>6, <1>7 DEF ReportsInv

(* A pass that leaves its row, or dies, or turns to the catch, has nothing of  *)
(* it to tell; the row is as it was, or as the pass has written it.            *)
LEMMA RowDone ==
  ASSUME ReportsInv, NEW x \in Passes, NEW d, NEW q, Touches(x, d, q),
         q.at \notin {"mail", "mark"}, mailed' = mailed, links' = links,
         PassAt(x, "mark") => d \in strained', compliance_report_deliveries'[d] = Row(d)
  PROVE  RowInv(d)' /\ MailInv(x)'
<1>1. pass'[x] = q /\ \A y \in Passes : y # x => pass'[y] = pass[y]
  BY DEF ReportsInv, TablesInv, Touches
<1>2. MailInv(x)'
  BY <1>1 DEF MailInv, PassAt
<1>3. RowInv(d)
  BY DEF ReportsInv, MailsInv, Touches
<1>4. Row(d)' = Row(d)
  BY DEF Row
<1>5. /\ PassesWith(d)' \subseteq PassesWith(d)
      /\ \A y \in Passes : y # x => (y \in Marking(d)' <=> y \in Marking(d))
  BY OthersKeep
<1>6. d \notin strained' => x \notin Marking(d)
  BY DEF Marking
<1>7. d \notin strained' /\ Marking(d)' = {} => Marking(d) = {}
  <2>1. Marking(d) \subseteq Passes
    BY DEF Marking
  <2> QED  BY <1>5, <1>6, <2>1
<1>8. \A y, z \in PassesWith(d)' : y \in PassesWith(d) /\ z \in PassesWith(d)
  BY <1>5
<1>9. PassesWith(d)' # {} => PassesWith(d) # {}
  BY <1>5
<1>10. d \notin strained' => d \notin strained
  BY DEF Touches
<1>11. RowInv(d)'
  BY <1>3, <1>4, <1>7, <1>8, <1>9, <1>10 DEF RowInv
<1> QED  BY <1>2, <1>11

LEMMA PassDiesStep ==
  ASSUME ReportsInv, NEW x \in Passes, PassDies(x) \/ TryBreaks(x)
  PROVE  ReportsInv'
<1>1. ~PassAt(x, "idle") /\ pass[x] \in PassState
  BY ZenonT(40), PassForms DEF PassDies, TryBreaks, PassAt, NoPass, PassState, ReportsInv, TablesInv
<1> PICK d \in Deliveries : d = AtHand(x).id
  BY <1>1, HandNow
<1>2. PICK q \in PassState :
        /\ pass' = [pass EXCEPT ![x] = q] /\ q.todo \subseteq pass[x].todo
        /\ q.at \notin {"mail", "mark"} /\ (q.at = "idle" <=> q.todo = {})
  <2>1. CASE PassDies(x)
    BY <2>1, PassForms DEF PassDies
  <2>2. CASE TryBreaks(x)
    <3>1. pass' = [pass EXCEPT ![x].at = "catch"] /\ pass[x].at \in {"link", "mark"}
      BY <2>2 DEF TryBreaks, GotoStep, PassAt
    <3>2. pass[x].todo \in SUBSET Claimed /\ pass[x].todo # {}
      BY <1>1, HandNow
    <3>3. [pass[x] EXCEPT !.at = "catch"] = [at |-> "catch", todo |-> pass[x].todo]
      BY <1>1, <3>1 DEF PassState, NoPass
    <3> PICK q : q = [at |-> "catch", todo |-> pass[x].todo]
      OBVIOUS
    <3>4. q \in PassState /\ q.at = "catch" /\ q.todo = pass[x].todo
      BY <3>2, PassForms
    <3>5. pass' = [pass EXCEPT ![x] = q]
      BY <3>1, <3>3
    <3> QED  BY <3>2, <3>4, <3>5
  <2> QED  BY <2>1, <2>2
<1>3. /\ UNCHANGED <<slot, report_schedule, put, compliance_reports, compliance_report_deliveries,
                     links, mailed, slept>>
      /\ strained' = IF PassAt(x, "mark") THEN strained \cup {d} ELSE strained
  BY DEF PassDies, TryBreaks
<1>4. /\ compliance_report_deliveries' \in [Deliveries -> Delivery]
      /\ links' \in [Deliveries -> Nat] /\ mailed' \in [Deliveries -> SUBSET Nat]
      /\ strained \subseteq strained' /\ strained' \subseteq Deliveries
      /\ Deliveries' = Deliveries /\ links[d] \in Nat
  BY <1>3, TablesNow DEF ReportsInv, TablesInv, Deliveries
<1>5. Touches(x, d, q)
  BY <1>1, <1>2, <1>3, <1>4 DEF Touches, Row
<1>6. RowInv(d)' /\ MailInv(x)'
  BY <1>2, <1>3, <1>5, RowDone DEF Row
<1> QED  BY <1>2, <1>5, <1>6, PassStep

LEMMA MarkStep ==
  ASSUME ReportsInv, NEW x \in Passes, MarkSent(x) PROVE ReportsInv'
<1>1. ~PassAt(x, "idle") /\ PassAt(x, "mark")
  BY DEF MarkSent, PassAt
<1> PICK d \in Deliveries, n \in Nat : d = AtHand(x).id /\ n = AtHand(x).attempts + 1
  BY <1>1, HandNow
<1>2. PICK q \in PassState :
        /\ pass' = [pass EXCEPT ![x] = q] /\ q.todo \subseteq pass[x].todo
        /\ q.at \in {"idle", "link"} /\ (q.at = "idle" <=> q.todo = {})
        /\ \A row \in q.todo : row.id # d
  BY <1>1, LeaveForms DEF MarkSent
<1>3. UNCHANGED <<slot, report_schedule, put, compliance_reports, links, mailed, strained, slept>>
  BY DEF MarkSent
<1>4. PICK row \in Delivery : /\ UpdateDelivery(d, row) /\ row.status = "sent"
                              /\ row.link = Row(d).link
  <2>1. Row(d) \in Delivery
    BY TablesNow DEF ReportsInv, Row
  <2>2. n \in 0..MAX_DELIVERY_ATTEMPTS
    BY <1>1, HandNow, ReportDeliveryAssumption
  <2> DEFINE first == [Row(d) EXCEPT !.status = "sent"]
             second == [first EXCEPT !.attempts = n]
  <2>3. first \in Delivery /\ first.status = "sent" /\ first.link = Row(d).link
    BY <2>1 DEF Delivery
  <2>4. second \in Delivery /\ second.status = "sent" /\ second.link = Row(d).link
    <3> HIDE DEF first
    <3> QED  BY <2>2, <2>3 DEF Delivery
  <2>5. UpdateDelivery(d, second)
    BY DEF MarkSent
  <2> HIDE DEF second
  <2> QED  BY <2>4, <2>5
<1>5. /\ compliance_report_deliveries' \in [Deliveries -> Delivery]
      /\ \A e \in Deliveries : e # d =>
           compliance_report_deliveries'[e] = compliance_report_deliveries[e]
      /\ Row(d).status = "deleted" => compliance_report_deliveries'[d] = Row(d)
      /\ Row(d).status # "deleted" => compliance_report_deliveries'[d] = row
  BY <1>4, UpdateTyped DEF ReportsInv
<1>6. /\ links' \in [Deliveries -> Nat] /\ mailed' \in [Deliveries -> SUBSET Nat]
      /\ strained \subseteq strained' /\ strained' \subseteq Deliveries
      /\ Deliveries' = Deliveries /\ links[d] \in Nat
  BY <1>3, <1>5, TablesNow DEF ReportsInv, TablesInv, Deliveries
<1>7. Touches(x, d, q)
  BY <1>1, <1>2, <1>3, <1>5, <1>6 DEF Touches
<1>10. /\ PassesWith(d)' \subseteq PassesWith(d) /\ x \notin PassesWith(d)'
  BY <1>2, <1>7, OthersKeep
<1>8. MailInv(x)'
  BY <1>2 DEF MailInv, PassAt, ReportsInv, TablesInv
<1>9. RowInv(d)'
  <2>1. RowInv(d) /\ mailed[d] # {} /\ (Clean(d) => mailed[d] = {Row(d).link})
    BY <1>1 DEF ReportsInv, MailsInv, MailInv
  <2>2. CASE Row(d).status = "deleted"
    BY <1>3, <1>5, <2>1, <2>2 DEF RowInv, Row
  <2>3. CASE Row(d).status # "deleted"
    <3>1. Row(d)' = row
      BY <1>5, <2>3 DEF Row
    <3>2. d \notin strained => PassesWith(d)' = {}
      BY <1>1, <1>10, <2>3, CleanHand DEF Clean
    <3>3. d \notin strained => mailed[d] = {row.link}
      BY <1>4, <2>1, <2>3 DEF Clean
    <3> QED  BY <1>3, <1>4, <2>1, <3>1, <3>2, <3>3 DEF RowInv
  <2> QED  BY <2>2, <2>3
<1> QED  BY <1>2, <1>7, <1>8, <1>9, PassStep

LEMMA StoreLinkStep ==
  ASSUME ReportsInv, NEW x \in Passes, StoreLink(x) PROVE ReportsInv'
<1>1. ~PassAt(x, "idle") /\ ~PassAt(x, "mark") /\ ~PassAt(x, "mail")
  BY DEF StoreLink, PassAt
<1> PICK d \in Deliveries : d = AtHand(x).id
  BY <1>1, HandNow
<1> PICK n \in Nat : n = links[d] + 1
  BY TablesNow DEF ReportsInv
<1> PICK q : q = [at |-> "mail", todo |-> pass[x].todo, link |-> n]
  OBVIOUS
<1>2. /\ pass' = [pass EXCEPT ![x] = q] /\ q \in PassState /\ q.at = "mail" /\ q.link = n
      /\ q.todo = pass[x].todo /\ q.todo # {}
  <2>1. pass' = [pass EXCEPT ![x] = [at |-> "mail", todo |-> @.todo, link |-> n]]
    BY DEF StoreLink
  <2>2. pass[x].todo \in SUBSET Claimed /\ pass[x].todo # {}
    BY <1>1, HandNow
  <2>3. /\ q \in PassState /\ q.at = "mail" /\ q.link = n /\ q.todo = pass[x].todo
    BY <2>2, PassForms
  <2>4. pass \in [Passes -> PassState]
    BY DEF ReportsInv, TablesInv
  <2>5. pass' = [pass EXCEPT ![x] = q]
    BY <2>1, <2>4
  <2> QED  BY <2>2, <2>3, <2>5
<1>3. /\ UNCHANGED <<slot, report_schedule, put, compliance_reports, mailed, strained, slept>>
      /\ links' = [links EXCEPT ![d] = n]
  BY TablesNow DEF StoreLink, ReportsInv
<1>4. PICK row \in Delivery : /\ UpdateDelivery(d, row) /\ row.status = Row(d).status
                              /\ row.link = n /\ row.attempts = Row(d).attempts
                              /\ row.wait = Row(d).wait
  <2>1. Row(d) \in Delivery
    BY TablesNow DEF ReportsInv, Row
  <2> PICK row : row = [Row(d) EXCEPT !.link = n]
    OBVIOUS
  <2>2. /\ row \in Delivery /\ row.status = Row(d).status /\ row.link = n
        /\ row.attempts = Row(d).attempts /\ row.wait = Row(d).wait
    BY <2>1 DEF Delivery
  <2>3. UpdateDelivery(d, row)
    BY DEF StoreLink
  <2> QED  BY <2>2, <2>3
<1>5. /\ compliance_report_deliveries' \in [Deliveries -> Delivery]
      /\ \A e \in Deliveries : e # d =>
           compliance_report_deliveries'[e] = compliance_report_deliveries[e]
      /\ Row(d).status = "deleted" => compliance_report_deliveries'[d] = Row(d)
      /\ Row(d).status # "deleted" => compliance_report_deliveries'[d] = row
  BY <1>4, UpdateTyped DEF ReportsInv
<1>6. /\ links' \in [Deliveries -> Nat] /\ mailed' \in [Deliveries -> SUBSET Nat]
      /\ links'[d] = n /\ n > links[d] /\ \A e \in Deliveries : e # d => links'[e] = links[e]
      /\ strained \subseteq strained' /\ strained' \subseteq Deliveries
      /\ Deliveries' = Deliveries /\ links[d] \in Nat
  BY <1>3, <1>5, TablesNow DEF ReportsInv, TablesInv, Deliveries
<1>7. Touches(x, d, q)
  BY <1>1, <1>2, <1>3, <1>5, <1>6 DEF Touches
<1>8. /\ PassesWith(d)' \subseteq PassesWith(d)
      /\ \A y \in Passes : y # x => (y \in Marking(d)' <=> y \in Marking(d))
  BY <1>7, OthersKeep
<1>9. AtHand(x)' = AtHand(x) /\ pass'[x] = q
  BY <1>2 DEF AtHand, ReportsInv, TablesInv
<1>10. MailInv(x)'
  <2>1. Row(d).status # "deleted" => Row(d)'.link = n
    BY <1>4, <1>5 DEF Row
  <2>2. Row(d)'.status # "deleted" => Row(d).status # "deleted"
    BY <1>5 DEF Row
  <2> QED  BY <1>2, <1>9, <2>1, <2>2 DEF MailInv, PassAt, Clean
<1>11. RowInv(d)'
  <2>1. RowInv(d)
    BY DEF ReportsInv, MailsInv
  <2>2. mailed'[d] \subseteq 1..links'[d]
    BY <1>3, <1>6, <2>1 DEF RowInv
  <2>3. CASE Row(d).status = "deleted"
    BY <1>3, <1>5, <2>1, <2>2, <2>3 DEF RowInv, Row
  <2>4. CASE Row(d).status # "deleted"
    <3>1. Row(d)' = row /\ row.status = Row(d).status
      BY <1>4, <1>5, <2>4 DEF Row
    <3>2. d \notin strained => /\ Row(d).status = "pending" /\ Row(d).wait > 0
                               /\ mailed[d] = {} /\ PassesWith(d) = {x}
      BY <1>1, <2>4, CleanHand DEF Clean
    <3>3. d \notin strained => \A y, z \in PassesWith(d)' : y = z
      BY <1>8, <3>2
    <3> QED  BY <1>3, <1>4, <2>1, <2>2, <3>1, <3>2, <3>3 DEF RowInv
  <2> QED  BY <2>3, <2>4
<1>12. q.at = "idle" <=> q.todo = {}
  BY <1>2
<1>13. n \in 1..links'[d]
  BY <1>6
<1> QED  BY <1>2, <1>7, <1>10, <1>11, <1>12, <1>13, PassStep

LEMMA SendStep ==
  ASSUME ReportsInv, NEW x \in Passes, SendEmail(x) PROVE ReportsInv'
<1>1. ~PassAt(x, "idle") /\ ~PassAt(x, "mark") /\ PassAt(x, "mail")
  BY DEF SendEmail, PassAt
<1> PICK d \in Deliveries : d = AtHand(x).id
  BY <1>1, HandNow
<1> PICK n : n = pass[x].link
  OBVIOUS
<1>2. PICK out \in BOOLEAN, ok \in BOOLEAN :
        /\ ok => out
        /\ mailed' = IF out THEN [mailed EXCEPT ![d] = @ \cup {n}] ELSE mailed
        /\ strained' = IF out /\ ~ok THEN strained \cup {d} ELSE strained
        /\ pass' = [pass EXCEPT ![x] = [at |-> IF ok THEN "mark" ELSE "catch", todo |-> @.todo]]
  BY DEF SendEmail
<1> PICK q : q = [at |-> IF ok THEN "mark" ELSE "catch", todo |-> pass[x].todo]
  OBVIOUS
<1>3. /\ pass' = [pass EXCEPT ![x] = q] /\ q \in PassState
      /\ q.at = (IF ok THEN "mark" ELSE "catch") /\ q.todo = pass[x].todo /\ q.todo # {}
  <2>1. pass[x].todo \in SUBSET Claimed /\ pass[x].todo # {}
    BY <1>1, HandNow
  <2>2. q \in PassState /\ q.at = (IF ok THEN "mark" ELSE "catch") /\ q.todo = pass[x].todo
    <3>1. CASE ok
      BY <2>1, <3>1, PassForms
    <3>2. CASE ~ok
      BY <2>1, <3>2, PassForms
    <3> QED  BY <3>1, <3>2
  <2>3. pass \in [Passes -> PassState]
    BY DEF ReportsInv, TablesInv
  <2>4. pass' = [pass EXCEPT ![x] = q]
    BY <1>2, <2>3
  <2> QED  BY <2>1, <2>2, <2>4
<1>4. /\ UNCHANGED <<slot, report_schedule, put, compliance_reports, compliance_report_deliveries,
                     links, slept>>
  BY DEF SendEmail
<1>5. n \in 1..links[d] /\ links[d] \in Nat
  BY <1>1, TablesNow DEF ReportsInv, MailsInv, PassInv
<1>6. /\ mailed' \in [Deliveries -> SUBSET Nat] /\ \A e \in Deliveries : e # d => mailed'[e] = mailed[e]
      /\ mailed'[d] = IF out THEN mailed[d] \cup {n} ELSE mailed[d]
  <2>1. mailed \in [Deliveries -> SUBSET Nat] /\ n \in Nat
    BY <1>5, TablesNow DEF ReportsInv
  <2>2. CASE out
    BY <1>2, <2>1, <2>2
  <2>3. CASE ~out
    BY <1>2, <2>1, <2>3
  <2> QED  BY <2>2, <2>3
<1>7. /\ links' \in [Deliveries -> Nat] /\ compliance_report_deliveries' \in [Deliveries -> Delivery]
      /\ strained \subseteq strained' /\ strained' \subseteq Deliveries
      /\ Deliveries' = Deliveries /\ (out /\ ~ok => d \in strained')
  BY <1>2, <1>4, TablesNow DEF ReportsInv, TablesInv, Deliveries
<1>8. Touches(x, d, q)
  BY <1>1, <1>3, <1>4, <1>5, <1>6, <1>7 DEF Touches, Row
<1>9. /\ PassesWith(d)' \subseteq PassesWith(d)
      /\ \A y \in Passes : y # x => (y \in Marking(d)' <=> y \in Marking(d))
  BY <1>8, OthersKeep
<1>10. AtHand(x)' = AtHand(x) /\ pass'[x] = q /\ Row(d)' = Row(d)
  BY <1>3, <1>4 DEF AtHand, ReportsInv, TablesInv, Row
<1>11. Clean(d) => /\ PassesWith(d) = {x} /\ mailed[d] = {} /\ n = Row(d).link
                   /\ Row(d).status = "pending" /\ Row(d).wait > 0
  BY <1>1, CleanHand DEF ReportsInv, MailsInv, MailInv
<1>12. Clean(d)' => Clean(d)
  BY <1>7, <1>10 DEF Clean
<1>13. MailInv(x)'
  <2>1. ok => mailed'[d] # {}
    BY <1>2, <1>6
  <2>2. ok /\ Clean(d)' => mailed'[d] = {Row(d).link}
    BY <1>2, <1>6, <1>11, <1>12
  <2> QED  BY <1>3, <1>10, <2>1, <2>2 DEF MailInv, PassAt, Clean
<1>14. RowInv(d)'
  <2>1. RowInv(d)
    BY DEF ReportsInv, MailsInv
  <2>2. mailed'[d] \subseteq 1..links'[d]
    BY <1>4, <1>5, <1>6, <2>1 DEF RowInv
  <2>3. Row(d).status = "sent" => mailed'[d] # {}
    BY <1>6, <2>1 DEF RowInv
  <2>4. CASE Row(d).status = "deleted"
    BY <1>10, <2>1, <2>2, <2>4 DEF RowInv
  <2>5. CASE d \in strained'
    BY <1>10, <2>1, <2>2, <2>3, <2>5 DEF RowInv
  <2>6. CASE Clean(d) /\ d \notin strained'
    <3>1. \A y, z \in PassesWith(d)' : y = z
      BY <1>9, <1>11, <2>6
    <3>2. Marking(d)' = {} => mailed'[d] = {}
      <4>1. ok => x \in Marking(d)'
        BY <1>3, <1>10 DEF Marking, PassAt
      <4>2. ~ok => ~out
        BY <1>7, <2>6
      <4> QED  BY <1>6, <1>11, <2>6, <4>1, <4>2
    <3> QED  BY <1>10, <1>11, <2>1, <2>2, <2>6, <3>1, <3>2 DEF RowInv
  <2> QED  BY <1>7, <2>4, <2>5, <2>6 DEF Clean
<1>15. q.at # "mail" /\ (q.at = "idle" <=> q.todo = {})
  BY <1>3
<1> QED  BY <1>8, <1>13, <1>14, <1>15, PassStep

LEMMA FailureStep ==
  ASSUME ReportsInv, NEW x \in Passes, RecordFailure(x) PROVE ReportsInv'
<1>1. ~PassAt(x, "idle") /\ ~PassAt(x, "mark")
  BY DEF RecordFailure, PassAt
<1> PICK d \in Deliveries, n \in Nat : d = AtHand(x).id /\ n = AtHand(x).attempts + 1
  BY <1>1, HandNow
<1>2. PICK q \in PassState :
        /\ pass' = [pass EXCEPT ![x] = q] /\ q.todo \subseteq pass[x].todo
        /\ q.at \in {"idle", "link"} /\ (q.at = "idle" <=> q.todo = {})
        /\ \A row \in q.todo : row.id # d
  BY <1>1, LeaveForms DEF RecordFailure
<1>3. UNCHANGED <<slot, report_schedule, put, compliance_reports, links, mailed, strained, slept>>
  BY DEF RecordFailure
<1>4. PICK row \in Delivery :
        /\ UpdateDelivery(d, row) /\ row.status \in {"pending", "failed"}
        /\ row.status = "pending" => row.attempts < MAX_DELIVERY_ATTEMPTS
  <2>1. n \in 1..MAX_DELIVERY_ATTEMPTS
    BY <1>1, HandNow, ReportDeliveryAssumption
  <2>2. RETRY[n] \in Nat
    BY <2>1, ReportDeliveryAssumption
  <2> PICK row : row = [status |-> AfterFailure(n), attempts |-> n, wait |-> RETRY[n], link |-> 0]
    OBVIOUS
  <2>3. /\ row \in Delivery /\ row.status \in {"pending", "failed"} /\ row.attempts = n
        /\ row.status = "pending" => n < MAX_DELIVERY_ATTEMPTS
    BY <2>1, <2>2, ReportDeliveryAssumption DEF Delivery, AfterFailure
  <2>4. UpdateDelivery(d, row)
    BY DEF RecordFailure
  <2> QED  BY <2>3, <2>4
<1>5. /\ compliance_report_deliveries' \in [Deliveries -> Delivery]
      /\ \A e \in Deliveries : e # d =>
           compliance_report_deliveries'[e] = compliance_report_deliveries[e]
      /\ Row(d).status = "deleted" => compliance_report_deliveries'[d] = Row(d)
      /\ Row(d).status # "deleted" => compliance_report_deliveries'[d] = row
  BY <1>4, UpdateTyped DEF ReportsInv
<1>6. /\ links' \in [Deliveries -> Nat] /\ mailed' \in [Deliveries -> SUBSET Nat]
      /\ strained \subseteq strained' /\ strained' \subseteq Deliveries
      /\ Deliveries' = Deliveries /\ links[d] \in Nat
  BY <1>3, <1>5, TablesNow DEF ReportsInv, TablesInv, Deliveries
<1>7. Touches(x, d, q)
  BY <1>1, <1>2, <1>3, <1>5, <1>6 DEF Touches
<1>8. PassesWith(d)' \subseteq PassesWith(d) /\ x \notin PassesWith(d)'
  BY <1>2, <1>7, OthersKeep
<1>9. MailInv(x)'
  BY <1>2 DEF MailInv, PassAt, ReportsInv, TablesInv
<1>10. RowInv(d)'
  <2>1. RowInv(d)
    BY DEF ReportsInv, MailsInv
  <2>2. CASE Row(d).status = "deleted"
    BY <1>3, <1>5, <2>1, <2>2 DEF RowInv, Row
  <2>3. CASE Row(d).status # "deleted"
    <3>1. Row(d)' = row
      BY <1>5, <2>3 DEF Row
    <3>2. d \notin strained => PassesWith(d)' = {} /\ mailed[d] = {}
      BY <1>1, <1>8, <2>3, CleanHand DEF Clean
    <3> QED  BY <1>3, <1>4, <2>1, <3>1, <3>2 DEF RowInv
  <2> QED  BY <2>2, <2>3
<1> QED  BY <1>2, <1>7, <1>9, <1>10, PassStep

-----------------------------------------------------------------------------
(* Claims, time *)

LEMMA ClaimStep ==
  ASSUME ReportsInv, NEW x \in Passes, Claim(x) PROVE ReportsInv'
<1> USE ReportDeliveryAssumption
<1> DEFINE Due == {d \in Deliveries : IsDueDelivery(d)}
           Rows == {[id |-> d, attempts |-> Row(d).attempts] : d \in Due}
<1> PICK due, rows : due = Due /\ rows = Rows
  OBVIOUS
<1> PICK q : q = [at |-> "link", todo |-> rows]
  OBVIOUS
<1>1. /\ pass[x] = NoPass /\ due # {} /\ pass' = [pass EXCEPT ![x] = q]
      /\ compliance_report_deliveries' =
           [d \in Deliveries |-> IF d \in due THEN Leased(Row(d)) ELSE Row(d)]
      /\ UNCHANGED <<slot, report_schedule, put, compliance_reports, links, mailed, strained, slept>>
  BY DEF Claim
<1>2. /\ Deliveries \in SUBSET Nat /\ \A d \in Deliveries : Row(d) \in Delivery /\ RowInv(d)
      /\ links \in [Deliveries -> Nat] /\ mailed \in [Deliveries -> SUBSET Nat]
  BY TablesNow DEF ReportsInv, MailsInv, Row
<1>3. ASSUME NEW d \in due
      PROVE  /\ d \in Deliveries /\ Row(d).status = "pending" /\ Row(d).wait = 0
             /\ Row(d).attempts \in Nat /\ Row(d).attempts < MAX_DELIVERY_ATTEMPTS
  <2>1. d \in Deliveries /\ Row(d).status = "pending" /\ Row(d).wait = 0
    BY DEF IsDueDelivery
  <2> QED  BY <1>2, <2>1 DEF Delivery, RowInv
<1>4. /\ rows \in SUBSET Claimed /\ rows # {}
      /\ \A row \in rows : row.id \in due /\ row.attempts < MAX_DELIVERY_ATTEMPTS
      /\ \A row, other \in rows : row.id = other.id => row = other
      /\ \A d \in due : \E row \in rows : row.id = d
  <2>1. rows = {[id |-> d, attempts |-> Row(d).attempts] : d \in due}
    OBVIOUS
  <2> HIDE DEF Due, Rows
  <2>2. \E d : d \in due
    BY <1>1
  <2>3. ASSUME NEW row \in rows PROVE row \in Claimed /\ row.id \in due /\ row.attempts < MAX_DELIVERY_ATTEMPTS
    <3> PICK d \in due : row = [id |-> d, attempts |-> Row(d).attempts]
      BY <2>1
    <3>1. d \in Nat /\ Row(d).attempts \in Nat /\ Row(d).attempts < MAX_DELIVERY_ATTEMPTS
      BY <1>2, <1>3
    <3> QED  BY <3>1 DEF Claimed
  <2>6. \A d \in due : [id |-> d, attempts |-> Row(d).attempts] \in rows
    BY <2>1
  <2>4. rows # {} /\ \A d \in due : \E row \in rows : row.id = d
    <3>1. ASSUME NEW d \in due PROVE \E row \in rows : row.id = d
      BY <2>6
    <3> QED  BY <2>2, <3>1
  <2>5. \A row, other \in rows : row.id = other.id => row = other
    BY <2>1
  <2> QED  BY <2>3, <2>4, <2>5
<1> HIDE DEF Due, Rows
<1>5. q \in PassState /\ q.at = "link" /\ q.todo = rows
  BY <1>4, PassForms
<1>6. /\ pass' \in [Passes -> PassState] /\ pass'[x] = q
      /\ \A y \in Passes : y # x => pass'[y] = pass[y]
  BY <1>1, <1>5 DEF ReportsInv, TablesInv
<1>7. ASSUME NEW d \in Deliveries
      PROVE  /\ compliance_report_deliveries'[d] \in Delivery
             /\ compliance_report_deliveries'[d].status = Row(d).status
             /\ compliance_report_deliveries'[d].attempts = Row(d).attempts
             /\ compliance_report_deliveries'[d].link = Row(d).link
             /\ d \in due => compliance_report_deliveries'[d].wait > 0
             /\ d \notin due => compliance_report_deliveries'[d] = Row(d)
  <2>1. CASE d \in due
    <3>1. compliance_report_deliveries'[d] = [Row(d) EXCEPT !.wait = LEASE]
      BY <1>1, <2>1 DEF Leased
    <3>2. Row(d) \in Delivery /\ LEASE \in Nat /\ LEASE > 0
      BY <1>2
    <3> QED  BY <2>1, <3>1, <3>2 DEF Delivery
  <2>2. CASE d \notin due
    BY <1>1, <1>2, <2>2
  <2> QED  BY <2>1, <2>2
<1>8. compliance_report_deliveries' \in [Deliveries -> Delivery]
  BY <1>1, <1>7
<1>9. TablesInv' /\ Deliveries' = Deliveries
  BY <1>1, <1>2, <1>6, <1>8, TablesStay DEF ReportsInv, TablesInv
<1>10. \A d \in Deliveries : Row(d)' = compliance_report_deliveries'[d]
  BY DEF Row
<1>11. \A y \in Passes : y # x => /\ AtHand(y)' = AtHand(y)
                                  /\ \A place : PassAt(y, place)' <=> PassAt(y, place)
  BY <1>6 DEF AtHand, PassAt
<1>12. ~PassAt(x, "mark") /\ ~PassAt(x, "mark")' /\ ~PassAt(x, "mail")' /\ ~PassAt(x, "idle")'
  BY <1>1, <1>5, <1>6, PassForms DEF PassAt
<1>13. ASSUME NEW y \in Passes PROVE PassInv(y)' /\ MailInv(y)'
  <2>1. CASE y = x
    <3>1. PassInv(y)'
      BY <1>3, <1>4, <1>5, <1>6, <1>9, <1>12, <2>1 DEF PassInv
    <3>2. MailInv(y)'
      BY <1>12, <2>1 DEF MailInv
    <3> QED  BY <3>1, <3>2
  <2>2. CASE y # x
    <3> PICK d : d = AtHand(y).id
      OBVIOUS
    <3>1. PassInv(y) /\ MailInv(y)
      BY DEF ReportsInv, MailsInv
    <3>2. AtHand(y)' = AtHand(y) /\ AtHand(y)'.id = d /\ pass'[y] = pass[y]
      BY <1>6, <1>11, <2>2
    <3>3. ~PassAt(y, "idle") => d \in Deliveries
      BY HandNow
    <3>4. d \in Deliveries => Row(d)'.status = Row(d).status /\ Row(d)'.link = Row(d).link
      BY <1>7, <1>10
    <3>5. PassInv(y)'
      BY <1>1, <1>9, <1>11, <2>2, <3>1, <3>2 DEF PassInv
    <3>6. PassAt(y, "mark") => mailed'[d] # {}
      BY <1>1, <3>1 DEF MailInv
    <3>7. ~PassAt(y, "idle") /\ d \notin strained' /\ Row(d)'.status # "deleted" =>
            /\ PassAt(y, "mail") => Row(d)'.link = pass[y].link
            /\ PassAt(y, "mark") => mailed'[d] = {Row(d)'.link}
      BY <1>1, <3>1, <3>3, <3>4 DEF MailInv, Clean
    <3> QED  BY <1>11, <2>2, <3>2, <3>5, <3>6, <3>7 DEF MailInv, Clean, Row
  <2> QED  BY <2>1, <2>2
<1>14. ASSUME NEW d \in Deliveries PROVE RowInv(d)'
  <2>1. RowInv(d)
    BY <1>2
  <2>2. ASSUME NEW y \in Passes PROVE y \in Marking(d)' <=> y \in Marking(d)
    BY <1>11, <1>12 DEF Marking
  <2>3. Marking(d)' = {} => Marking(d) = {}
    <3>1. Marking(d) \subseteq Passes
      BY DEF Marking
    <3> QED  BY <2>2, <3>1
  <2>4. \A y \in Passes : y # x => (y \in PassesWith(d)' <=> y \in PassesWith(d))
    BY <1>6 DEF PassesWith
  <2>5. x \in PassesWith(d)' => d \in due
    BY <1>4, <1>5, <1>6 DEF PassesWith
  <2>6. x \notin PassesWith(d)
    BY <1>1, PassForms DEF PassesWith
  <2>7. PassesWith(d)' \subseteq Passes /\ PassesWith(d) \subseteq Passes
    BY DEF PassesWith
  <2>8. CASE d \in due
    <3>1. d \notin strained => PassesWith(d) = {}
      BY <1>3, <2>1, <2>8 DEF RowInv
    <3>2. d \notin strained => PassesWith(d)' \subseteq {x}
      BY <2>4, <2>7, <3>1
    <3>3. d \notin strained => \A y, z \in PassesWith(d)' : y = z
      BY <3>2
    <3> QED  BY <1>1, <1>3, <1>7, <1>10, <2>1, <2>3, <2>8, <3>3 DEF RowInv
  <2>9. CASE d \notin due
    <3>3. \A y : y \in PassesWith(d)' <=> y \in PassesWith(d)
      BY <2>4, <2>5, <2>6, <2>7, <2>9
    <3>1. PassesWith(d)' = PassesWith(d)
      BY <3>3
    <3>2. Row(d)' = Row(d) /\ mailed' = mailed /\ links' = links /\ strained' = strained
      BY <1>1, <1>7, <1>10, <2>9
    <3> QED  BY <2>1, <2>3, <3>1, <3>2 DEF RowInv
  <2> QED  BY <2>8, <2>9
<1>15. SlotsInv'
  BY <1>1, SlotsKeep DEF ReportsInv
<1> QED  BY <1>9, <1>13, <1>14, <1>15 DEF ReportsInv, MailsInv

(* Time passes: only the dates of the next attempts are nearer. *)
LEMMA WaitStep ==
  ASSUME ReportsInv, slot' \in 0..MAX_SLOTS, report_schedule' \in ReportSchedule,
         put' \in [Puts -> Put], UNCHANGED <<compliance_reports, links, mailed, pass>>,
         compliance_report_deliveries' \in [Deliveries -> Delivery],
         \A d \in Deliveries :
           /\ compliance_report_deliveries'[d].status = Row(d).status
           /\ compliance_report_deliveries'[d].attempts = Row(d).attempts
           /\ compliance_report_deliveries'[d].link = Row(d).link
           /\ d \notin strained' /\ Held(d) /\ Row(d).status = "pending" /\ Row(d).wait > 0 =>
                compliance_report_deliveries'[d].wait > 0,
         strained \subseteq strained', strained' \subseteq Deliveries, SlotsInv'
  PROVE  ReportsInv'
<1>1. /\ links \in [Deliveries -> Nat] /\ mailed \in [Deliveries -> SUBSET Nat]
      /\ pass \in [Passes -> PassState]
  BY TablesNow DEF ReportsInv, TablesInv
<1>2. TablesInv' /\ Deliveries' = Deliveries
  BY <1>1, TablesStay DEF ReportsInv, TablesInv
<1>3. /\ \A y : AtHand(y)' = AtHand(y) /\ \A place : PassAt(y, place)' <=> PassAt(y, place)
      /\ \A d : PassesWith(d)' = PassesWith(d) /\ Marking(d)' = Marking(d)
      /\ \A d : Row(d)' = compliance_report_deliveries'[d]
  BY DEF AtHand, PassAt, PassesWith, Marking, Row
<1>4. ASSUME NEW y \in Passes PROVE PassInv(y)' /\ MailInv(y)'
  <2> PICK d : d = AtHand(y).id
    OBVIOUS
  <2>1. PassInv(y) /\ MailInv(y)
    BY DEF ReportsInv, MailsInv
  <2>2. AtHand(y)' = AtHand(y) /\ AtHand(y)'.id = d
    BY <1>3
  <2>3. ~PassAt(y, "idle") => d \in Deliveries
    BY HandNow
  <2>4. PassInv(y)'
    BY <1>2, <1>3, <2>1, <2>2 DEF PassInv
  <2>5. PassAt(y, "mark") => mailed'[d] # {}
    BY <2>1 DEF MailInv
  <2>6. ~PassAt(y, "idle") /\ d \notin strained' /\ Row(d)'.status # "deleted" =>
          /\ PassAt(y, "mail") => Row(d)'.link = pass[y].link
          /\ PassAt(y, "mark") => mailed'[d] = {Row(d)'.link}
    BY <1>3, <2>1, <2>3 DEF MailInv, Clean
  <2> QED  BY <1>3, <2>2, <2>4, <2>5, <2>6 DEF MailInv, Clean, Row
<1>5. ASSUME NEW d \in Deliveries PROVE RowInv(d)'
  <2>1. RowInv(d)
    BY DEF ReportsInv, MailsInv
  <2>2. PassesWith(d) # {} => Held(d)
    BY DEF PassesWith, Held
  <2>3. /\ PassesWith(d)' = PassesWith(d) /\ Marking(d)' = Marking(d)
        /\ Row(d)'.status = Row(d).status /\ Row(d)'.attempts = Row(d).attempts
        /\ Row(d)'.link = Row(d).link /\ mailed'[d] = mailed[d] /\ links'[d] = links[d]
    BY <1>3
  <2>4. d \notin strained' /\ PassesWith(d) # {} /\ Row(d).status = "pending" /\ Row(d).wait > 0
          => Row(d)'.wait > 0
    BY <1>3, <2>2
  <2>5. d \notin strained' => d \notin strained
    OBVIOUS
  <2> QED  BY <2>1, <2>3, <2>4, <2>5 DEF RowInv
<1> QED  BY <1>2, <1>4, <1>5 DEF ReportsInv, MailsInv

LEMMA MinutesStep == ASSUME ReportsInv, MinutesPass PROVE ReportsInv'
<1> PICK waiting : waiting = {d \in Deliveries : Pending(d) /\ Row(d).wait > 0}
  OBVIOUS
<1>1. /\ compliance_report_deliveries' =
           [d \in Deliveries |-> IF d \in waiting THEN [Row(d) EXCEPT !.wait = @ - 1] ELSE Row(d)]
      /\ strained' = strained \cup {d \in waiting : Row(d).wait = 1 /\ Held(d)}
      /\ UNCHANGED <<slot, report_schedule, put, compliance_reports, links, mailed, pass, slept>>
  BY DEF MinutesPass, Outlives
<1>2. /\ \A d \in Deliveries : Row(d) \in Delivery
      /\ waiting \subseteq Deliveries /\ strained \subseteq Deliveries
      /\ \A d \in waiting : Row(d).wait > 0
  BY TablesNow DEF ReportsInv, TablesInv, Row
<1>3. ASSUME NEW d \in Deliveries
      PROVE  /\ compliance_report_deliveries'[d] \in Delivery
             /\ compliance_report_deliveries'[d].status = Row(d).status
             /\ compliance_report_deliveries'[d].attempts = Row(d).attempts
             /\ compliance_report_deliveries'[d].link = Row(d).link
             /\ d \notin strained' /\ Held(d) /\ Row(d).status = "pending" /\ Row(d).wait > 0 =>
                  compliance_report_deliveries'[d].wait > 0
  <2>1. CASE d \in waiting
    <3>1. compliance_report_deliveries'[d] = [Row(d) EXCEPT !.wait = @ - 1]
      BY <1>1, <2>1
    <3>2. Row(d) \in Delivery /\ Row(d).wait \in Nat /\ Row(d).wait > 0
      BY <1>2, <2>1 DEF Delivery
    <3>3. d \notin strained' /\ Held(d) => Row(d).wait # 1
      BY <1>1, <2>1
    <3> QED  BY <3>1, <3>2, <3>3 DEF Delivery
  <2>2. CASE d \notin waiting
    BY <1>1, <1>2, <2>2
  <2> QED  BY <2>1, <2>2
<1>4. compliance_report_deliveries' \in [Deliveries -> Delivery]
  BY <1>1, <1>3
<1>5. SlotsInv' /\ slot' \in 0..MAX_SLOTS
  BY <1>1, SlotsKeep DEF ReportsInv, TablesInv
<1>6. strained \subseteq strained' /\ strained' \subseteq Deliveries
  BY <1>1, <1>2
<1>7. report_schedule' \in ReportSchedule /\ put' \in [Puts -> Put]
  BY <1>1 DEF ReportsInv, TablesInv
<1> QED  BY <1>1, <1>3, <1>4, <1>5, <1>6, <1>7, WaitStep

LEMMA SlotStep == ASSUME ReportsInv, SlotPasses PROVE ReportsInv'
<1> PICK late : late = {d \in Deliveries : Pending(d) /\ Row(d).wait > 0 /\ Held(d)}
  OBVIOUS
<1>1. /\ slot < MAX_SLOTS /\ slot' = slot + 1
      /\ compliance_report_deliveries' = [d \in Deliveries |-> [Row(d) EXCEPT !.wait = 0]]
      /\ strained' = strained \cup late
      /\ slept' = IF report_schedule.is_paused /\ \A e \in Puts : put[e] = NoPut
                  THEN slept \cup {slot + 1} ELSE slept
      /\ UNCHANGED <<report_schedule, put, compliance_reports, links, mailed, pass>>
  BY DEF SlotPasses, Outlives
<1>2. /\ \A d \in Deliveries : Row(d) \in Delivery
      /\ late \subseteq Deliveries /\ strained \subseteq Deliveries
  BY TablesNow DEF ReportsInv, TablesInv, Row
<1>3. ASSUME NEW d \in Deliveries
      PROVE  /\ compliance_report_deliveries'[d] \in Delivery
             /\ compliance_report_deliveries'[d].status = Row(d).status
             /\ compliance_report_deliveries'[d].attempts = Row(d).attempts
             /\ compliance_report_deliveries'[d].link = Row(d).link
             /\ d \notin strained' /\ Held(d) /\ Row(d).status = "pending" /\ Row(d).wait > 0 =>
                  compliance_report_deliveries'[d].wait > 0
  <2>1. compliance_report_deliveries'[d] = [Row(d) EXCEPT !.wait = 0] /\ Row(d) \in Delivery
    BY <1>1, <1>2
  <2>2. ~(d \notin strained' /\ Held(d) /\ Row(d).status = "pending" /\ Row(d).wait > 0)
    BY <1>1 DEF Pending
  <2> QED  BY <2>1, <2>2 DEF Delivery
<1>4. compliance_report_deliveries' \in [Deliveries -> Delivery]
  BY <1>1, <1>3
<1>5. slot \in Nat /\ slot' \in 0..MAX_SLOTS /\ slot' = slot + 1
  BY <1>1, ReportDeliveryAssumption DEF ReportsInv, TablesInv
<1>6. SlotsInv'
  <2>1. SlotsInv
    BY DEF ReportsInv
  <2>2. slept' \subseteq 1..slot'
    BY <1>1, <1>5, <2>1 DEF SlotsInv
  <2>3. \A i \in DOMAIN compliance_reports' : compliance_reports'[i] \in (1..slot') \ slept'
    BY <1>1, <1>5, <2>1 DEF SlotsInv
  <2>4. report_schedule'.next_run_at \in slept' => report_schedule'.is_paused
    BY <1>1, <2>1 DEF SlotsInv
  <2>5. ASSUME NEW e \in Puts
        PROVE  /\ put'[e] = NoPut \/ put'[e].op # "none"
               /\ put'[e].next \notin slept'
               /\ put'[e].op = "resume" /\ put'[e].next = 0 => report_schedule'.next_run_at \notin slept'
    <3>1. CASE put[e] = NoPut
      BY <1>1, <1>5, <2>1, <3>1 DEF SlotsInv, NoPut
    <3>2. CASE put[e] # NoPut
      <4>1. slept' = slept
        BY <1>1, <3>2
      <4> QED  BY <1>1, <2>1, <4>1 DEF SlotsInv
    <3> QED  BY <3>1, <3>2
  <2> QED  BY <2>2, <2>3, <2>4, <2>5 DEF SlotsInv
<1>7. strained \subseteq strained' /\ strained' \subseteq Deliveries
  BY <1>1, <1>2
<1>8. report_schedule' \in ReportSchedule /\ put' \in [Puts -> Put]
  BY <1>1 DEF ReportsInv, TablesInv
<1> QED  BY <1>1, <1>3, <1>4, <1>5, <1>6, <1>7, <1>8, WaitStep

-----------------------------------------------------------------------------
(* The schedule *)

(* Deliveries as they are *)
LEMMA MailsKeep ==
  ASSUME ReportsInv, report_schedule' \in ReportSchedule, put' \in [Puts -> Put], SlotsInv',
         UNCHANGED <<slot, compliance_reports, compliance_report_deliveries, links, mailed, pass,
                     strained>>
  PROVE  ReportsInv'
<1>1. /\ compliance_report_deliveries' \in [Deliveries -> Delivery] /\ slot' \in 0..MAX_SLOTS
      /\ strained' \subseteq Deliveries
      /\ \A d \in Deliveries : compliance_report_deliveries'[d] = Row(d)
  BY TablesNow DEF ReportsInv, TablesInv, Row
<1> QED  BY <1>1, WaitStep

LEMMA ScheduleNow ==
  ASSUME ReportsInv
  PROVE  /\ slot \in Nat /\ slot <= MAX_SLOTS /\ NextSlot \in 1..(MAX_SLOTS + 1)
         /\ NextSlot \notin slept /\ 0 \notin slept
         /\ report_schedule \in ReportSchedule /\ report_schedule.next_run_at \in 1..(MAX_SLOTS + 1)
         /\ report_schedule.is_paused \in BOOLEAN /\ put \in [Puts -> Put]
BY ReportDeliveryAssumption DEF ReportsInv, TablesInv, SlotsInv, NextSlot, ReportSchedule

LEMMA CreateReportStep == ASSUME ReportsInv, CreateReportSchedule PROVE ReportsInv'
<1>1. /\ report_schedule' = [status |-> "stored", is_paused |-> FALSE, next_run_at |-> NextSlot]
      /\ UNCHANGED <<slot, put, compliance_reports, compliance_report_deliveries, links, mailed,
                     pass, strained, slept>>
  BY DEF CreateReportSchedule
<1>2. /\ report_schedule' \in ReportSchedule /\ report_schedule'.next_run_at = NextSlot
      /\ put' \in [Puts -> Put]
  BY <1>1, ScheduleNow DEF ReportSchedule
<1>3. SlotsInv'
  BY <1>1, <1>2, ScheduleNow DEF SlotsInv, ReportsInv
<1> QED  BY <1>1, <1>2, <1>3, MailsKeep

LEMMA AskStep ==
  ASSUME ReportsInv, NEW e \in Puts, NEW op \in {"pause", "resume", "cadence"}, AskPut(e, op)
  PROVE  ReportsInv'
<1> PICK next : next = Reanchored(op)
  OBVIOUS
<1> PICK q : q = [op |-> op, next |-> next]
  OBVIOUS
<1>1. /\ put' = [put EXCEPT ![e] = q]
      /\ UNCHANGED <<slot, report_schedule, compliance_reports, compliance_report_deliveries,
                     links, mailed, pass, strained, slept>>
  BY DEF AskPut
<1>2. next \in {0, NextSlot} /\ next \in 0..(MAX_SLOTS + 1) /\ next \notin slept
  BY ScheduleNow, ReportDeliveryAssumption DEF Reanchored
<1>3. q \in Put /\ q.op = op /\ q.next = next
  BY <1>2 DEF Put
<1>4. put' \in [Puts -> Put] /\ put'[e] = q /\ \A f \in Puts \ {e} : put'[f] = put[f]
  BY <1>1, <1>3, ScheduleNow
<1>5. op = "resume" /\ next = 0 => report_schedule.next_run_at \notin slept
  <2>1. report_schedule.next_run_at \in slept => /\ report_schedule.is_paused
                                                 /\ report_schedule.next_run_at <= slot
    BY ScheduleNow DEF ReportsInv, SlotsInv
  <2>2. op = "resume" /\ report_schedule.is_paused /\ report_schedule.next_run_at <= slot => next # 0
    BY ScheduleNow DEF Reanchored, NextSlot
  <2> QED  BY <2>1, <2>2
<1>6. SlotsInv'
  BY <1>1, <1>2, <1>3, <1>4, <1>5 DEF SlotsInv, ReportsInv
<1> QED  BY <1>1, <1>4, <1>6, ScheduleNow, MailsKeep

LEMMA WritePutStep == ASSUME ReportsInv, NEW e \in Puts, WritePut(e) PROVE ReportsInv'
<1> PICK op, next : op = put[e].op /\ next = put[e].next
  OBVIOUS
<1> PICK paused, at : /\ paused = IF op = "cadence" THEN report_schedule.is_paused ELSE op = "pause"
                      /\ at = IF next = 0 THEN report_schedule.next_run_at ELSE next
  OBVIOUS
<1>1. /\ report_schedule' = [report_schedule EXCEPT
             !.is_paused = IF op = "cadence" THEN @ ELSE op = "pause",
             !.next_run_at = IF next = 0 THEN @ ELSE next]
      /\ put[e] # NoPut /\ put' = [put EXCEPT ![e] = NoPut]
      /\ UNCHANGED <<slot, compliance_reports, compliance_report_deliveries, links, mailed,
                     pass, strained, slept>>
  BY DEF WritePut
<1>2. /\ put[e] \in Put /\ op \in {"pause", "resume", "cadence"} /\ next \in 0..(MAX_SLOTS + 1)
      /\ next \notin slept /\ (op = "resume" /\ next = 0 => report_schedule.next_run_at \notin slept)
  BY <1>1, ScheduleNow DEF Put, ReportsInv, SlotsInv
<1>3. paused \in BOOLEAN /\ at \in 1..(MAX_SLOTS + 1)
  <2>1. paused \in BOOLEAN
    BY ScheduleNow
  <2>2. at \in 1..(MAX_SLOTS + 1)
    <3>1. CASE next = 0
      BY <3>1, ScheduleNow
    <3>2. CASE next # 0
      BY <1>2, <3>2, ReportDeliveryAssumption
    <3> QED  BY <3>1, <3>2
  <2> QED  BY <2>1, <2>2
<1>4. /\ report_schedule' \in ReportSchedule /\ report_schedule'.is_paused = paused
      /\ report_schedule'.next_run_at = at
  <2> DEFINE first == [report_schedule EXCEPT !.is_paused = paused]
             second == [first EXCEPT !.next_run_at = at]
  <2>1. first \in ReportSchedule /\ first.is_paused = paused
    BY <1>3, ScheduleNow DEF ReportSchedule
  <2>2. second \in ReportSchedule /\ second.is_paused = paused /\ second.next_run_at = at
    <3> HIDE DEF first
    <3> QED  BY <1>3, <2>1 DEF ReportSchedule
  <2>3. report_schedule' = second
    BY <1>1
  <2> HIDE DEF second
  <2> QED  BY <2>2, <2>3
<1>5. put' \in [Puts -> Put] /\ put'[e] = NoPut /\ \A f \in Puts \ {e} : put'[f] = put[f]
  <2>1. NoPut \in Put
    BY ReportDeliveryAssumption DEF NoPut, Put
  <2>2. put \in [Puts -> Put]
    BY ScheduleNow
  <2> QED  BY <1>1, <2>1, <2>2
<1>6. at \in slept => paused
  <2>1. report_schedule.next_run_at \in slept => report_schedule.is_paused
    BY DEF ReportsInv, SlotsInv
  <2> QED  BY <1>2, <2>1
<1>7. SlotsInv'
  <2>1. SlotsInv /\ 0 \notin slept
    BY ScheduleNow DEF ReportsInv
  <2>2. ASSUME NEW f \in Puts
        PROVE  /\ put'[f] = NoPut \/ put'[f].op # "none"
               /\ put'[f].next \notin slept'
               /\ put'[f].op = "resume" /\ put'[f].next = 0 => report_schedule'.next_run_at \notin slept'
    <3>1. CASE f = e
      BY <1>1, <1>5, <2>1, <3>1 DEF NoPut
    <3>2. CASE f # e
      <4>1. put'[f] = put[f]
        BY <1>5, <3>2
      <4>2. put[f].op = "resume" /\ put[f].next = 0 => at \notin slept
        BY <1>2, <2>1 DEF SlotsInv
      <4> QED  BY <1>1, <1>4, <2>1, <4>1, <4>2 DEF SlotsInv
    <3> QED  BY <3>1, <3>2
  <2> QED  BY <1>1, <1>4, <1>6, <2>1, <2>2 DEF SlotsInv
<1> QED  BY <1>1, <1>4, <1>5, <1>7, MailsKeep

LEMMA DeleteStep == ASSUME ReportsInv, DeleteReportSchedule PROVE ReportsInv'
<1>1. /\ report_schedule' = [report_schedule EXCEPT !.status = "deleted"]
      /\ compliance_report_deliveries' = [d \in Deliveries |-> [Row(d) EXCEPT !.status = "deleted"]]
      /\ UNCHANGED <<slot, put, compliance_reports, links, mailed, pass, strained, slept>>
  BY DEF DeleteReportSchedule
<1>2. /\ report_schedule' \in ReportSchedule
      /\ report_schedule'.is_paused = report_schedule.is_paused
      /\ report_schedule'.next_run_at = report_schedule.next_run_at
  BY <1>1, ScheduleNow DEF ReportSchedule
<1>3. SlotsInv'
  BY <1>1, <1>2 DEF SlotsInv, ReportsInv
<1>4. ASSUME NEW d \in Deliveries
      PROVE  /\ compliance_report_deliveries'[d] \in Delivery
             /\ compliance_report_deliveries'[d].status = "deleted"
  <2>1. Row(d) \in Delivery /\ compliance_report_deliveries'[d] = [Row(d) EXCEPT !.status = "deleted"]
    BY <1>1, TablesNow DEF ReportsInv, Row
  <2> QED  BY <2>1 DEF Delivery
<1>5. compliance_report_deliveries' \in [Deliveries -> Delivery]
  BY <1>1, <1>4
<1>6. /\ links \in [Deliveries -> Nat] /\ mailed \in [Deliveries -> SUBSET Nat]
      /\ slot \in 0..MAX_SLOTS /\ put \in [Puts -> Put] /\ strained \subseteq Deliveries
      /\ pass \in [Passes -> PassState]
  BY TablesNow DEF ReportsInv, TablesInv
<1>7. TablesInv' /\ Deliveries' = Deliveries
  BY <1>1, <1>2, <1>5, <1>6, TablesStay DEF ReportsInv
<1>8. ASSUME NEW y \in Passes PROVE PassInv(y)' /\ MailInv(y)'
  <2> PICK d : d = AtHand(y).id
    OBVIOUS
  <2>1. PassInv(y) /\ MailInv(y)
    BY DEF ReportsInv, MailsInv
  <2>2. AtHand(y)' = AtHand(y) /\ AtHand(y)'.id = d /\ \A place : PassAt(y, place)' <=> PassAt(y, place)
    BY <1>1 DEF AtHand, PassAt
  <2>3. ~PassAt(y, "idle") => d \in Deliveries
    BY HandNow
  <2>4. ~PassAt(y, "idle") => Row(d)'.status = "deleted"
    BY <1>4, <2>3 DEF Row
  <2>5. PassInv(y)'
    BY <1>1, <1>7, <2>1, <2>2 DEF PassInv
  <2>6. PassAt(y, "mark") => mailed'[d] # {}
    BY <1>1, <2>1 DEF MailInv
  <2> QED  BY <2>2, <2>4, <2>5, <2>6 DEF MailInv, Clean, Row
<1>9. ASSUME NEW d \in Deliveries PROVE RowInv(d)'
  <2>1. RowInv(d) /\ Row(d)'.status = "deleted"
    BY <1>4 DEF ReportsInv, MailsInv, Row
  <2> QED  BY <1>1, <2>1 DEF RowInv
<1> QED  BY <1>3, <1>7, <1>8, <1>9 DEF ReportsInv, MailsInv

IsPadded(t, s, n, e) == t = s \o [i \in 1..n |-> e]

LEMMA Padded ==
  ASSUME NEW T, NEW s \in Seq(T), NEW n \in Nat, NEW e \in T, NEW t, IsPadded(t, s, n, e)
  PROVE  /\ t \in Seq(T) /\ Len(t) = Len(s) + n
         /\ \A d \in 1..Len(s) : t[d] = s[d]
         /\ \A d \in (Len(s) + 1)..(Len(s) + n) : t[d] = e
<1> PICK more : more = [i \in 1..n |-> e]
  OBVIOUS
<1>1. more \in [1..n -> T] /\ \A i \in 1..n : more[i] = e
  OBVIOUS
<1>2. more \in Seq(T) /\ Len(more) = n
  BY <1>1, FunctionIsSeq
<1>3. /\ t \in Seq(T) /\ Len(t) = Len(s) + n
      /\ \A i \in 1..(Len(s) + n) : t[i] = IF i <= Len(s) THEN s[i] ELSE more[i - Len(s)]
  BY <1>2, ConcatProperties DEF IsPadded
<1>4. ASSUME NEW d \in 1..Len(s) PROVE t[d] = s[d]
  BY <1>3
<1>5. ASSUME NEW d \in (Len(s) + 1)..(Len(s) + n) PROVE t[d] = e
  <2>1. d - Len(s) \in 1..n /\ d \in 1..(Len(s) + n) /\ ~(d <= Len(s))
    OBVIOUS
  <2> QED  BY <1>1, <1>3, <2>1
<1> QED  BY <1>3, <1>4, <1>5

LEMMA RunStep == ASSUME ReportsInv, RunSchedule PROVE ReportsInv'
<1>0. RECIPIENTS \in Nat /\ MAX_SLOTS \in Nat /\ MAX_DELIVERY_ATTEMPTS \in Nat \ {0}
  BY ReportDeliveryAssumption
<1> PICK n, m : n = Len(compliance_report_deliveries) /\ m = Len(compliance_reports)
  OBVIOUS
<1>1. /\ report_schedule.next_run_at <= slot /\ ~report_schedule.is_paused
      /\ compliance_reports' = Append(compliance_reports, report_schedule.next_run_at)
      /\ compliance_report_deliveries' =
           compliance_report_deliveries \o [i \in 1..RECIPIENTS |-> NewDelivery]
      /\ links' = links \o [i \in 1..RECIPIENTS |-> 0]
      /\ mailed' = mailed \o [i \in 1..RECIPIENTS |-> {}]
      /\ report_schedule' = [report_schedule EXCEPT !.next_run_at = NextSlot]
      /\ UNCHANGED <<slot, put, pass, strained, slept>>
  BY DEF RunSchedule
<1>2. /\ report_schedule' \in ReportSchedule
      /\ report_schedule'.is_paused = report_schedule.is_paused
      /\ report_schedule'.next_run_at = NextSlot
  BY <1>1, ScheduleNow DEF ReportSchedule
<1>3. /\ compliance_reports \in Seq(1..MAX_SLOTS) /\ compliance_report_deliveries \in Seq(Delivery)
      /\ links \in Seq(Nat) /\ mailed \in Seq(SUBSET Nat) /\ Len(links) = n /\ Len(mailed) = n
      /\ n \in Nat /\ m \in Nat
  BY DEF ReportsInv, TablesInv
<1>4. report_schedule.next_run_at \in 1..MAX_SLOTS
  <2>1. /\ slot \in Nat /\ slot <= MAX_SLOTS /\ MAX_SLOTS \in Nat
        /\ report_schedule.next_run_at \in 1..(MAX_SLOTS + 1)
        /\ report_schedule.next_run_at <= slot
    BY <1>1, <1>0, ScheduleNow
  <2> QED  BY <2>1
<1>5. /\ compliance_reports' \in Seq(1..MAX_SLOTS) /\ Len(compliance_reports') = m + 1
      /\ \A i \in 1..m : compliance_reports'[i] = compliance_reports[i]
      /\ compliance_reports'[m + 1] = report_schedule.next_run_at
  BY <1>1, <1>3, <1>4
<1>6. NewDelivery \in Delivery /\ NewDelivery.status = "pending" /\ NewDelivery.attempts = 0
  BY <1>0 DEF NewDelivery, Delivery
<1>9. /\ compliance_report_deliveries' \in Seq(Delivery)
      /\ Len(compliance_report_deliveries') = n + RECIPIENTS
      /\ \A d \in 1..n : compliance_report_deliveries'[d] = compliance_report_deliveries[d]
      /\ \A d \in (n + 1)..(n + RECIPIENTS) : compliance_report_deliveries'[d] = NewDelivery
  <2>1. IsPadded(compliance_report_deliveries', compliance_report_deliveries, RECIPIENTS, NewDelivery)
    BY <1>1 DEF IsPadded
  <2> QED  BY <1>3, <1>6, <1>0, <2>1, Padded
<1>10. /\ links' \in Seq(Nat) /\ Len(links') = n + RECIPIENTS
       /\ \A d \in 1..n : links'[d] = links[d]
       /\ \A d \in (n + 1)..(n + RECIPIENTS) : links'[d] = 0
  <2>4. PICK T, zero : T = Nat /\ zero = 0
    OBVIOUS
  <2>1. IsPadded(links', links, RECIPIENTS, zero)
    BY <1>1, <2>4 DEF IsPadded
  <2>2. links \in Seq(T) /\ Len(links) = n /\ zero \in T
    BY <1>3, <2>4
  <2>3. /\ links' \in Seq(T) /\ Len(links') = Len(links) + RECIPIENTS
        /\ \A d \in 1..Len(links) : links'[d] = links[d]
        /\ \A d \in (Len(links) + 1)..(Len(links) + RECIPIENTS) : links'[d] = zero
    BY <1>0, <2>1, <2>2, Padded
  <2> QED  BY <2>2, <2>3, <2>4
<1>11. /\ mailed' \in Seq(SUBSET Nat) /\ Len(mailed') = n + RECIPIENTS
       /\ \A d \in 1..n : mailed'[d] = mailed[d]
       /\ \A d \in (n + 1)..(n + RECIPIENTS) : mailed'[d] = {}
  <2>4. PICK T, none : T = SUBSET Nat /\ none = {}
    OBVIOUS
  <2>1. IsPadded(mailed', mailed, RECIPIENTS, none)
    BY <1>1, <2>4 DEF IsPadded
  <2>2. mailed \in Seq(T) /\ Len(mailed) = n /\ none \in T
    BY <1>3, <2>4
  <2>3. /\ mailed' \in Seq(T) /\ Len(mailed') = Len(mailed) + RECIPIENTS
        /\ \A d \in 1..Len(mailed) : mailed'[d] = mailed[d]
        /\ \A d \in (Len(mailed) + 1)..(Len(mailed) + RECIPIENTS) : mailed'[d] = none
    BY <1>0, <2>1, <2>2, Padded
  <2> QED  BY <2>2, <2>3, <2>4
<1>12. Deliveries = 1..n /\ Deliveries' = 1..(n + RECIPIENTS)
  BY <1>3, <1>9, <1>0 DEF Deliveries
<1>13. TablesInv'
  <2>3. n = RECIPIENTS * m
    BY DEF ReportsInv, TablesInv
  <2>1. n + RECIPIENTS = RECIPIENTS * (m + 1)
    BY <1>3, <1>0, <2>3
  <2>2. strained' \subseteq Deliveries'
    <3>1. 1..n \subseteq 1..(n + RECIPIENTS)
      BY <1>3, <1>0
    <3> QED  BY <1>1, <1>12, <3>1 DEF ReportsInv, TablesInv
  <2> QED  BY <1>1, <1>2, <1>5, <1>9, <1>10, <1>11, <2>1, <2>2 DEF ReportsInv, TablesInv
<1>14. SlotsInv'
  <2>1. SlotsInv /\ DOMAIN compliance_reports = 1..m /\ DOMAIN compliance_reports' = 1..(m + 1)
    BY <1>3, <1>5 DEF ReportsInv
  <2>2. ASSUME NEW i \in DOMAIN compliance_reports' PROVE compliance_reports'[i] \in (1..slot) \ slept
    <3>1. CASE i \in 1..m
      BY <1>5, <2>1, <3>1 DEF SlotsInv
    <3>2. CASE i = m + 1
      <4>1. report_schedule.next_run_at \notin slept /\ report_schedule.next_run_at <= slot
            /\ slot \in Nat
        BY <1>1, <2>1, ScheduleNow DEF SlotsInv
      <4> QED  BY <1>4, <1>5, <3>2, <4>1
    <3> QED  BY <1>3, <2>1, <3>1, <3>2
  <2> QED  BY <1>1, <1>2, <2>1, <2>2, ScheduleNow DEF SlotsInv
<1>15. /\ \A y : AtHand(y)' = AtHand(y) /\ \A place : PassAt(y, place)' <=> PassAt(y, place)
       /\ \A d : PassesWith(d)' = PassesWith(d) /\ Marking(d)' = Marking(d)
       /\ \A d \in 1..n : Row(d)' = Row(d)
  BY <1>1, <1>9 DEF AtHand, PassAt, PassesWith, Marking, Row
<1>16. ASSUME NEW y \in Passes PROVE PassInv(y)' /\ MailInv(y)'
  <2> PICK d : d = AtHand(y).id
    OBVIOUS
  <2>1. PassInv(y) /\ MailInv(y)
    BY DEF ReportsInv, MailsInv
  <2>2. AtHand(y)' = AtHand(y) /\ AtHand(y)'.id = d
    BY <1>15
  <2>3. ~PassAt(y, "idle") => d \in 1..n
    BY <1>12, HandNow
  <2>4. PassAt(y, "mail") \/ PassAt(y, "mark") => ~PassAt(y, "idle")
    BY DEF PassAt
  <2>5. PassInv(y)'
    <3>1. PassAt(y, "mail") => pass[y].link \in 1..links'[d]
      BY <1>10, <2>1, <2>3, <2>4 DEF PassInv
    <3>2. \A e \in Deliveries : e \in Deliveries'
      BY <1>0, <1>3, <1>12
    <3> QED  BY <1>1, <1>15, <2>1, <2>2, <3>1, <3>2 DEF PassInv
  <2>6. PassAt(y, "mark") => mailed'[d] # {}
    BY <1>11, <2>1, <2>3, <2>4 DEF MailInv
  <2>7. ~PassAt(y, "idle") /\ d \notin strained /\ Row(d)'.status # "deleted" =>
          /\ PassAt(y, "mail") => Row(d)'.link = pass[y].link
          /\ PassAt(y, "mark") => mailed'[d] = {Row(d)'.link}
    BY <1>11, <1>15, <2>1, <2>3 DEF MailInv, Clean
  <2> QED  BY <1>1, <1>15, <2>2, <2>5, <2>6, <2>7 DEF MailInv, Clean, Row
<1>17. ASSUME NEW d \in 1..n PROVE RowInv(d)'
  <2>1. RowInv(d) /\ mailed'[d] = mailed[d] /\ links'[d] = links[d] /\ Row(d)' = Row(d)
    BY <1>10, <1>11, <1>12, <1>15 DEF ReportsInv, MailsInv
  <2> QED  BY <1>1, <1>15, <2>1 DEF RowInv
<1>18. ASSUME NEW d \in (n + 1)..(n + RECIPIENTS) PROVE RowInv(d)'
  <2>1. d \notin 1..n /\ d \in Nat
    BY <1>3, <1>0
  <2>2. PassesWith(d)' = {}
    <3>1. \A y \in Passes : \A row \in pass[y].todo : row.id # d
      BY <1>12, <2>1 DEF ReportsInv, MailsInv, PassInv
    <3> QED  BY <1>15, <3>1 DEF PassesWith
  <2>3. Row(d)' = NewDelivery /\ mailed'[d] = {}
    BY <1>9, <1>11 DEF Row
  <2>4. /\ Row(d)'.status = "pending" /\ Row(d)'.attempts < MAX_DELIVERY_ATTEMPTS
        /\ mailed'[d] = {}
    BY <1>0, <1>6, <2>3
  <2> QED  BY <2>2, <2>4 DEF RowInv
<1>19. \A d \in Deliveries' : d \in 1..n \/ d \in (n + 1)..(n + RECIPIENTS)
  BY <1>0, <1>3, <1>12
<1> QED  BY <1>13, <1>14, <1>16, <1>17, <1>18, <1>19 DEF ReportsInv, MailsInv

-----------------------------------------------------------------------------

LEMMA ReportsInitially == ReportsInit => ReportsInv
<1> SUFFICES ASSUME ReportsInit PROVE ReportsInv
  OBVIOUS
<1> USE ReportDeliveryAssumption
<1>1. \A x \in Passes : pass[x].at = "idle" /\ pass[x].todo = {}
  BY PassForms DEF ReportsInit
<1>2. Deliveries = {}
  BY DEF ReportsInit, Deliveries
<1>3. TablesInv
  <2>1. report_schedule \in ReportSchedule
    BY DEF ReportsInit, ReportSchedule
  <2>2. put \in [Puts -> Put] /\ pass \in [Passes -> PassState]
    BY PassForms DEF ReportsInit, Put, NoPut
  <2>3. 0 = RECIPIENTS * 0
    OBVIOUS
  <2> QED  BY <2>1, <2>2, <2>3 DEF ReportsInit, TablesInv, Deliveries
<1>4. SlotsInv
  BY DEF ReportsInit, SlotsInv, NoPut
<1>5. MailsInv
  BY <1>1, <1>2 DEF MailsInv, PassInv, MailInv, PassAt
<1> QED  BY <1>3, <1>4, <1>5 DEF ReportsInv

LEMMA ReportsStep ==
  ASSUME ReportsInv, [ReportsNext]_reportVars PROVE ReportsInv'
<1>1. CASE UNCHANGED reportVars
  <2>1. SlotsInv' /\ report_schedule' \in ReportSchedule /\ put' \in [Puts -> Put]
    BY <1>1, SlotsKeep DEF reportVars, ReportsInv, TablesInv
  <2> QED  BY <1>1, <2>1, MailsKeep DEF reportVars
<1>2. ASSUME NEW x \in Passes, PassWorks(x) \/ TryBreaks(x) \/ PassDies(x) PROVE ReportsInv'
  BY <1>2, ClaimStep, StoreLinkStep, SendStep, MarkStep, FailureStep, PassDiesStep DEF PassWorks
<1> QED  BY <1>1, <1>2, CreateReportStep, DeleteStep, RunStep, SlotStep, MinutesStep, AskStep,
            WritePutStep DEF ReportsNext

LEMMA ReportsInvariance == ReportsSpec => []ReportsInv
<1>1. ReportsInv /\ [ReportsNext]_reportVars => ReportsInv'
  BY ReportsStep
<1> QED  BY <1>1, ReportsInitially, PTL DEF ReportsSpec

LEMMA ReportsTypes == ReportsInv => ReportsTypeOK
<1> SUFFICES ASSUME ReportsInv PROVE ReportsTypeOK
  OBVIOUS
<1>1. /\ links \in [Deliveries -> Nat] /\ \A d \in Deliveries : mailed[d] \subseteq 1..links[d]
  BY TablesNow DEF ReportsInv, MailsInv, RowInv
<1>2. \A x \in Passes : /\ pass[x].at \in {"idle", "link", "mail", "mark", "catch"}
                        /\ PassAt(x, "idle") <=> pass[x].todo = {}
                        /\ \A row \in pass[x].todo : row.id \in Deliveries
  BY PassForms DEF ReportsInv, TablesInv, MailsInv, PassInv
<1>3. slept \subseteq 1..MAX_SLOTS
  BY ScheduleNow, ReportDeliveryAssumption DEF ReportsInv, SlotsInv
<1> QED  BY <1>1, <1>2, <1>3 DEF ReportsInv, TablesInv, ReportsTypeOK

(* Types, and a pass that is not idle has rows of the table in hand. *)
THEOREM ReportsAreTyped == ReportsSpec => []ReportsTypeOK
BY ReportsInvariance, ReportsTypes, PTL

(* The row of a delivery tells what its recipient has, for any number of        *)
(* passes that overlap, of recipients and of attempts.                         *)
THEOREM RowsTellMail == ReportsSpec => []RowTellsMail
<1>1. ASSUME ReportsInv PROVE RowTellsMail
  <2>1. ASSUME NEW d \in Deliveries
        PROVE  /\ Row(d).status = "sent" => mailed[d] # {}
               /\ d \notin strained =>
                    /\ Row(d).status = "sent" => mailed[d] = {Row(d).link}
                    /\ Row(d).status = "failed" => mailed[d] = {}
                    /\ Row(d).status = "pending" =>
                         mailed[d] = {} \/ \E x \in Passes : PassAt(x, "mark") /\ AtHand(x).id = d
    BY <1>1 DEF ReportsInv, MailsInv, RowInv, Marking
  <2> QED  BY <2>1 DEF RowTellsMail
<1> QED  BY <1>1, ReportsInvariance, PTL

(* No report is made of a slot that was slept through, whatever edits of the    *)
(* schedule overlap.                                                           *)
THEOREM SleptIsSkipped == ReportsSpec => []SleptSlotsStay
<1>1. ReportsInv => SleptSlotsStay
  BY DEF ReportsInv, SlotsInv, SleptSlotsStay
<1> QED  BY <1>1, ReportsInvariance, PTL

-----------------------------------------------------------------------------

(* The services side by side, as the run checks them, stay typed: a step of  *)
(* one of them is none, or a step of their own, for the others.              *)
THEOREM ServicesIsTyped == ServicesSpec => []ServicesTypeOK
<1> DEFINE Services == DepositsInv /\ ListenerInv /\ ReportsInv /\ PipelineInv
<1>1. ServicesInit => Services
  BY DepositsInitially, ListenerInitially, ReportsInitially, PipelineInitially DEF ServicesInit
<1>2. [ServicesNext]_servicesVars =>
        /\ [DepositsNext]_scheduleVars /\ [ListenerNext]_listenerVars
        /\ [ReportsNext]_reportVars /\ [Next]_vars
  <2>1. CASE OnDeposits /\ DepositsNext
    BY <2>1 DEF OnDeposits
  <2>2. CASE OnListener /\ ListenerNext
    BY <2>2 DEF OnListener
  <2>3. CASE OnReports /\ ReportsNext
    BY <2>3 DEF OnReports
  <2>4. CASE OnQueue /\ Next
    BY <2>4 DEF OnQueue
  <2>5. CASE UNCHANGED servicesVars
    BY <2>5 DEF servicesVars
  <2> QED
    BY <2>1, <2>2, <2>3, <2>4, <2>5 DEF ServicesNext
<1>3. Services /\ [ServicesNext]_servicesVars => Services'
  BY <1>2, DepositsStep, ListenerStep, ListenerStutter, ReportsStep, PipelineKept
<1>4. Services => ServicesTypeOK
  BY ReportsTypes, InvIsTyped DEF ServicesTypeOK, DepositsInv, PipelineInv
<1> QED
  BY <1>1, <1>3, <1>4, PTL DEF ServicesSpec

=============================================================================
