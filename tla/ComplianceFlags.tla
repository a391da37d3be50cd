---------------------------- MODULE ComplianceFlags ----------------------------
(***************************************************************************)
(* Compliance flags of one surety: the routes that work on them and on the *)
(* escalation rules (apps/api/src/routes/compliance.ts), and the job that  *)
(* escalates old ones (jobs/compliance-escalation.ts), whose runs may      *)
(* overlap on several instances.  Nothing in the repository inserts a      *)
(* flag: FlagRaised is external.                                           *)
(***************************************************************************)
EXTENDS Naturals, Sequences, FiniteSets

CONSTANTS
  Flags,        \* ids of compliance_flags
  Rules,        \* ids of compliance_escalation_rules
  Staff,        \* surety admins
  Thresholds,   \* values of age_threshold_hours
  FirstRules,   \* the rules there are at first, by id
  Checkers,     \* runs of the job that may overlap
  CRITICAL,     \* highest priority: low, medium, high, critical are 1 to 4, medium the default
  MAX_AGE,      \* bound of the model: age of a flag
  MAX_ACTS      \* bound of the model: acts of the staff, errors and crashes

ASSUME ComplianceFlagsAssumption ==
  /\ Thresholds \subseteq Nat \ {0}
  /\ FirstRules \in [Rules -> [is_active : BOOLEAN, target : Staff \cup {"nobody"},
                               after : Thresholds]]
  /\ CRITICAL \in Nat /\ CRITICAL >= 2 /\ MAX_AGE \in Nat /\ MAX_ACTS \in Nat

VARIABLES
  rules,       \* compliance_escalation_rules, by id
  flags,       \* compliance_flags
  age,         \* how old each flag is
  history,     \* compliance_escalation_history, of each flag in turn
  checker,     \* what each run of the job is doing
  escalated,   \* history: how often each flag was escalated
  lost,        \* history: flags with an escalation that broke off or was refused
  acts         \* bound of the model

flagVars == <<rules, flags, age, history, checker, escalated, lost, acts>>

-----------------------------------------------------------------------------

Flag == [resolution_status : {"none", "open", "resolved"},
         case_status : {"new", "investigating", "escalated", "resolved"},
         priority : 1..CRITICAL, assigned_to : Staff \cup {"nobody"}]

(* The admin to escalate to is that of a rule for a specific user, who may not *)
(* be named, or the surety itself.                                             *)
Rule == [is_active : BOOLEAN, target : Staff \cup {"nobody"}, after : Thresholds]

Row == [rule : Rules, previous : Staff \cup {"nobody"}, new : Staff, disturbed : BOOLEAN]

Resting == [at |-> "rest"]

(* A rule as a run of the job read it. *)
Reading == [rule : Rules, target : Staff \cup {"nobody"}, after : Thresholds]

Checker == [at : {"rest"}]
  \cup [at : {"rule"}, readings : SUBSET Reading]
  \cup [at : {"flag"}, readings : SUBSET Reading, rule : Rules, target : Staff,
        flags : SUBSET Flags]
  \cup [at : {"record"}, readings : SUBSET Reading, rule : Rules, target : Staff,
        flags : SUBSET Flags, flag : Flags, disturbed : BOOLEAN]

Raised(f) == flags[f].resolution_status # "none"

Act == acts < MAX_ACTS /\ acts' = acts + 1

(* Escalations of a flag that are not on record yet. *)
Recording(f) == {j \in Checkers : checker[j].at = "record" /\ checker[j].flag = f}

(* Those see the flag change hands. *)
Disturbed(f, j) ==
  IF j \in Recording(f) THEN [checker[j] EXCEPT !.disturbed = TRUE] ELSE checker[j]

-----------------------------------------------------------------------------
(* Routes, and whoever raises flags *)

FlagRaised(f) ==
  /\ ~Raised(f)
  /\ flags' = [flags EXCEPT ![f].resolution_status = "open"]
  /\ UNCHANGED <<rules, age, history, checker, escalated, lost, acts>>

FlagAges ==
  /\ \E f \in Flags : Raised(f) /\ age[f] < MAX_AGE
  /\ age' = [f \in Flags |-> IF Raised(f) /\ age[f] < MAX_AGE THEN age[f] + 1 ELSE age[f]]
  /\ UNCHANGED <<rules, flags, history, checker, escalated, lost, acts>>

(* POST /flags/:id/resolve: the case status stays. *)
ResolveFlag(f) ==
  /\ flags[f].resolution_status = "open" /\ Act
  /\ flags' = [flags EXCEPT ![f].resolution_status = "resolved"]
  /\ UNCHANGED <<rules, age, history, checker, escalated, lost>>

(* POST /flags/:id/assign: a resolved or escalated flag, too. *)
AssignFlag(f, u) ==
  /\ Raised(f) /\ Act
  /\ flags' = [flags EXCEPT ![f].assigned_to = u, ![f].case_status = "investigating"]
  /\ checker' = [j \in Checkers |-> Disturbed(f, j)]
  /\ UNCHANGED <<rules, age, history, escalated, lost>>

(* POST /flags/:id/status *)
SetCase(f, case_status, priority) ==
  /\ Raised(f) /\ Act
  /\ flags' = [flags EXCEPT ![f].case_status = case_status, ![f].priority = priority]
  /\ UNCHANGED <<rules, age, history, checker, escalated, lost>>

(* POST /escalation-rules, PUT /escalation-rules/:id *)
SetRule(r, row) ==
  /\ Act
  /\ rules' = [s \in DOMAIN rules \cup {r} |-> IF s = r THEN row ELSE rules[s]]
  /\ UNCHANGED <<flags, age, history, checker, escalated, lost>>

Used(r) == \E f \in Flags : \E k \in 1..Len(history[f]) : history[f][k].rule = r

(* DELETE /escalation-rules/:id: ON DELETE SET NULL meets a column that is NOT *)
(* NULL, so a rule with history cannot be deleted.                             *)
DeleteRule(r) ==
  /\ r \in DOMAIN rules /\ ~Used(r) /\ Act
  /\ rules' = [s \in DOMAIN rules \ {r} |-> rules[s]]
  /\ UNCHANGED <<flags, age, history, checker, escalated, lost>>

-----------------------------------------------------------------------------
(* checkAndEscalate, every 15 minutes *)

SetChecker(j, state) == checker' = [checker EXCEPT ![j] = state]

StartCheck(j) ==
  LET active == {r \in DOMAIN rules : rules[r].is_active}
  IN /\ checker[j] = Resting /\ active # {}
     /\ SetChecker(j, [at |-> "rule", readings |->
          {[rule |-> r, target |-> rules[r].target, after |-> rules[r].after] : r \in active}])
     /\ UNCHANGED <<rules, flags, age, history, escalated, lost, acts>>

ToEscalate(after) ==
  {f \in Flags : /\ flags[f].resolution_status = "open"
                 /\ flags[f].case_status # "escalated"
                 /\ age[f] > after}

(* The run has done a rule and goes to the next one. *)
NextRule(rest) == IF rest = {} THEN Resting ELSE [at |-> "rule", readings |-> rest]

NextFlag(j, rest) ==
  IF rest = {} THEN NextRule(checker[j].readings) ELSE
    [at |-> "flag", readings |-> checker[j].readings, rule |-> checker[j].rule,
     target |-> checker[j].target, flags |-> rest]

(* A rule that no flag is due for, or without a target, is left. *)
SelectFlags(j, reading) ==
  /\ checker[j].at = "rule" /\ reading \in checker[j].readings
  /\ LET due == ToEscalate(reading.after)
         rest == checker[j].readings \ {reading}
     IN SetChecker(j, IF due = {} \/ reading.target = "nobody" THEN NextRule(rest)
                      ELSE [at |-> "flag", readings |-> rest, rule |-> reading.rule,
                            target |-> reading.target, flags |-> due])
  /\ UNCHANGED <<rules, flags, age, history, escalated, lost, acts>>

(* Mutant of Bumped: without an end. *)
BumpedOver(priority) == priority + 1

Bumped(priority) == IF priority < CRITICAL THEN priority + 1 ELSE priority

(* UPDATE compliance_flags, by its id alone *)
EscalateFlag(j, f) ==
  LET c == checker[j]
  IN /\ c.at = "flag" /\ f \in c.flags
     /\ flags' = [flags EXCEPT ![f].case_status = "escalated",
                               ![f].assigned_to = c.target,
                               ![f].priority = Bumped(@)]
     /\ checker' = [k \in Checkers |->
          IF k = j THEN [at |-> "record", readings |-> c.readings, rule |-> c.rule,
                         target |-> c.target, flags |-> c.flags \ {f}, flag |-> f,
                         disturbed |-> FALSE]
          ELSE Disturbed(f, k)]
     /\ escalated' = [escalated EXCEPT ![f] = @ + 1]
     /\ UNCHANGED <<rules, age, history, lost, acts>>

(* Mutant of PreviousAssignee: nobody had the flag. *)
NobodyBefore(f) == "nobody"

(* (SELECT assigned_to FROM compliance_flags ...), after the update *)
PreviousAssignee(f) == flags[f].assigned_to

RecordEscalation(j) ==
  LET c == checker[j]
  IN /\ c.at = "record" /\ c.rule \in DOMAIN rules
     /\ history' = [history EXCEPT ![c.flag] =
          Append(@, [rule |-> c.rule, previous |-> PreviousAssignee(c.flag),
                     new |-> c.target, disturbed |-> c.disturbed])]
     /\ SetChecker(j, NextFlag(j, c.flags))
     /\ UNCHANGED <<rules, flags, age, escalated, lost, acts>>

(* The row is refused or Postgres fails: the run goes on with the next flag.   *)
(* A row of a rule that was deleted meanwhile is always refused.               *)
RecordFails(j) ==
  LET c == checker[j]
  IN /\ c.at = "record"
     /\ \/ c.rule \notin DOMAIN rules /\ UNCHANGED acts
        \/ c.rule \in DOMAIN rules /\ Act
     /\ lost' = lost \cup {c.flag}
     /\ SetChecker(j, NextFlag(j, c.flags))
     /\ UNCHANGED <<rules, flags, age, history, escalated>>

(* The UPDATE of one flag fails, which the run leaves as it is. *)
FlagFails(j, f) ==
  /\ checker[j].at = "flag" /\ f \in checker[j].flags /\ Act
  /\ SetChecker(j, NextFlag(j, checker[j].flags \ {f}))
  /\ UNCHANGED <<rules, flags, age, history, escalated, lost>>

(* Reading the flags of a rule fails, or the process dies. *)
CheckBreaks(j) ==
  /\ checker[j] # Resting /\ Act
  /\ lost' = IF checker[j].at = "record" THEN lost \cup {checker[j].flag} ELSE lost
  /\ SetChecker(j, Resting)
  /\ UNCHANGED <<rules, flags, age, history, escalated>>

-----------------------------------------------------------------------------

FlagsInit ==
  /\ rules = FirstRules
  /\ flags = [f \in Flags |-> [resolution_status |-> "none", case_status |-> "new",
                               priority |-> 2, assigned_to |-> "nobody"]]
  /\ age = [f \in Flags |-> 0] /\ history = [f \in Flags |-> << >>]
  /\ checker = [j \in Checkers |-> Resting]
  /\ escalated = [f \in Flags |-> 0]
  /\ lost = {} /\ acts = 0

FlagsNext ==
  \/ FlagAges
  \/ \E f \in Flags :
       \/ FlagRaised(f) \/ ResolveFlag(f) \/ \E u \in Staff : AssignFlag(f, u)
       \/ \E case_status \in {"new", "investigating", "escalated", "resolved"},
             priority \in 1..CRITICAL : SetCase(f, case_status, priority)
  \/ \E r \in Rules : DeleteRule(r) \/ \E row \in Rule : SetRule(r, row)
  \/ \E j \in Checkers :
       \/ StartCheck(j) \/ RecordEscalation(j) \/ RecordFails(j) \/ CheckBreaks(j)
       \/ checker[j].at = "rule" /\ \E reading \in checker[j].readings : SelectFlags(j, reading)
       \/ \E f \in Flags : EscalateFlag(j, f) \/ FlagFails(j, f)

FlagsSpec == FlagsInit /\ [][FlagsNext]_flagVars

-----------------------------------------------------------------------------

FlagsTypeOK ==
  /\ DOMAIN rules \subseteq Rules /\ rules \in [DOMAIN rules -> Rule]
  /\ flags \in [Flags -> Flag] /\ age \in [Flags -> 0..MAX_AGE]
  /\ history \in [Flags -> Seq(Row)] /\ checker \in [Checkers -> Checker]
  /\ \A j \in Checkers : checker[j].at = "flag" => checker[j].flags # {}
  /\ escalated \in [Flags -> Nat] /\ lost \subseteq Flags /\ acts \in 0..MAX_ACTS
  /\ \A f \in Flags : \A k \in 1..Len(history[f]) : history[f][k].rule \in DOMAIN rules

(* Every escalation of a flag has one row of history, however many runs of the *)
(* job overlap, unless its row was refused or the run broke off in between. And *)
(* the row does not tell who had the flag before: it names the new assignee    *)
(* twice, unless the flag changed hands once more before the row was written.  *)
HistoryOfEscalations ==
  \A f \in Flags :
    /\ f \notin lost => escalated[f] = Len(history[f]) + Cardinality(Recording(f))
    /\ \A k \in 1..Len(history[f]) :
         LET row == history[f][k] IN row.previous = row.new \/ row.disturbed

=============================================================================
