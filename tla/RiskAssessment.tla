--------------------------- MODULE RiskAssessment ---------------------------
(***************************************************************************)
(* The rated rows of tools (store/repo_tool_risk.go) and what authorises a  *)
(* call by them (risk/authorizer.go), for the tools of one upstream.        *)
(*                                                                          *)
(* Reconcile reads all rows and writes them in one commit, without locks;   *)
(* ApplyAIResult reads a row and writes it some time later, whatever the     *)
(* provider was asked about; overrides lock their rows.  Levels are ranks, low = 1 to blocked = 4, and 0 is none.    *)
(* A description is the sequence of the classes of words its name is made   *)
(* of and the set of the classes of phrases it says.                        *)
(***************************************************************************)
EXTENDS Naturals, Sequences, FiniteSets, FiniteSetsExt

CONSTANTS
    Tools,        \* original names
    Syncs,        \* goroutines that may be in Reconcile
    Descriptions, \* what an upstream may say of a tool
    Answers,      \* levels the provider may answer
    MaxOps,       \* bound: reconciliations, ratings and reviews
    Absent

VARIABLES
    row,     \* tool_risk_assessment
    sync,    \* Reconcile, called by the observer or by an administrator
    rating,  \* a tool the provider is asked about, with what it is shown of it
    decided, \* history: the descriptions a rating or an override was decided on
    overtaken, \* history: those stored while the provider rated an earlier one
    ops      \* history: how much of MaxOps is used

vars == <<row, sync, rating, decided, overtaken, ops>>

Levels == 1..4
Statuses == {"pending", "rated", "needs_review", "stale", "error", "removed"}
Used == {"rated", "needs_review"}
Profiles == {"legacy_unrestricted", "readonly", "standard", "privileged"}

(***************************************************************************)
(* DeterministicAssessment: the floor below which a rating does not count.  *)
(***************************************************************************)
DeterministicAssessment(d) ==
    LET Has(classes) == \E i \in 1..Len(d.name) : d.name[i] \in classes
        Says(classes) == d.says \cap classes # {}
        readOnly == d.name # <<>> /\ d.name[1] = "read"
    IN Max({1} \cup
           {l \in {2} : Has({"create", "edit"})} \cup
           {l \in {3} :
              \/ Has({"delete", "destroy"}) /\ ~(readOnly /\ Says({"deleted items"}))
              \/ Has({"halt"}) \/ Says({"stop node"}) \/ Has({"exec"})
              \/ Says({"credential"})
                 /\ (Has({"create", "grant", "delete"}) \/ Says({"change"}))
              \/ Says({"send"}) /\ ~readOnly} \cup
           {l \in {4} : Says({"wipe", "shell"})})

Floor(r) == DeterministicAssessment(r.def)

(* EffectiveLevel, and computeEffectiveLevel for the stored column.          *)
Level(status, ai, manual, floor) ==
    IF status \notin Used \/ (manual = 0 /\ ai = 0) THEN 3
    ELSE IF manual # 0 THEN manual
    ELSE Max({ai, floor})
EffectiveLevel(r) == Level(r.status, r.ai, r.manual, Floor(r))

ProfileAllows(profile, level) ==
    \/ profile = "legacy_unrestricted"
    \/ level <= (CASE profile = "readonly" -> 1
                   [] profile = "standard" -> 2
                   [] OTHER -> 3)

Row == [status : Statuses, def : Descriptions, ai : {0} \cup Levels,
        review : BOOLEAN, manual : {0} \cup Levels, effective : Levels]

TypeOK ==
    /\ row \in [Tools -> Row \cup {Absent}]
    /\ decided \in [Tools -> SUBSET Descriptions]
    /\ overtaken \in [Tools -> SUBSET Descriptions]
    /\ rating.pc \in {"idle", "asked", "rated"} /\ ops \in 0..MaxOps

Init ==
    /\ row = [t \in Tools |-> Absent]
    /\ sync = [s \in Syncs |-> Absent]
    /\ rating = [pc |-> "idle"]
    /\ decided = [t \in Tools |-> {}]
    /\ overtaken = [t \in Tools |-> {}]
    /\ ops = 0

Op == ops < MaxOps /\ ops' = ops + 1

----------------------------------------------------------------------------
(* Reconcile: the rows it found, ...                                         *)
ReadRows(s) ==
    /\ sync[s] = Absent /\ Op
    /\ \E known \in SUBSET Tools : \E list \in [known -> Descriptions] :
           sync' = [sync EXCEPT ![s] = [list |-> list, old |-> row]]
    /\ UNCHANGED <<row, rating, decided, overtaken>>

(* Mutation: only a tool that comes back has to be rated again.              *)
Reconciled_SameRating(old, def) ==
    IF old.status = "removed" THEN "pending" ELSE old.status
(* The status a listed tool gets from what its row was when it was read.     *)
Reconciled(old, def) ==
    IF old.def # def THEN "stale"
    ELSE IF old.status = "removed" THEN "pending" ELSE old.status

newRow(def) == [status |-> "pending", def |-> def, ai |-> 0, review |-> FALSE,
                manual |-> 0, effective |-> 3]

(* ... and all it writes, decided by those rows.  Ratings and overrides      *)
(* stored since keep their own columns.  The unique index makes a second     *)
(* creation of a row fail, and with it the whole commit.                     *)
Reconcile(s) ==
    /\ sync[s] # Absent
    /\ \A t \in DOMAIN sync[s].list : sync[s].old[t] = Absent => row[t] = Absent
    /\ row' = [t \in Tools |->
           LET old == sync[s].old[t]
               def == sync[s].list[t]
               status == Reconciled(old, def)
           IN IF t \in DOMAIN sync[s].list
              THEN IF old = Absent THEN newRow(def)
                   ELSE [row[t] EXCEPT !.status = status, !.def = def,
                           !.effective = Level(status, old.ai, old.manual,
                                               DeterministicAssessment(def))]
              ELSE IF old = Absent THEN row[t]
                   ELSE IF old.status = "removed" THEN row[t]
                   ELSE [row[t] EXCEPT !.status = "removed", !.effective = 3]]
    /\ sync' = [sync EXCEPT ![s] = Absent]
    /\ overtaken' = [t \in Tools |->
           IF rating.pc # "idle" /\ rating.tool = t /\ row'[t].def # rating.about
           THEN overtaken[t] \cup {row'[t].def} ELSE overtaken[t]]
    /\ UNCHANGED <<rating, decided, ops>>

(* A schema that is no JSON, a failing call: nothing is written.             *)
ReconcileFails(s) ==
    /\ sync[s] # Absent /\ sync' = [sync EXCEPT ![s] = Absent]
    /\ UNCHANGED <<row, rating, decided, overtaken, ops>>

----------------------------------------------------------------------------
(* ListAssessable and ListNeedsReview; ReassessTool takes any row.           *)
Listed(scope) ==
    {t \in Tools : row[t] # Absent /\
        CASE scope = "pending" -> row[t].status \in {"pending", "stale", "error"}
          [] scope = "needs_review" -> row[t].status = scope /\ row[t].manual = 0
          [] scope = "one" -> TRUE}

Ask(scope) ==
    /\ rating.pc = "idle" /\ Op
    /\ \E t \in Listed(scope) : rating' = [pc |-> "asked", tool |-> t, about |-> row[t].def]
    /\ UNCHANGED <<row, sync, decided, overtaken>>

(* MarkAIError, when the provider gave no answer (runJob and AssessPending;  *)
(* ReassessTool marks nothing).                                              *)
MarkAIError ==
    /\ rating.pc = "asked"
    /\ row' = [row EXCEPT ![rating.tool].status = "error",
                          ![rating.tool].effective = 3]
    /\ rating' = [pc |-> "idle"]
    /\ UNCHANGED <<sync, decided, overtaken, ops>>

GivesUp ==
    /\ rating.pc = "asked" /\ rating' = [pc |-> "idle"]
    /\ UNCHANGED <<row, sync, decided, overtaken, ops>>

(* ApplyAIResult: its first Get, ...                                         *)
Get ==
    /\ rating.pc = "asked"
    /\ \E level \in Answers, doubtful \in BOOLEAN :
           rating' = [pc |-> "rated", tool |-> rating.tool, about |-> rating.about,
                      level |-> level, doubtful |-> doubtful, current |-> row[rating.tool]]
    /\ UNCHANGED <<row, sync, decided, overtaken, ops>>

(* ReviewReasonsFor: the provider asks for it, is not confident, or is below *)
(* the floor.                                                                *)
NeedsReview(level, doubtful, floor) == doubtful \/ level < floor

(* ... and its write, whatever the row is by now: neither compares the       *)
(* fingerprint with that of the description the provider was shown.          *)
ApplyAIResult ==
    LET t == rating.tool
        review == NeedsReview(rating.level, rating.doubtful, Floor(rating.current))
        status == IF review THEN "needs_review" ELSE "rated"
    IN /\ rating.pc = "rated"
       /\ row' = [row EXCEPT ![t].ai = rating.level, ![t].review = review,
                    ![t].status = status,
                    ![t].effective = Level(status, rating.level,
                                 rating.current.manual, Floor(rating.current))]
       /\ decided' = [decided EXCEPT ![t] = @ \cup {rating.about}]
       /\ rating' = [pc |-> "idle"]
       /\ UNCHANGED <<sync, overtaken, ops>>

----------------------------------------------------------------------------
(* A level below the floor has to be forced, with a reason.                  *)
ValidateManualOverride(level, floor, forced) == level >= floor \/ forced

(* All targets, or none when one of them is unknown or refused.              *)
BulkSetManualOverride(targets, level, forced) ==
    /\ targets # {} /\ Op
    /\ \A t \in targets : row[t] # Absent
    /\ \A t \in targets : ValidateManualOverride(level, Floor(row[t]), forced)
    /\ row' = [t \in Tools |->
           IF t \notin targets THEN row[t]
           ELSE [row[t] EXCEPT !.manual = level, !.status = "rated",
                               !.effective = level]]
    /\ decided' = [t \in Tools |-> IF t \notin targets THEN decided[t]
                                   ELSE decided[t] \cup {row[t].def}]
    /\ UNCHANGED <<sync, rating, overtaken>>

StatusAfterClearing(r) ==
    IF r.status \notin Used THEN r.status
    ELSE IF r.ai = 0 THEN "pending"
    ELSE IF r.review THEN "needs_review" ELSE "rated"

ClearManualOverride(t) ==
    /\ row[t] # Absent /\ Op
    /\ LET status == StatusAfterClearing(row[t])
       IN row' = [row EXCEPT ![t].manual = 0, ![t].status = status,
                    ![t].effective = Level(status, row[t].ai, 0, Floor(row[t]))]
    /\ UNCHANGED <<sync, rating, decided, overtaken>>

Next ==
    \/ \E s \in Syncs : ReadRows(s) \/ Reconcile(s) \/ ReconcileFails(s)
    \/ \E scope \in {"pending", "needs_review", "one"} : Ask(scope)
    \/ MarkAIError \/ GivesUp \/ Get \/ ApplyAIResult
    \/ \E targets \in SUBSET Tools, level \in Answers, forced \in BOOLEAN :
           BulkSetManualOverride(targets, level, forced)
    \/ \E t \in Tools : ClearManualOverride(t)

Spec == Init /\ [][Next]_vars

----------------------------------------------------------------------------
(* FilterSources, by the rows ListByUpstream returns, decides what a key     *)
(* sees in a list; ...                                                       *)
ListByUpstream == {t \in Tools : row[t] # Absent /\ row[t].status # "removed"}
FilterSources(profile, tools) ==
    {t \in tools : ProfileAllows(profile,
        IF t \in ListByUpstream THEN EffectiveLevel(row[t]) ELSE 3)}

(* Mutation: the stored column instead of the row's own level.               *)
AuthorizeSource_Column(profile, t) ==
    ProfileAllows(profile, IF row[t] = Absent THEN 3 ELSE row[t].effective)
(* ... AuthorizeSource, by the row alone, what it may call.                  *)
AuthorizeSource(profile, t) ==
    ProfileAllows(profile, IF row[t] = Absent THEN 3 ELSE EffectiveLevel(row[t]))

(* A key may call exactly the tools it is shown, whatever raced over the row *)
(* (two readers of it, one of which skips removed tools).                    *)
ListedIffCallable ==
    \A profile \in Profiles, t \in Tools :
        t \in FilterSources(profile, Tools) <=> AuthorizeSource(profile, t)

(* A level other than the default is that of a rating or an override decided *)
(* on the description the row has, in whatever order reconciliations,        *)
(* ratings and reviews are read and written.  The one way around it is an    *)
(* answer of the provider to a question that a reconciliation overtook:      *)
(* ApplyAIResult stores it on the new description.                           *)
UsedAfterDecision ==
    \A t \in Tools : row[t] # Absent /\ row[t].status \in Used
                     => row[t].def \in decided[t] \cup overtaken[t]
=============================================================================
