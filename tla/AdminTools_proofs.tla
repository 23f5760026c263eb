-------------------------- MODULE AdminTools_proofs ---------------------------
(***************************************************************************)
(* Proofs about four more components of AdminServices, for every value of   *)
(* their constants: the risk records of tools, the script library, the      *)
(* XiaoZhi connector and one rating job from the inside.                    *)
(***************************************************************************)
EXTENDS AdminServices, FiniteSetTheorems, SequenceTheorems, FunctionTheorems,
        WellFoundedInduction, TLAPS


----------------------------------------------------------------------------
(* Levels.                                                                   *)
LEMMA MaxOfLevels ==
    ASSUME NEW S \in SUBSET Risk!Levels, S # {}
    PROVE  Risk!Max(S) \in Risk!Levels
<1>1. \E x \in S : \A y \in S : x >= y
  <2>1. \A y \in S : y = 1 \/ y = 2 \/ y = 3 \/ y = 4
    BY DEF Risk!Levels
  <2>2. CASE 4 \in S
    BY <2>1, <2>2
  <2>3. CASE 3 \in S /\ 4 \notin S
    BY <2>1, <2>3
  <2>4. CASE 2 \in S /\ 3 \notin S /\ 4 \notin S
    BY <2>1, <2>4
  <2>5. CASE 2 \notin S /\ 3 \notin S /\ 4 \notin S
    BY <2>1, <2>5
  <2> QED
    BY <2>2, <2>3, <2>4, <2>5
<1>2. Risk!Max(S) \in S
  BY <1>1 DEF Risk!Max
<1> QED
  BY <1>2

LEMMA FloorIsLevel ==
    ASSUME NEW d
    PROVE  Risk!DeterministicAssessment(d) \in Risk!Levels
<1> DEFINE Has(classes) == \E i \in 1..Len(d.name) : d.name[i] \in classes
           Says(classes) == d.says \cap classes # {}
           readOnly == d.name # <<>> /\ d.name[1] = "read"
           second == {l \in {2} : Has({"create", "edit"})}
           third == {l \in {3} :
              \/ Has({"delete", "destroy"}) /\ ~(readOnly /\ Says({"deleted items"}))
              \/ Has({"halt"}) \/ Says({"stop node"}) \/ Has({"exec"})
              \/ Says({"credential"})
                 /\ (Has({"create", "grant", "delete"}) \/ Says({"change"}))
              \/ Says({"send"}) /\ ~readOnly}
           fourth == {l \in {4} : Says({"wipe", "shell"})}
           all == {1} \cup second \cup third \cup fourth
<1>1. second \subseteq {2} /\ third \subseteq {3} /\ fourth \subseteq {4}
  OBVIOUS
<1>2. Risk!DeterministicAssessment(d) = Risk!Max(all)
  BY DEF Risk!DeterministicAssessment
<1> HIDE DEF second, third, fourth
<1>3. all \in SUBSET Risk!Levels /\ all # {}
  BY <1>1 DEF Risk!Levels
<1> HIDE DEF all
<1> QED
  BY <1>2, <1>3, MaxOfLevels

LEMMA LevelIsLevel ==
    ASSUME NEW status, NEW ai \in {0} \cup Risk!Levels, NEW manual \in {0} \cup Risk!Levels,
           NEW floor \in Risk!Levels
    PROVE  Risk!Level(status, ai, manual, floor) \in Risk!Levels
<1>1. CASE status \notin Risk!Used \/ (manual = 0 /\ ai = 0)
  BY <1>1 DEF Risk!Level, Risk!Levels
<1>2. CASE ~(status \notin Risk!Used \/ (manual = 0 /\ ai = 0)) /\ manual # 0
  BY <1>2 DEF Risk!Level
<1>3. CASE ~(status \notin Risk!Used \/ (manual = 0 /\ ai = 0)) /\ manual = 0
  <2>1. {ai, floor} \in SUBSET Risk!Levels /\ {ai, floor} # {}
    BY <1>3
  <2> QED
    BY <1>3, <2>1, MaxOfLevels DEF Risk!Level
<1> QED
  BY <1>1, <1>2, <1>3

----------------------------------------------------------------------------
(* The descriptions a used level of a tool may be stored on.                 *)
Known(t) == decided[t] \cup overtaken[t]

(* A row, or a copy of one, that is used has one of them; ...                *)
Backed(r, t) == r \in Risk!Row /\ (r.status \in Risk!Used => r.def \in Known(t))

(* ... the rows a Reconcile has read were so, and no row disappears.         *)
HasRead(s) ==
    /\ DOMAIN sync[s].list \subseteq Tools
    /\ \A t \in DOMAIN sync[s].list : sync[s].list[t] \in Descriptions
    /\ \A t \in Tools : sync[s].old[t] = Absent \/
                        (Backed(sync[s].old[t], t) /\ row[t] \in Risk!Row)
RatedTool ==
    /\ rating.pc \in {"idle", "asked", "rated"}
    /\ rating.pc \in {"asked", "rated"} => rating.tool \in Tools /\ row[rating.tool] \in Risk!Row
    /\ rating.pc \in {"asked", "rated"} => rating.about \in Descriptions
    /\ rating.pc \in {"asked", "rated"} =>
          row[rating.tool].def = rating.about \/ row[rating.tool].def \in overtaken[rating.tool]
    /\ rating.pc = "rated" =>
          rating.level \in Risk!Levels /\ rating.doubtful \in BOOLEAN /\ rating.current \in Risk!Row

RiskInv ==
    /\ row \in [Tools -> Risk!Row \cup {Absent}]
    /\ decided \in [Tools -> SUBSET Descriptions]
    /\ overtaken \in [Tools -> SUBSET Descriptions]
    /\ \A t \in Tools : row[t] = Absent \/ Backed(row[t], t)
    /\ DOMAIN sync = Syncs
    /\ \A s \in Syncs : sync[s] = Absent \/ HasRead(s)
    /\ RatedTool

LEMMA RiskInit == Risk!Init => RiskInv
BY DEF Risk!Init, RiskInv, RatedTool

(* What a step that writes rows has to show.                                 *)
Asked == IF rating.pc \in {"asked", "rated"} THEN {rating.tool} ELSE {}
Writes ==
    /\ row' \in [Tools -> Risk!Row \cup {Absent}]
    /\ decided' \in [Tools -> SUBSET Descriptions]
    /\ overtaken' \in [Tools -> SUBSET Descriptions]
    /\ \A t \in Tools : /\ decided[t] \subseteq decided'[t] /\ overtaken[t] \subseteq overtaken'[t]
                        /\ row[t] \in Risk!Row => row'[t] \in Risk!Row
                        /\ t \in Asked => row'[t].def \in {row[t].def, rating.about} \cup overtaken'[t]
                        /\ row'[t] = row[t] \/ Backed(row[t], t)'

LEMMA RowsMove ==
    ASSUME RiskInv, Writes, DOMAIN sync' = Syncs,
           \A s \in Syncs : sync'[s] = Absent \/ sync'[s] = sync[s] \/ HasRead(s)',
           rating' = rating \/ RatedTool'
    PROVE  RiskInv'
<1>1. ASSUME NEW r, NEW t \in Tools, Backed(r, t)
      PROVE  Backed(r, t)'
  <2>1. Known(t) \subseteq Known(t)'
    BY DEF Writes, Known
  <2> QED
    BY <1>1, <2>1 DEF Backed
<1>2. ASSUME NEW t \in Tools
      PROVE  row'[t] = Absent \/ Backed(row[t], t)'
  <2>1. row[t] = Absent \/ Backed(row[t], t)
    BY DEF RiskInv
  <2>2. row'[t] = row[t] \/ Backed(row[t], t)'
    BY DEF Writes
  <2>3. Backed(row[t], t) /\ row'[t] = row[t] => Backed(row[t], t)'
    <3>1. Known(t) \subseteq Known(t)'
      BY DEF Writes, Known
    <3> QED
      BY <3>1 DEF Backed
  <2> QED
    BY <2>1, <2>2, <2>3
<1>3. ASSUME NEW s \in Syncs, sync'[s] = sync[s], sync[s] # Absent
      PROVE  HasRead(s)'
  <2>1. HasRead(s)
    BY <1>3 DEF RiskInv
  <2>2. ASSUME NEW t \in Tools, sync'[s].old[t] # Absent
        PROVE  Backed(sync[s].old[t], t)' /\ row'[t] \in Risk!Row
    <3>1. Backed(sync[s].old[t], t) /\ row[t] \in Risk!Row
      BY <1>3, <2>1, <2>2 DEF HasRead
    <3>2. row'[t] \in Risk!Row /\ Known(t) \subseteq Known(t)'
      BY <3>1 DEF Writes, Known
    <3> QED
      BY <1>3, <3>1, <3>2 DEF Backed
  <2> QED
    BY <1>3, <2>1, <2>2 DEF HasRead
<1>4. RatedTool'
  <2>1. CASE rating' = rating
    <3>1. RatedTool
      BY DEF RiskInv
    <3>2. \A t \in Tools : row[t] \in Risk!Row => row'[t] \in Risk!Row
      BY DEF Writes
    <3>3. \A t \in Asked \cap Tools :
              /\ row'[t].def \in {row[t].def, rating.about} \cup overtaken'[t]
              /\ overtaken[t] \subseteq overtaken'[t]
      BY DEF Writes
    <3> QED
      BY <2>1, <3>1, <3>2, <3>3 DEF RatedTool, Asked
  <2> QED
    BY <2>1
<1>5. /\ row' \in [Tools -> Risk!Row \cup {Absent}]
      /\ decided' \in [Tools -> SUBSET Descriptions] /\ overtaken' \in [Tools -> SUBSET Descriptions]
  BY DEF Writes
<1> QED
  BY <1>2, <1>3, <1>4, <1>5 DEF RiskInv

(* A step that leaves the rows alone.                                        *)
LEMMA NoWrite ==
    ASSUME RiskInv, UNCHANGED <<row, decided, overtaken>>
    PROVE  Writes
BY DEF RiskInv, Writes

(* A write of one row.                                                       *)
LEMMA OneRow ==
    ASSUME RiskInv, NEW t \in Tools, NEW new, row' = [row EXCEPT ![t] = new],
           decided' \in [Tools -> SUBSET Descriptions], new \in Risk!Row,
           \A q \in Tools : decided[q] \subseteq decided'[q],
           overtaken' = overtaken, row[t] \in Risk!Row, new.def = row[t].def,
           new.status \in Risk!Used => new.def \in Known(t)'
    PROVE  Writes
<1>1. \A q \in Tools : row'[q] = IF q = t THEN new ELSE row[q]
  BY DEF RiskInv
<1> QED
  BY <1>1 DEF RiskInv, Writes, Backed

LEMMA ReadRowsStep ==
    ASSUME RiskInv, NEW s \in Syncs, Risk!ReadRows(s)
    PROVE  RiskInv'
<1>1. PICK known \in SUBSET Tools : \E list \in [known -> Descriptions] :
          sync' = [sync EXCEPT ![s] = [list |-> list, old |-> row]]
  BY DEF Risk!ReadRows
<1>2. PICK list \in [known -> Descriptions] :
          sync' = [sync EXCEPT ![s] = [list |-> list, old |-> row]]
  BY <1>1
<1>3. UNCHANGED <<row, rating, decided, overtaken>> /\ DOMAIN sync' = Syncs
  BY <1>2 DEF Risk!ReadRows, RiskInv
<1>4. HasRead(s)'
  <2>1. sync'[s] = [list |-> list, old |-> row]
    BY <1>2 DEF RiskInv
  <2>2. ASSUME NEW t \in Tools, row[t] # Absent
        PROVE  Backed(row[t], t)' /\ row'[t] \in Risk!Row
    <3>1. Backed(row[t], t)
      BY <2>2 DEF RiskInv
    <3> QED
      BY <1>3, <3>1 DEF Backed, Known
  <2>3. /\ sync'[s].list = list /\ sync'[s].old = row /\ DOMAIN list \subseteq Tools
        /\ \A t \in DOMAIN list : list[t] \in Descriptions
    BY <2>1
  <2>4. \A t \in Tools : sync'[s].old[t] = Absent
                         \/ (Backed(sync[s].old[t], t)' /\ row'[t] \in Risk!Row)
    BY <1>3, <2>2, <2>3 DEF Backed, Known
  <2> QED
    BY <2>3, <2>4 DEF HasRead, Backed
<1>5. \A q \in Syncs \ {s} : sync'[q] = sync[q]
  BY <1>2 DEF RiskInv
<1> QED
  BY <1>3, <1>4, <1>5, NoWrite, RowsMove

LEMMA FreeStep ==
    ASSUME RiskInv, NEW s \in Syncs, sync' = [sync EXCEPT ![s] = Absent], Writes,
           rating' = rating
    PROVE  RiskInv'
<1>1. DOMAIN sync' = Syncs /\ \A q \in Syncs : sync'[q] = Absent \/ sync'[q] = sync[q]
  BY DEF RiskInv
<1> QED
  BY <1>1, RowsMove

LEMMA ReconcileStep ==
    ASSUME RiskInv, NEW s \in Syncs, Risk!Reconcile(s)
    PROVE  RiskInv'
<1>1. HasRead(s) /\ UNCHANGED <<rating, decided>> /\ sync' = [sync EXCEPT ![s] = Absent]
  BY DEF Risk!Reconcile, RiskInv
<1>0. overtaken' = [t \in Tools |->
           IF rating.pc # "idle" /\ rating.tool = t /\ row'[t].def # rating.about
           THEN overtaken[t] \cup {row'[t].def} ELSE overtaken[t]]
  BY DEF Risk!Reconcile
<1>2. ASSUME NEW t \in Tools
      PROVE  /\ row'[t] \in Risk!Row \cup {Absent}
             /\ row[t] \in Risk!Row => row'[t] \in Risk!Row
             /\ row'[t] = row[t] \/ Backed(row[t], t)'
  <2>0. overtaken[t] \subseteq overtaken'[t]
    BY <1>0
  <2> DEFINE old == sync[s].old[t]
             def == sync[s].list[t]
             status == Risk!Reconciled(old, def)
             effective == Risk!Level(status, old.ai, old.manual, Risk!DeterministicAssessment(def))
  <2>1. row'[t] = IF t \in DOMAIN sync[s].list
              THEN IF old = Absent THEN Risk!newRow(def)
                   ELSE [row[t] EXCEPT !.status = status, !.def = def, !.effective = effective]
              ELSE IF old = Absent THEN row[t]
                   ELSE IF old.status = "removed" THEN row[t]
                   ELSE [row[t] EXCEPT !.status = "removed", !.effective = 3]
    BY DEF Risk!Reconcile
  <2>2. old = Absent \/ (Backed(old, t) /\ row[t] \in Risk!Row)
    BY <1>1 DEF HasRead
  <2>3. t \in DOMAIN sync[s].list => def \in Descriptions
    BY <1>1 DEF HasRead
  <2> HIDE DEF old, def
  <2>4. CASE t \in DOMAIN sync[s].list /\ old = Absent
    <3>1. row'[t] = Risk!newRow(def)
      BY <2>1, <2>4
    <3>2. Risk!newRow(def) \in Risk!Row /\ Risk!newRow(def).status \notin Risk!Used
      BY <2>3, <2>4 DEF Risk!newRow, Risk!Row, Risk!Statuses, Risk!Used, Risk!Levels
    <3> QED
      BY <3>1, <3>2 DEF Backed
  <2>5. CASE t \in DOMAIN sync[s].list /\ old # Absent
    <3>1. row'[t] = [row[t] EXCEPT !.status = status, !.def = def, !.effective = effective]
      BY <2>1, <2>5
    <3>2. effective \in Risk!Levels
      <4>1. old.ai \in {0} \cup Risk!Levels /\ old.manual \in {0} \cup Risk!Levels
        BY <2>2, <2>5 DEF Backed, Risk!Row
      <4> QED
        BY <4>1, FloorIsLevel, LevelIsLevel
    <3>3. status \in Risk!Statuses /\ (status \in Risk!Used => def = old.def /\ status = old.status)
      BY <2>2, <2>5 DEF Backed, Risk!Row, Risk!Reconciled, Risk!Statuses, Risk!Used
    <3> HIDE DEF status, effective
    <3>4. row'[t] \in Risk!Row /\ row'[t].status = status /\ row'[t].def = def
      BY <2>2, <2>3, <2>5, <3>1, <3>2, <3>3 DEF Risk!Row
    <3> QED
      BY <1>1, <2>0, <2>2, <2>5, <3>3, <3>4 DEF Backed, Known
  <2>6. CASE t \notin DOMAIN sync[s].list /\ old # Absent /\ old.status # "removed"
    <3>1. row'[t] = [row[t] EXCEPT !.status = "removed", !.effective = 3]
      BY <2>1, <2>6
    <3>2. 3 \in Risk!Levels
      BY DEF Risk!Levels
    <3>3. row'[t] \in Risk!Row /\ row'[t].status = "removed"
      BY <2>2, <2>6, <3>1, <3>2 DEF Risk!Row, Risk!Statuses
    <3> QED
      BY <3>3 DEF Backed, Risk!Used
  <2>7. CASE t \notin DOMAIN sync[s].list /\ (old = Absent \/ old.status = "removed")
    BY <2>1, <2>7 DEF RiskInv
  <2> QED
    BY <2>4, <2>5, <2>6, <2>7
<1>3. Writes
  <2>1. row' = [t \in Tools |-> row'[t]]
    BY DEF Risk!Reconcile
  <2>2. ASSUME NEW t \in Tools
        PROVE  /\ overtaken[t] \subseteq overtaken'[t]
               /\ t \in Asked => row'[t].def \in {row[t].def, rating.about} \cup overtaken'[t]
    BY <1>0 DEF Asked
  <2>3. overtaken' \in [Tools -> SUBSET Descriptions]
    <3>1. ASSUME NEW t \in Tools, rating.pc # "idle", rating.tool = t
          PROVE  row'[t].def \in Descriptions
      BY <1>2, <3>1 DEF RiskInv, RatedTool, Risk!Row
    <3> QED
      BY <1>0, <3>1 DEF RiskInv
  <2> QED
    BY <1>1, <1>2, <2>1, <2>2, <2>3 DEF Writes, RiskInv
<1> QED
  BY <1>1, <1>3, FreeStep

LEMMA RatingSteps ==
    ASSUME RiskInv,
           \/ \E scope \in {"pending", "needs_review", "one"} : Risk!Ask(scope)
           \/ Risk!GivesUp \/ Risk!Get
    PROVE  RiskInv'
<1>1. UNCHANGED <<row, sync, decided, overtaken>> /\ DOMAIN sync' = Syncs
  BY DEF Risk!Ask, Risk!GivesUp, Risk!Get, RiskInv
<1>2. Writes
  BY <1>1, NoWrite
<1>3. RatedTool'
  <2>1. ASSUME NEW scope, Risk!Ask(scope)
        PROVE  RatedTool'
    <3>1. PICK t \in Risk!Listed(scope) : rating' = [pc |-> "asked", tool |-> t, about |-> row[t].def]
      BY <2>1 DEF Risk!Ask
    <3>2. t \in Tools /\ row[t] \in Risk!Row
      BY <3>1 DEF Risk!Listed, RiskInv
    <3> QED
      BY <1>1, <3>1, <3>2 DEF RatedTool, Risk!Row
  <2>2. CASE Risk!GivesUp
    BY <2>2 DEF Risk!GivesUp, RatedTool
  <2>3. CASE Risk!Get
    <3>1. PICK level \in Answers, doubtful \in BOOLEAN :
              rating' = [pc |-> "rated", tool |-> rating.tool, about |-> rating.about,
                         level |-> level, doubtful |-> doubtful, current |-> row[rating.tool]]
      BY <2>3 DEF Risk!Get
    <3>2. rating.tool \in Tools /\ row[rating.tool] \in Risk!Row /\ level \in Risk!Levels
        /\ rating.about \in Descriptions
        /\ row[rating.tool].def \in {rating.about} \cup overtaken[rating.tool]
      BY <2>3, AnswersAreLevels DEF Risk!Get, RiskInv, RatedTool, Risk!Levels
    <3>3. /\ rating'.pc = "rated" /\ rating'.tool = rating.tool /\ rating'.about = rating.about
          /\ rating'.level = level /\ rating'.doubtful = doubtful /\ rating'.current = row[rating.tool]
      BY <3>1
    <3> QED
      BY <1>1, <3>2, <3>3 DEF RatedTool
  <2> QED
    BY <2>1, <2>2, <2>3
<1> QED
  BY <1>1, <1>2, <1>3, RowsMove

LEMMA MarkAIErrorStep ==
    ASSUME RiskInv, Risk!MarkAIError
    PROVE  RiskInv'
<1> DEFINE t == rating.tool
           new == [row[t] EXCEPT !.status = "error", !.effective = 3]
<1>1. t \in Tools /\ row[t] \in Risk!Row
  BY DEF Risk!MarkAIError, RiskInv, RatedTool
<1>2. row' = [row EXCEPT ![t] = new] /\ UNCHANGED <<sync, decided, overtaken>> /\ DOMAIN sync' = Syncs
  BY DEF Risk!MarkAIError, RiskInv
<1>3. new \in Risk!Row /\ new.status \notin Risk!Used /\ new.def = row[t].def
  <2>1. 3 \in Risk!Levels
    BY DEF Risk!Levels
  <2> QED
    BY <1>1, <2>1 DEF Risk!Row, Risk!Statuses, Risk!Used
<1> HIDE DEF new
<1>4. Writes
  BY <1>1, <1>2, <1>3, OneRow DEF RiskInv
<1>5. RatedTool'
  BY DEF Risk!MarkAIError, RatedTool
<1> QED
  BY <1>2, <1>4, <1>5, RowsMove

LEMMA ApplyAIResultStep ==
    ASSUME RiskInv, Risk!ApplyAIResult
    PROVE  RiskInv'
<1> PICK t \in Tools : t = rating.tool
  BY DEF Risk!ApplyAIResult, RiskInv, RatedTool
<1> DEFINE review == Risk!NeedsReview(rating.level, rating.doubtful, Risk!Floor(rating.current))
           status == IF review THEN "needs_review" ELSE "rated"
           effective == Risk!Level(status, rating.level, rating.current.manual, Risk!Floor(rating.current))
           new == [row[t] EXCEPT !.ai = rating.level, !.review = review, !.status = status,
                                 !.effective = effective]
<1>1. /\ t \in Tools /\ row[t] \in Risk!Row /\ rating.level \in Risk!Levels
      /\ rating.doubtful \in BOOLEAN /\ rating.current \in Risk!Row
  BY DEF Risk!ApplyAIResult, RiskInv, RatedTool
<1>2. /\ row' = [row EXCEPT ![t] = new] /\ sync' = sync /\ DOMAIN sync' = Syncs
      /\ decided' = [decided EXCEPT ![t] = @ \cup {rating.about}] /\ overtaken' = overtaken
  BY DEF Risk!ApplyAIResult, RiskInv
<1>3. review \in BOOLEAN /\ status \in Risk!Statuses /\ effective \in Risk!Levels
  <2>1. rating.current.manual \in {0} \cup Risk!Levels
    BY <1>1 DEF Risk!Row
  <2>2. Risk!Floor(rating.current) \in Risk!Levels
    BY FloorIsLevel DEF Risk!Floor
  <2>3. effective \in Risk!Levels
    BY <1>1, <2>1, <2>2, LevelIsLevel
  <2>4. review \in BOOLEAN
    BY <1>1 DEF Risk!NeedsReview
  <2> QED
    BY <2>3, <2>4 DEF Risk!Statuses
<1> HIDE DEF review, status, effective
<1>4. new \in Risk!Row /\ new.def = row[t].def
  BY <1>1, <1>3 DEF Risk!Row
<1> HIDE DEF new
<1>5. rating.about \in Descriptions /\ row[t].def \in {rating.about} \cup overtaken[t]
  BY DEF Risk!ApplyAIResult, RiskInv, RatedTool
<1>6. /\ decided' \in [Tools -> SUBSET Descriptions]
      /\ \A q \in Tools : decided[q] \subseteq decided'[q]
      /\ row[t].def \in Known(t)'
  BY <1>1, <1>2, <1>5 DEF RiskInv, Known
<1>7. Writes
  BY <1>1, <1>2, <1>4, <1>6, OneRow
<1>8. RatedTool'
  BY DEF Risk!ApplyAIResult, RatedTool
<1> QED
  BY <1>2, <1>7, <1>8, RowsMove

LEMMA BulkStep ==
    ASSUME RiskInv, NEW targets \in SUBSET Tools, NEW level \in Answers, NEW forced,
           Risk!BulkSetManualOverride(targets, level, forced)
    PROVE  RiskInv'
<1>1. /\ UNCHANGED <<sync, rating, overtaken>> /\ DOMAIN sync' = Syncs /\ \A t \in targets : row[t] # Absent
      /\ row' = [t \in Tools |->
           IF t \notin targets THEN row[t]
           ELSE [row[t] EXCEPT !.manual = level, !.status = "rated", !.effective = level]]
      /\ decided' = [t \in Tools |-> IF t \notin targets THEN decided[t]
                                   ELSE decided[t] \cup {row[t].def}]
  BY DEF Risk!BulkSetManualOverride, RiskInv
<1>2. level \in Risk!Levels
  BY AnswersAreLevels DEF Risk!Levels
<1>3. ASSUME NEW t \in Tools
      PROVE  /\ row'[t] \in Risk!Row \cup {Absent} /\ decided'[t] \in SUBSET Descriptions
             /\ decided[t] \subseteq decided'[t]
             /\ row[t] \in Risk!Row => row'[t] \in Risk!Row
             /\ row'[t] = row[t] \/ Backed(row[t], t)'
             /\ t \in Asked => row'[t].def \in {row[t].def, rating.about} \cup overtaken'[t]
  <2>1. CASE t \notin targets
    BY <1>1, <2>1 DEF RiskInv
  <2>2. CASE t \in targets
    <3>1. row[t] \in Risk!Row
      BY <1>1, <2>2 DEF RiskInv
    <3>2. row'[t] = [row[t] EXCEPT !.manual = level, !.status = "rated", !.effective = level]
      BY <1>1, <2>2
    <3>3. row'[t] \in Risk!Row /\ row'[t].def = row[t].def /\ row[t].def \in Descriptions
      BY <1>2, <3>1, <3>2 DEF Risk!Row, Risk!Statuses
    <3>4. decided'[t] = decided[t] \cup {row[t].def}
      BY <1>1, <2>2
    <3> QED
      BY <1>1, <3>3, <3>4 DEF RiskInv, Backed, Known
  <2> QED
    BY <2>1, <2>2
<1>4. Writes
  <2>1. row' = [t \in Tools |-> row'[t]] /\ decided' = [t \in Tools |-> decided'[t]]
    BY <1>1
  <2>2. row' \in [Tools -> Risk!Row \cup {Absent}] /\ decided' \in [Tools -> SUBSET Descriptions]
    BY <1>3, <2>1
  <2> QED
    BY <1>1, <1>3, <2>2 DEF Writes, RiskInv
<1> QED
  BY <1>1, <1>4, RowsMove

LEMMA ClearStep ==
    ASSUME RiskInv, NEW t \in Tools, Risk!ClearManualOverride(t)
    PROVE  RiskInv'
<1> DEFINE status == Risk!StatusAfterClearing(row[t])
           effective == Risk!Level(status, row[t].ai, 0, Risk!Floor(row[t]))
           new == [row[t] EXCEPT !.manual = 0, !.status = status, !.effective = effective]
<1>1. row[t] # Absent /\ UNCHANGED <<sync, rating, decided, overtaken>> /\ DOMAIN sync' = Syncs
  BY DEF Risk!ClearManualOverride, RiskInv
<1>2. Backed(row[t], t) /\ row[t] \in Risk!Row
  BY <1>1 DEF RiskInv, Backed
<1>3. row' = [row EXCEPT ![t] = new]
  BY DEF Risk!ClearManualOverride, RiskInv
<1>4. status \in Risk!Statuses /\ (status \in Risk!Used => row[t].status \in Risk!Used)
  BY <1>2 DEF Risk!StatusAfterClearing, Risk!Statuses, Risk!Used, Risk!Row
<1>5. effective \in Risk!Levels
  <2>1. row[t].ai \in {0} \cup Risk!Levels /\ Risk!Floor(row[t]) \in Risk!Levels
    BY <1>2, FloorIsLevel DEF Risk!Floor, Risk!Row
  <2> QED
    BY <2>1, LevelIsLevel
<1> HIDE DEF status, effective
<1>6. new \in Risk!Row /\ new.status = status /\ new.def = row[t].def
  BY <1>2, <1>4, <1>5 DEF Risk!Row
<1> HIDE DEF new
<1>7. Writes
  BY <1>1, <1>2, <1>3, <1>4, <1>6, OneRow DEF RiskInv, Backed, Known
<1> QED
  BY <1>1, <1>7, RowsMove

LEMMA RiskNext == RiskInv /\ [Risk!Next]_riskVars => RiskInv'
<1> SUFFICES ASSUME RiskInv, [Risk!Next]_riskVars PROVE RiskInv'
  OBVIOUS
<1>1. ASSUME NEW s \in Syncs, Risk!ReadRows(s) \/ Risk!Reconcile(s) \/ Risk!ReconcileFails(s)
      PROVE  RiskInv'
  <2>1. CASE Risk!ReconcileFails(s)
    <3>1. Writes
      BY <2>1, NoWrite DEF Risk!ReconcileFails
    <3> QED
      BY <2>1, <3>1, FreeStep DEF Risk!ReconcileFails
  <2> QED
    BY <1>1, <2>1, ReadRowsStep, ReconcileStep
<1>2. CASE UNCHANGED riskVars
  <2>1. Writes
    BY <1>2, NoWrite DEF riskVars
  <2>2. rating' = rating /\ sync' = sync /\ DOMAIN sync' = Syncs
    BY <1>2 DEF riskVars, RiskInv
  <2> QED
    BY <2>1, <2>2, RowsMove
<1> QED
  BY <1>1, <1>2, RatingSteps, MarkAIErrorStep, ApplyAIResultStep, BulkStep, ClearStep DEF
     Risk!Next

LEMMA RiskSafe == RiskInv => Risk!UsedAfterDecision
BY DEF RiskInv, Backed, Known, Risk!UsedAfterDecision

(* Both readers of a row give it one level, which for a removed tool is the  *)
(* default of the list.                                                      *)
LEMMA ReadersAgree == Risk!ListedIffCallable
<1>1. ASSUME NEW t \in Tools, row[t] # Absent, t \notin Risk!ListByUpstream
      PROVE  Risk!EffectiveLevel(row[t]) = 3
  BY <1>1 DEF Risk!ListByUpstream, Risk!EffectiveLevel, Risk!Level, Risk!Used
<1>2. ASSUME NEW profile \in Risk!Profiles, NEW t \in Tools
      PROVE  t \in Risk!FilterSources(profile, Tools) <=> Risk!AuthorizeSource(profile, t)
  <2>1. (IF t \in Risk!ListByUpstream THEN Risk!EffectiveLevel(row[t]) ELSE 3)
          = IF row[t] = Absent THEN 3 ELSE Risk!EffectiveLevel(row[t])
    BY <1>1 DEF Risk!ListByUpstream
  <2> QED
    BY <2>1 DEF Risk!FilterSources, Risk!AuthorizeSource
<1> QED
  BY <1>2 DEF Risk!ListedIffCallable


(* However ratings, overrides, syncs and bulk updates overlap, a row whose  *)
(* level decides calls has a description the provider was asked about or an *)
(* administrator overrode, unless a reconciliation stored it while the      *)
(* provider was asked about an earlier one (Reconcile, ApplyAIResult,       *)
(* BulkSetManualOverride, ClearManualOverride).                             *)
THEOREM RatingsUsedAfterDecision ==
    Spec => []UsedAfterDecision
<1>1. Init => RiskInv
  BY RiskInit DEF Init
<1>2. RiskInv /\ [Next]_allVars => RiskInv'
  <2>1. [Next]_allVars => [Risk!Next]_riskVars
    BY DEF Next, allVars, riskVars
  <2> QED
    BY <2>1, RiskNext
<1>3. RiskInv => UsedAfterDecision
  BY RiskSafe DEF UsedAfterDecision
<1> QED
  BY <1>1, <1>2, <1>3, PTL DEF Spec


(* The list of tools and the check of a call read one level from a row, so  *)
(* a profile shows exactly the tools it lets be called (FilterSources,      *)
(* AuthorizeSource).                                                        *)
THEOREM ListsAgreeWithCalls == Spec => []ListedIffCallable
<1>1. ListedIffCallable
  BY ReadersAgree DEF ListedIffCallable
<1> QED
  BY <1>1, PTL


-----------------------------------------------------------------------------



(* What an administrator's request, a launch and a finished launch are.      *)
AdminRecord ==
    {Library!Idle} \cup [does : {"bind"}, up : Upstreams, ref : Library!References]
           \cup [does : {"delete"}, script : ScriptIds]
RanRecord == [ref : Library!References, bytes : Contents]

LibraryTypes ==
    /\ ref \in [Upstreams -> Library!References \cup {Nobody}]
    /\ author \in [Admins -> AdminRecord]
    /\ scriptRefMu \in Admins \cup {Nobody}
    /\ started \in [Upstreams -> Library!References \cup {Nobody}]
    /\ ran \in [Upstreams -> RanRecord \cup {Nobody}]
    /\ unchecked \subseteq Upstreams

(* The directories: a version is published in a file, and a script that is   *)
(* not deleted has its directory.                                            *)
VersionFiles(id) ==
    /\ DOMAIN files[id] \subseteq Nat /\ IsFiniteSet(DOMAIN files[id])
    /\ DOMAIN versions[id] \subseteq DOMAIN files[id]
MetaRow(id) ==
    /\ meta[id] \in [status : {"active", "trash", "moved"}, current : Nat]
    /\ meta[id].status = "active" => id \in DOMAIN versions
Directories ==
    /\ DOMAIN versions = DOMAIN files
    /\ \A id \in DOMAIN files : VersionFiles(id)
    /\ \A id \in DOMAIN meta : MetaRow(id)

(* scriptRefMu: who has checked a reference or a script still finds it so.   *)
Checked(a) ==
    /\ author[a] # Library!Idle => scriptRefMu = a
    /\ author[a].does = "bind" => Library!Published(author[a].ref)
    /\ author[a].does = "delete" =>
          \A u \in Upstreams : ref[u] # Nobody => ref[u].script # author[a].script

(* An upstream is bound to what is published, unless a backup brought it     *)
(* otherwise, and has executed what it was bound to, a critical script only  *)
(* without restrictions.                                                     *)
Bound(u) == ref[u] # Nobody /\ u \notin unchecked => Library!Published(ref[u])
Allowed(u) ==
    /\ started[u] # Nobody => (started[u].hash \in Critical => started[u].unrestricted)
    /\ ran[u] # Nobody =>
          /\ ran[u].bytes = ran[u].ref.hash
          /\ ran[u].bytes \in Critical => ran[u].ref.unrestricted

LibraryInv ==
    /\ LibraryTypes /\ Directories
    /\ \A a \in Admins : Checked(a)
    /\ \A u \in Upstreams : Bound(u) /\ Allowed(u)

LEMMA LibraryInit == Library!Init => LibraryInv
<1> SUFFICES ASSUME Library!Init PROVE LibraryInv
  OBVIOUS
<1>1. LibraryTypes
  BY DEF Library!Init, LibraryTypes, AdminRecord
<1>2. Directories
  BY DEF Library!Init, Directories
<1>3. \A a \in Admins : Checked(a)
  BY DEF Library!Init, Checked, Library!Idle
<1>4. \A u \in Upstreams : Bound(u) /\ Allowed(u)
  BY DEF Library!Init, Bound, Allowed
<1> QED
  BY <1>1, <1>2, <1>3, <1>4 DEF LibraryInv

(* There is a next version, and it is new.                                   *)
LEMMA NextIsNew ==
    ASSUME LibraryInv, NEW id, Library!Active(id)
    PROVE  /\ Library!NextAvailableVersion(id) \in Nat
           /\ Library!NextAvailableVersion(id) \notin DOMAIN files[id]
<1> DEFINE F == DOMAIN files[id]
           c == meta[id].current
           k == Cardinality(F)
           New == {n \in (c + 1)..(c + k + 1) : n \notin F}
<1>1. c \in Nat /\ F \subseteq Nat /\ IsFiniteSet(F)
  BY DEF LibraryInv, Directories, MetaRow, VersionFiles, Library!Active
<1>2. k \in Nat
  BY <1>1, FS_CardinalityType
<1> HIDE DEF F, c, k
<1>3. New # {}
  <2> SUFFICES ASSUME New = {} PROVE FALSE
    OBVIOUS
  <2>1. (c + 1)..(c + k + 1) \in SUBSET F
    BY DEF New
  <2>2. Cardinality((c + 1)..(c + k + 1)) = k + 1
    BY <1>1, <1>2, FS_Interval
  <2>3. Cardinality((c + 1)..(c + k + 1)) <= k
    BY <2>1, <1>1, FS_Subset DEF k
  <2> QED
    BY <2>2, <2>3, <1>2
<1>4. New \in SUBSET Nat
  BY <1>1, <1>2 DEF New
<1>5. PICK n \in New : \A m \in New : ~ (<<m, n>> \in OpToRel(<, Nat))
  BY <1>3, <1>4, WFMin, NatLessThanWellFounded, Zenon
<1>6. \A m \in New : ~ (m < n)
  BY <1>4, <1>5, Zenon DEF OpToRel
<1>7. \A m \in (c + 1)..(n - 1) : m \in F
  BY <1>1, <1>2, <1>4, <1>6 DEF New
<1>8. n \in (c + 1)..(c + k + 1) /\ n \notin F
  BY DEF New
<1>9. Library!NextAvailableVersion(id) \in (c + 1)..(c + k + 1) /\ Library!NextAvailableVersion(id) \notin F
  BY <1>7, <1>8 DEF Library!NextAvailableVersion, Library!Cardinality, Cardinality, c, k, F
<1> QED
  BY <1>9, <1>1, <1>2 DEF F

(* A step that only adds to what is published and rests the requests, or     *)
(* leaves them alone, keeps everything.                                      *)
LEMMA PublishedStays ==
    ASSUME LibraryInv, Directories',
           \A r \in Library!References : Library!Published(r) => Library!Published(r)',
           UNCHANGED <<ref, ran, unchecked>>,
           \/ UNCHANGED <<author, scriptRefMu, started>>
           \/ Library!Restarted
    PROVE  LibraryInv'
<1>1. LibraryTypes'
  BY DEF LibraryInv, LibraryTypes, Library!Restarted, AdminRecord
<1>2. ASSUME NEW a \in Admins
      PROVE  Checked(a)'
  <2>1. author[a].does = "bind" => author[a].ref \in Library!References
    BY DEF LibraryInv, LibraryTypes, AdminRecord, Library!Idle
  <2>2. CASE UNCHANGED <<author, scriptRefMu, started>>
    BY <2>1, <2>2 DEF LibraryInv, Checked
  <2>3. CASE Library!Restarted
    BY <2>3 DEF Library!Restarted, Checked, Library!Idle
  <2> QED
    BY <2>2, <2>3
<1>3. ASSUME NEW u \in Upstreams
      PROVE  Bound(u)' /\ Allowed(u)'
  BY DEF LibraryInv, LibraryTypes, Bound, Allowed, Library!Restarted
<1> QED
  BY <1>1, <1>2, <1>3 DEF LibraryInv

LEMMA CreateStep ==
    ASSUME LibraryInv, NEW id \in ScriptIds, NEW c \in Contents, Library!Create(id, c)
    PROVE  LibraryInv'
<1> DEFINE v == Library!FirstVersion(c)
           published == [status |-> "active", current |-> 1]
<1>1. DOMAIN v = {1} /\ IsFiniteSet({1})
  <2>1. DOMAIN <<>> = {}
    OBVIOUS
  <2>2. DOMAIN v = DOMAIN <<>> \cup {1}
    BY DEF Library!FirstVersion, Library!With
  <2> QED
    BY <2>1, <2>2, FS_Singleton
<1> HIDE DEF v
<1>2. /\ id \notin DOMAIN meta /\ id \notin DOMAIN versions
      /\ versions' = Library!With(versions, id, v) /\ files' = Library!With(files, id, v)
      /\ meta' = meta \/ meta' = Library!With(meta, id, published)
      /\ UNCHANGED <<ref, ran, unchecked>>
      /\ UNCHANGED <<author, scriptRefMu, started>> \/ Library!Restarted
  BY DEF Library!Create, v
<1> HIDE DEF published
<1>3. /\ DOMAIN versions' = DOMAIN versions \cup {id} /\ DOMAIN files' = DOMAIN files \cup {id}
      /\ versions'[id] = v /\ files'[id] = v
      /\ \A x \in DOMAIN versions : versions'[x] = versions[x]
      /\ \A x \in DOMAIN files \ {id} : files'[x] = files[x]
  BY <1>2 DEF Library!With
<1>4. /\ DOMAIN meta \subseteq DOMAIN meta' /\ DOMAIN meta' \subseteq DOMAIN meta \cup {id}
      /\ id \in DOMAIN meta' => meta'[id] = published
      /\ \A x \in DOMAIN meta : meta'[x] = meta[x]
  BY <1>2 DEF Library!With
<1>5. Directories'
  <2>1. \A x \in DOMAIN files' : VersionFiles(x)'
    BY <1>1, <1>2, <1>3 DEF LibraryInv, Directories, VersionFiles
  <2>2. \A x \in DOMAIN meta' : MetaRow(x)'
    BY <1>2, <1>3, <1>4 DEF LibraryInv, Directories, MetaRow, published
  <2> QED
    BY <1>3, <2>1, <2>2 DEF LibraryInv, Directories
<1>6. ASSUME NEW r, Library!Published(r)
      PROVE  Library!Published(r)'
  BY <1>2, <1>3, <1>4, <1>6 DEF LibraryInv, Directories, MetaRow, Library!Published, Library!Active
<1> QED
  BY <1>2, <1>5, <1>6, PublishedStays

LEMMA SaveVersionStep ==
    ASSUME LibraryInv, NEW id \in ScriptIds, NEW c \in Contents, Library!SaveContent(id, c)
    PROVE  LibraryInv'
<1> DEFINE n == Library!NextAvailableVersion(id)
<1>1. /\ Library!Active(id) /\ id \in DOMAIN meta /\ id \in DOMAIN files /\ id \in DOMAIN versions
      /\ MetaRow(id) /\ VersionFiles(id)
  BY DEF Library!SaveContent, LibraryInv, Directories, MetaRow, Library!Active
<1>2. n \in Nat /\ n \notin DOMAIN files[id] /\ n \notin DOMAIN versions[id]
  BY <1>1, NextIsNew DEF VersionFiles
<1> HIDE DEF n
<1>3. /\ UNCHANGED <<ref, ran, unchecked>>
      /\ UNCHANGED <<author, scriptRefMu, started>> \/ Library!Restarted
      /\ meta' = meta \/ meta' = [meta EXCEPT ![id].current = n]
      /\ \/ /\ files' = [files EXCEPT ![id] = Library!With(files[id], n, c)]
            /\ \/ versions' = [versions EXCEPT ![id] = Library!With(versions[id], n, c)]
               \/ versions' = versions
         \/ files' = [files EXCEPT ![id] = Library!Without(files[id], n)]
            /\ versions' = [versions EXCEPT ![id] = Library!Without(versions[id], n)]
  BY DEF Library!SaveContent, n
<1>4. /\ DOMAIN versions' = DOMAIN versions /\ DOMAIN files' = DOMAIN files
      /\ \A x \in DOMAIN files \ {id} : files'[x] = files[x]
      /\ \A x \in DOMAIN versions \ {id} : versions'[x] = versions[x]
      /\ \A m \in DOMAIN versions[id] :
            m \in DOMAIN versions'[id] /\ versions'[id][m] = versions[id][m]
      /\ \/ DOMAIN files'[id] = DOMAIN files[id] \cup {n}
            /\ DOMAIN versions'[id] \subseteq DOMAIN versions[id] \cup {n}
         \/ DOMAIN files'[id] = DOMAIN files[id]
            /\ DOMAIN versions'[id] = DOMAIN versions[id]
  <2>1. CASE /\ files' = [files EXCEPT ![id] = Library!With(files[id], n, c)]
             /\ \/ versions' = [versions EXCEPT ![id] = Library!With(versions[id], n, c)]
                \/ versions' = versions
    BY <1>1, <1>2, <2>1 DEF Library!With
  <2>2. CASE /\ files' = [files EXCEPT ![id] = Library!Without(files[id], n)]
             /\ versions' = [versions EXCEPT ![id] = Library!Without(versions[id], n)]
    BY <1>1, <1>2, <2>2 DEF Library!Without, Library!Restrict
  <2> QED
    BY <1>3, <2>1, <2>2
<1>5. /\ DOMAIN meta' = DOMAIN meta
      /\ \A x \in DOMAIN meta : meta'[x].status = meta[x].status
      /\ \A x \in DOMAIN meta : x = id \/ meta'[x] = meta[x]
      /\ meta'[id] \in [status : {"active", "trash", "moved"}, current : Nat]
  BY <1>1, <1>2, <1>3 DEF MetaRow
<1>6. Directories'
  <2>1. VersionFiles(id)'
    BY <1>1, <1>2, <1>4, FS_AddElement DEF VersionFiles
  <2>2. \A x \in DOMAIN files' : VersionFiles(x)'
    BY <1>4, <2>1 DEF LibraryInv, Directories, VersionFiles
  <2>3. \A x \in DOMAIN meta' : MetaRow(x)'
    BY <1>4, <1>5 DEF LibraryInv, Directories, MetaRow
  <2> QED
    BY <1>4, <2>2, <2>3 DEF LibraryInv, Directories
<1>7. ASSUME NEW r, Library!Published(r)
      PROVE  Library!Published(r)'
  <2>1. r.script \in DOMAIN versions
    BY <1>7 DEF Library!Published, Library!Active, LibraryInv, Directories, MetaRow
  <2>2. Library!Active(r.script)'
    BY <1>5, <1>7 DEF Library!Published, Library!Active
  <2>3. r.version \in DOMAIN versions'[r.script]
        /\ versions'[r.script][r.version] = versions[r.script][r.version]
    BY <1>4, <1>7, <2>1 DEF Library!Published
  <2> QED
    BY <1>7, <2>2, <2>3 DEF Library!Published
<1> QED
  BY <1>3, <1>6, <1>7, PublishedStays

LEMMA VersionSteps ==
    ASSUME LibraryInv, NEW id \in DOMAIN versions, NEW n \in DOMAIN files[id],
           \/ Library!ActivateVersion(id, n)
           \/ \E c \in Contents : Library!Edited(id, n, c)
    PROVE  LibraryInv'
<1>1. id \in DOMAIN files /\ VersionFiles(id) /\ n \in Nat
  BY DEF LibraryInv, Directories, VersionFiles
<1>2. CASE Library!ActivateVersion(id, n)
  <2>1. id \in DOMAIN meta /\ MetaRow(id)
    BY <1>2 DEF Library!ActivateVersion, Library!Active, LibraryInv, Directories
  <2>2. /\ meta' = [meta EXCEPT ![id].current = n]
        /\ UNCHANGED <<versions, files, ref, ran, unchecked, author, scriptRefMu, started>>
    BY <1>2 DEF Library!ActivateVersion
  <2>3. /\ DOMAIN meta' = DOMAIN meta
        /\ \A x \in DOMAIN meta : meta'[x].status = meta[x].status
        /\ \A x \in DOMAIN meta : x = id \/ meta'[x] = meta[x]
        /\ meta'[id] \in [status : {"active", "trash", "moved"}, current : Nat]
    BY <1>1, <2>1, <2>2 DEF MetaRow
  <2>4. Directories'
    BY <2>2, <2>3 DEF LibraryInv, Directories, MetaRow, VersionFiles
  <2>5. ASSUME NEW r, Library!Published(r)
        PROVE  Library!Published(r)'
    BY <2>2, <2>3, <2>5 DEF Library!Published, Library!Active
  <2> QED
    BY <2>2, <2>4, <2>5, PublishedStays
<1>3. ASSUME NEW c \in Contents, Library!Edited(id, n, c)
      PROVE  LibraryInv'
  <2>1. /\ files' = [files EXCEPT ![id] = [files[id] EXCEPT ![n] = c]]
        /\ UNCHANGED <<meta, versions, ref, ran, unchecked, author, scriptRefMu, started>>
    BY <1>3 DEF Library!Edited
  <2>2. DOMAIN files' = DOMAIN files /\ \A x \in DOMAIN files : DOMAIN files'[x] = DOMAIN files[x]
    BY <1>1, <2>1
  <2>3. Directories'
    BY <2>1, <2>2 DEF LibraryInv, Directories, MetaRow, VersionFiles
  <2>4. ASSUME NEW r, Library!Published(r)
        PROVE  Library!Published(r)'
    BY <2>1, <2>4 DEF Library!Published, Library!Active
  <2> QED
    BY <2>1, <2>3, <2>4, PublishedStays
<1> QED
  BY <1>2, <1>3

(* Requests that bind an upstream or delete a script, under scriptRefMu.     *)
LEMMA RequestSteps ==
    ASSUME LibraryInv, NEW a \in Admins,
           \/ \E u \in Upstreams, r \in Library!References : Library!CheckReference(a, u, r)
           \/ Library!StoreReference(a) \/ Library!ImportUpstreams(a)
           \/ \E id \in ScriptIds : Library!CheckUnused(a, id)
    PROVE  LibraryInv'
<1>1. UNCHANGED <<meta, versions, files, started, ran>>
  BY DEF Library!CheckReference, Library!StoreReference, Library!ImportUpstreams,
     Library!CheckUnused
<1>2. Directories'
  BY <1>1 DEF LibraryInv, Directories, MetaRow, VersionFiles
<1>3. \A r : Library!Published(r)' <=> Library!Published(r)
  BY <1>1 DEF Library!Published, Library!Active
<1>4. ASSUME NEW u \in Upstreams, NEW r \in Library!References, Library!CheckReference(a, u, r)
      PROVE  LibraryInv'
  <2>1. Library!Published(r)
    BY <1>4 DEF Library!CheckReference, Library!Valid, Library!Resolves, Library!Published
  <2>2. /\ scriptRefMu' = a /\ ref' = ref /\ unchecked' = unchecked
        /\ author' = [author EXCEPT ![a] = [does |-> "bind", up |-> u, ref |-> r]]
        /\ \A b \in Admins : author[b] = Library!Idle
    BY <1>4, NobodyIsNoAdmin DEF Library!CheckReference, LibraryInv, Checked
  <2>3. LibraryTypes'
    BY <1>1, <2>2 DEF LibraryInv, LibraryTypes, AdminRecord
  <2>4. \A b \in Admins : Checked(b)'
    BY <1>3, <2>1, <2>2 DEF LibraryInv, LibraryTypes, Checked, Library!Idle
  <2>5. \A v \in Upstreams : Bound(v)' /\ Allowed(v)'
    BY <1>1, <1>3, <2>2 DEF LibraryInv, Bound, Allowed
  <2> QED
    BY <1>2, <2>3, <2>4, <2>5 DEF LibraryInv
<1>5. CASE Library!StoreReference(a)
  <2>1. PICK u \in Upstreams, r \in Library!References :
            /\ author[a] = [does |-> "bind", up |-> u, ref |-> r]
            /\ ref' = [ref EXCEPT ![u] = r] /\ unchecked' = unchecked \ {u}
    <3>1. author[a].does = "bind"
      BY <1>5 DEF Library!StoreReference
    <3>2. author[a] \in [does : {"bind"}, up : Upstreams, ref : Library!References]
      BY <3>1 DEF LibraryInv, LibraryTypes, AdminRecord, Library!Idle
    <3>3. author[a] = [does |-> "bind", up |-> author[a].up, ref |-> author[a].ref]
      BY <3>2
    <3> QED
      BY <1>5, <3>2, <3>3 DEF Library!StoreReference
  <2>2. /\ author' = [author EXCEPT ![a] = Library!Idle] /\ scriptRefMu' = Nobody
        /\ Library!Published(r)
    BY <1>5, <2>1 DEF Library!StoreReference, LibraryInv, Checked
  <2>3. LibraryTypes'
    BY <1>1, <2>1, <2>2 DEF LibraryInv, LibraryTypes, AdminRecord
  <2>4. \A b \in Admins : author'[b] = Library!Idle
    <3>1. scriptRefMu = a /\ \A b \in Admins : author[b] # Library!Idle => b = a
      BY <2>1 DEF LibraryInv, Checked, Library!Idle
    <3> QED
      BY <2>2, <3>1 DEF LibraryInv, LibraryTypes
  <2>5. \A b \in Admins : Checked(b)'
    BY <2>4 DEF Checked, Library!Idle
  <2>6. \A v \in Upstreams : Bound(v)' /\ Allowed(v)'
    BY <1>1, <1>3, <2>1, <2>2, NobodyIsNoReference DEF LibraryInv, LibraryTypes, Bound,
       Allowed
  <2> QED
    BY <1>2, <2>3, <2>5, <2>6 DEF LibraryInv
<1>6. CASE Library!ImportUpstreams(a)
  <2>1. /\ ref' \in [Upstreams -> Library!References \cup {Nobody}]
        /\ unchecked' = {u \in Upstreams : ref'[u] # Nobody /\ ~Library!Published(ref'[u])}
        /\ UNCHANGED <<author, scriptRefMu>> /\ scriptRefMu = Nobody
    BY <1>6 DEF Library!ImportUpstreams
  <2>2. LibraryTypes'
    BY <1>1, <2>1 DEF LibraryInv, LibraryTypes
  <2>3. \A b \in Admins : author[b] = Library!Idle
    BY <2>1, NobodyIsNoAdmin DEF LibraryInv, Checked
  <2>4. \A b \in Admins : Checked(b)'
    BY <2>1, <2>3 DEF Checked, Library!Idle
  <2>5. \A v \in Upstreams : Bound(v)' /\ Allowed(v)'
    BY <1>1, <1>3, <2>1 DEF LibraryInv, Bound, Allowed
  <2> QED
    BY <1>2, <2>2, <2>4, <2>5 DEF LibraryInv
<1>7. ASSUME NEW id \in ScriptIds, Library!CheckUnused(a, id)
      PROVE  LibraryInv'
  <2>1. /\ scriptRefMu' = a /\ ref' = ref /\ unchecked' = unchecked
        /\ author' = [author EXCEPT ![a] = [does |-> "delete", script |-> id]]
        /\ \A b \in Admins : author[b] = Library!Idle
        /\ \A u \in Upstreams : ref[u] # Nobody => ref[u].script # id
    BY <1>7, NobodyIsNoAdmin DEF Library!CheckUnused, LibraryInv, Checked
  <2>2. LibraryTypes'
    BY <1>1, <2>1 DEF LibraryInv, LibraryTypes, AdminRecord
  <2>3. \A b \in Admins : Checked(b)'
    BY <1>3, <2>1 DEF LibraryInv, LibraryTypes, Checked, Library!Idle
  <2>4. \A v \in Upstreams : Bound(v)' /\ Allowed(v)'
    BY <1>1, <1>3, <2>1 DEF LibraryInv, Bound, Allowed
  <2> QED
    BY <1>2, <2>2, <2>3, <2>4 DEF LibraryInv
<1> QED
  BY <1>4, <1>5, <1>6, <1>7

(* Only the script nobody is bound to goes.                                  *)
LEMMA SoftDeleteStep ==
    ASSUME LibraryInv, NEW a \in Admins, Library!SoftDelete(a)
    PROVE  LibraryInv'
<1>1. PICK id \in ScriptIds : author[a] = [does |-> "delete", script |-> id]
  <2>1. author[a] \in [does : {"delete"}, script : ScriptIds]
    BY DEF Library!SoftDelete, LibraryInv, LibraryTypes, AdminRecord, Library!Idle
  <2>2. author[a] = [does |-> "delete", script |-> author[a].script]
    BY <2>1
  <2> QED
    BY <2>1, <2>2
<1>2. /\ UNCHANGED <<ref, started, ran, unchecked>>
      /\ author' = [author EXCEPT ![a] = Library!Idle] /\ scriptRefMu' = Nobody
      /\ \/ /\ meta' = [meta EXCEPT ![id].status = "moved"]
            /\ versions' = Library!Without(versions, id) /\ files' = Library!Without(files, id)
         \/ meta' = [meta EXCEPT ![id].status = "trash"] /\ UNCHANGED <<versions, files>>
  BY <1>1 DEF Library!SoftDelete
<1>3. \A u \in Upstreams : ref[u] # Nobody => ref[u].script # id
  BY <1>1 DEF LibraryInv, Checked
<1>4. /\ DOMAIN meta' = DOMAIN meta
      /\ \A x \in DOMAIN meta \ {id} : meta'[x] = meta[x]
      /\ id \in DOMAIN meta => /\ meta'[id].status # "active"
                               /\ meta'[id] \in [status : {"active", "trash", "moved"}, current : Nat]
  BY <1>2 DEF LibraryInv, Directories, MetaRow
<1>5. /\ DOMAIN versions' \cup {id} = DOMAIN versions \cup {id}
      /\ DOMAIN files' = DOMAIN versions'
      /\ \A x \in DOMAIN versions' : versions'[x] = versions[x] /\ files'[x] = files[x]
  BY <1>2 DEF LibraryInv, Directories, Library!Without, Library!Restrict
<1>6. Directories'
  <2>1. \A x \in DOMAIN files' : x \in DOMAIN files
    BY <1>2, <1>5 DEF Library!Without, Library!Restrict
  <2>2. \A x \in DOMAIN files' : VersionFiles(x)'
    BY <1>5, <2>1 DEF LibraryInv, Directories, VersionFiles
  <2>3. \A x \in DOMAIN meta' : MetaRow(x)'
    BY <1>4, <1>5 DEF LibraryInv, Directories, MetaRow
  <2> QED
    BY <1>5, <2>2, <2>3 DEF Directories
<1>7. LibraryTypes'
  BY <1>2 DEF LibraryInv, LibraryTypes, AdminRecord
<1>8. \A b \in Admins : author'[b] = Library!Idle
  <2>1. scriptRefMu = a /\ \A b \in Admins : author[b] # Library!Idle => b = a
    BY <1>1 DEF LibraryInv, Checked, Library!Idle
  <2> QED
    BY <1>2, <2>1 DEF LibraryInv, LibraryTypes
<1>9. \A b \in Admins : Checked(b)'
  BY <1>8 DEF Checked, Library!Idle
<1>10. ASSUME NEW u \in Upstreams
       PROVE  Bound(u)' /\ Allowed(u)'
  <2>1. ASSUME ref[u] # Nobody, u \notin unchecked
        PROVE  Library!Published(ref[u])'
    <3>1. /\ Library!Published(ref[u]) /\ ref[u].script # id
          /\ ref[u].script \in DOMAIN versions
      BY <1>3, <2>1 DEF LibraryInv, Bound, Library!Published, Library!Active, Directories, MetaRow
    <3>2. ref'[u] = ref[u] /\ Library!Active(ref[u].script)' /\ ref[u].script \in DOMAIN versions'
      BY <1>2, <1>4, <1>5, <3>1 DEF Library!Published, Library!Active
    <3> QED
      BY <1>2, <1>5, <3>1, <3>2 DEF Library!Published
  <2> QED
    BY <1>2, <2>1 DEF LibraryInv, Bound, Allowed
<1> QED
  BY <1>6, <1>7, <1>9, <1>10 DEF LibraryInv

(* A launch executes the bytes it has checked a second time.                 *)
LEMMA LaunchSteps ==
    ASSUME LibraryInv, NEW u \in Upstreams,
           Library!DeleteUpstream(u) \/ Library!ResolveManagedScript(u) \/ Library!PrepareVerifiedScript(u)
    PROVE  LibraryInv'
<1>1. UNCHANGED <<meta, versions, files, author, scriptRefMu>>
  BY DEF Library!DeleteUpstream, Library!ResolveManagedScript, Library!PrepareVerifiedScript
<1>2. Directories'
  BY <1>1 DEF LibraryInv, Directories, MetaRow, VersionFiles
<1>3. \A r : Library!Published(r)' <=> Library!Published(r)
  BY <1>1 DEF Library!Published, Library!Active
<1>4. CASE Library!DeleteUpstream(u)
  <2>1. /\ ref' = [ref EXCEPT ![u] = Nobody] /\ unchecked' = unchecked \ {u}
        /\ UNCHANGED <<started, ran>>
    BY <1>4 DEF Library!DeleteUpstream
  <2>2. LibraryTypes'
    BY <1>1, <2>1 DEF LibraryInv, LibraryTypes
  <2>3. \A b \in Admins : Checked(b)'
    BY <1>1, <1>3, <2>1 DEF LibraryInv, LibraryTypes, Checked
  <2>4. \A v \in Upstreams : Bound(v)' /\ Allowed(v)'
    BY <1>3, <2>1 DEF LibraryInv, LibraryTypes, Bound, Allowed
  <2> QED
    BY <1>2, <2>2, <2>3, <2>4 DEF LibraryInv
<1>5. CASE Library!ResolveManagedScript(u)
  <2>1. /\ started' = [started EXCEPT ![u] = ref[u]] /\ UNCHANGED <<ref, ran, unchecked>>
        /\ ref[u].hash \in Critical => ref[u].unrestricted
    BY <1>5 DEF Library!ResolveManagedScript, Library!Valid
  <2>2. LibraryTypes'
    BY <1>1, <2>1 DEF LibraryInv, LibraryTypes
  <2>3. \A b \in Admins : Checked(b)'
    BY <1>1, <1>3, <2>1 DEF LibraryInv, LibraryTypes, Checked
  <2>4. \A v \in Upstreams : Bound(v)' /\ Allowed(v)'
    BY <1>3, <2>1 DEF LibraryInv, LibraryTypes, Bound, Allowed
  <2> QED
    BY <1>2, <2>2, <2>3, <2>4 DEF LibraryInv
<1>6. CASE Library!PrepareVerifiedScript(u)
  <2>1. /\ started' = [started EXCEPT ![u] = Nobody] /\ UNCHANGED <<ref, unchecked>>
        /\ started[u] # Nobody /\ started[u] \in Library!References
        /\ \/ ran' = ran
           \/ ran' = [ran EXCEPT ![u] = [ref |-> started[u], bytes |-> started[u].hash]]
    BY <1>6 DEF Library!PrepareVerifiedScript, LibraryInv, LibraryTypes
  <2>2. started[u].hash \in Contents
    BY <2>1 DEF Library!References
  <2>3. LibraryTypes'
    BY <1>1, <2>1, <2>2 DEF LibraryInv, LibraryTypes, RanRecord
  <2>4. \A b \in Admins : Checked(b)'
    BY <1>1, <1>3, <2>1 DEF LibraryInv, LibraryTypes, Checked
  <2>5. \A v \in Upstreams : Bound(v)' /\ Allowed(v)'
    BY <1>3, <2>1 DEF LibraryInv, LibraryTypes, Bound, Allowed
  <2> QED
    BY <1>2, <2>3, <2>4, <2>5 DEF LibraryInv
<1> QED
  BY <1>4, <1>5, <1>6

LEMMA LibraryNext ==
    ASSUME LibraryInv, [Library!Next]_scriptsVars
    PROVE  LibraryInv'
<1>1. CASE UNCHANGED scriptsVars
  <2>1. UNCHANGED <<meta, versions, files, ref, author, scriptRefMu, started, ran, unchecked>>
    BY <1>1 DEF scriptsVars
  <2>2. Directories'
    BY <2>1 DEF LibraryInv, Directories, MetaRow, VersionFiles
  <2>3. \A r : Library!Published(r) => Library!Published(r)'
    BY <2>1 DEF Library!Published, Library!Active
  <2> QED
    BY <2>1, <2>2, <2>3, PublishedStays
<1>2. CASE Library!Next
  BY <1>2, CreateStep, SaveVersionStep, VersionSteps, RequestSteps, SoftDeleteStep,
     LaunchSteps DEF Library!Next
<1> QED
  BY <1>1, <1>2


(* Whatever versions are saved, restored and deleted and however binding,   *)
(* deleting, importing and launching overlap, the reference of an upstream  *)
(* names a published version, unless a backup brought one that names none,  *)
(* and what has run is the bytes it stands for.                             *)
THEOREM ReferencesStand ==
    Spec => []ReferencesHold
<1>1. Init => LibraryInv
  BY LibraryInit DEF Init
<1>2. LibraryInv /\ [Next]_allVars => LibraryInv'
  <2>1. [Next]_allVars => [Library!Next]_scriptsVars
    BY DEF Next, allVars, scriptsVars
  <2> QED
    BY <2>1, LibraryNext
<1>3. LibraryInv => ReferencesHold
  BY DEF LibraryInv, Bound, Allowed, ReferencesHold, Library!ReferencesHold
<1> QED
  BY <1>1, <1>2, <1>3, PTL DEF Spec


-----------------------------------------------------------------------------



Places == {"idle", "apply", "reconfigure", "stop", "cancel", "wait", "stopped", "start", "over"}
Pairs == {<<>>} \cup Endpoints \X {"full", "smart"}
LoopRecord == [at : {"none", "check", "serve", "delay", "exit", "marked", "done"},
               live : BOOLEAN, own : BOOLEAN, serves : Pairs]
CallerRecord == [at : Places, set : XiaoZhiLoops!Settings, start : BOOLEAN, stops : 0..MaxRuns]
ConnectorTypes ==
    /\ saved \in XiaoZhiLoops!Settings
    /\ connector \in [endpoint : Endpoints, enabled : BOOLEAN, mode : Modes \cup {XiaoZhiLoops!Unset},
                      started : BOOLEAN, cancel : 0..MaxRuns]
    /\ loops \in [1..MaxRuns -> LoopRecord]
    /\ caller \in [XiaoZhiLoops!Callers -> CallerRecord]
    /\ overlapped \in BOOLEAN /\ updates \in Nat

(* A loop leaves only when its context is over, and one whose context is not *)
(* over is cancelled by the next Stop or by one under way.                   *)
Leaving(r) == loops[r].at \in {"none", "exit", "marked", "done"} => ~loops[r].live
Stoppable(r) == XiaoZhiLoops!Alive(r) /\ loops[r].live =>
    \/ connector.started /\ connector.cancel = r
    \/ \E c \in XiaoZhiLoops!Callers : caller[c].at = "cancel" /\ caller[c].stops = r

(* With one caller at work at a time, ...                                    *)
Busy(c) == caller[c].at \notin {"idle", "over"}
Alone ==
    /\ \A c, d \in XiaoZhiLoops!Callers : Busy(c) /\ Busy(d) => c = d
    /\ caller[XiaoZhiLoops!App].at \notin {"start", "idle"} => \A c \in Updates : caller[c].at = "idle"
    /\ \A c \in Updates : caller[c].at # "over"

(* ... there is no loop but the connector's, it lives and serves what the    *)
(* connector says, ...                                                       *)
OneLoop == \A r \in 1..MaxRuns : XiaoZhiLoops!Alive(r) =>
    /\ connector.started /\ connector.cancel = r /\ loops[r].live
    /\ loops[r].serves \in {<<>>, <<connector.endpoint, XiaoZhiLoops!ServedMode(connector.mode)>>}
NoLoops == ~connector.started /\ \A r \in 1..MaxRuns : ~XiaoZhiLoops!Alive(r)
Saved == /\ connector.endpoint = saved.endpoint /\ connector.mode = XiaoZhiLoops!Configured
         /\ connector.enabled = saved.enabled
Ended(r) == loops[r].at \in {"none", "marked", "done"}

(* ... except while a caller stops it.                                       *)
UpdateAt(c) ==
    LET s == caller[c].set
        at == caller[c].at
    IN  /\ at \notin {"idle", "start"} => s = saved /\ updates # 0
        /\ at = "apply" => OneLoop /\ connector.started = connector.enabled
        /\ at = "reconfigure" =>
              /\ OneLoop
              /\ connector.started = (s.enabled /\ ~caller[c].start)
              /\ caller[c].start => s.enabled
              /\ connector.started => connector.endpoint = s.endpoint /\ connector.mode = s.mode
        /\ at = "stop" => OneLoop /\ connector.started
        /\ at \in {"stop", "cancel", "wait", "stopped"} => caller[c].start = s.enabled
        /\ at = "cancel" => ~connector.started /\ \A r \in 1..MaxRuns : XiaoZhiLoops!Alive(r) => caller[c].stops = r
        /\ at = "wait" => ~connector.started
        /\ at = "stopped" => NoLoops
        /\ at = "start" => NoLoops /\ Saved /\ saved.enabled
AppAt ==
    LET at == caller[XiaoZhiLoops!App].at
    IN  /\ at \notin {"apply", "reconfigure"}
        /\ at = "start" => NoLoops /\ Saved
        /\ at = "stop" => \A r \in 1..MaxRuns :
              Ended(r) \/ (connector.started /\ connector.cancel = r)
        /\ at = "cancel" => ~connector.started /\ \A r \in 1..MaxRuns : Ended(r) \/ caller[XiaoZhiLoops!App].stops = r
        /\ at = "wait" => ~connector.started
        /\ at \in {"stopped", "over"} => ~connector.started /\ \A r \in 1..MaxRuns : Ended(r)
Resting == OneLoop /\ Saved /\ connector.started = saved.enabled

Orderly ==
    /\ Alone /\ AppAt
    /\ \A c \in Updates : UpdateAt(c)
    /\ (\A c \in XiaoZhiLoops!Callers : caller[c].at = "idle") => Resting

ConnectorInv ==
    /\ ConnectorTypes
    /\ \A r \in 1..MaxRuns : Leaving(r) /\ Stoppable(r)
    /\ ~overlapped => Orderly

LEMMA ConnectorInit == XiaoZhiLoops!Init => ConnectorInv
<1> SUFFICES ASSUME XiaoZhiLoops!Init PROVE ConnectorInv
  OBVIOUS
<1>1. saved \in XiaoZhiLoops!Settings
  BY DEF XiaoZhiLoops!Init
<1>2. PICK s \in XiaoZhiLoops!Settings : XiaoZhiLoops!Idle = [at |-> "idle", set |-> s, start |-> FALSE, stops |-> 0]
  <2>1. \E s \in XiaoZhiLoops!Settings : ~s.enabled
    <3>1. [saved EXCEPT !.enabled = FALSE] \in XiaoZhiLoops!Settings
      BY <1>1 DEF XiaoZhiLoops!Settings
    <3> QED
      BY <1>1, <3>1 DEF XiaoZhiLoops!Settings
  <2> QED
    BY <2>1 DEF XiaoZhiLoops!Idle
<1> HIDE DEF XiaoZhiLoops!Idle
<1>3. ConnectorTypes
  <2>1. saved.endpoint \in Endpoints /\ saved.enabled \in BOOLEAN
    BY <1>1 DEF XiaoZhiLoops!Settings
  <2>2. caller \in [XiaoZhiLoops!Callers -> CallerRecord]
    <3>1. 0 \in 0..MaxRuns
      BY RunsAreCounted
    <3>2. /\ XiaoZhiLoops!Idle \in CallerRecord
          /\ [XiaoZhiLoops!Idle EXCEPT !.at = "start"] \in CallerRecord
      BY <1>2, <3>1 DEF CallerRecord, Places
    <3> QED
      BY <3>2 DEF XiaoZhiLoops!Init
  <2>3. connector \in [endpoint : Endpoints, enabled : BOOLEAN, mode : Modes \cup {XiaoZhiLoops!Unset},
                       started : BOOLEAN, cancel : 0..MaxRuns]
    BY <1>1, <2>1, RunsAreCounted DEF XiaoZhiLoops!Init
  <2>4. loops \in [1..MaxRuns -> LoopRecord]
    <3>1. XiaoZhiLoops!NoLoop \in LoopRecord
      BY DEF LoopRecord, XiaoZhiLoops!NoLoop, Pairs
    <3> QED
      BY <3>1 DEF XiaoZhiLoops!Init
  <2>5. overlapped \in BOOLEAN /\ updates \in Nat
    BY DEF XiaoZhiLoops!Init
  <2> QED
    BY <1>1, <2>2, <2>3, <2>4, <2>5 DEF ConnectorTypes
<1>4. \A c \in XiaoZhiLoops!Callers : caller[c].at = IF c = XiaoZhiLoops!App THEN "start" ELSE "idle"
  BY <1>2 DEF XiaoZhiLoops!Init
<1>5. \A r \in 1..MaxRuns : loops[r].at = "none" /\ ~loops[r].live
  BY DEF XiaoZhiLoops!Init, XiaoZhiLoops!NoLoop
<1>6. NoLoops /\ Saved
  BY <1>1, <1>5 DEF XiaoZhiLoops!Init, NoLoops, XiaoZhiLoops!Alive, Saved,
     XiaoZhiLoops!Configured
<1> QED
  BY <1>3, <1>4, <1>5, <1>6, AppIsNoUpdate DEF ConnectorInv, Leaving, Stoppable,
     XiaoZhiLoops!Alive, Orderly, Alone, Busy, AppAt, UpdateAt, XiaoZhiLoops!Callers,
     XiaoZhiLoops!App

(* A loop goes on; none comes to life.                                       *)
LEMMA LoopGoesOn ==
    ASSUME ConnectorInv, ConnectorTypes', UNCHANGED <<saved, connector, caller, overlapped, updates>>,
           \A r \in 1..MaxRuns : Leaving(r)',
           \A r \in 1..MaxRuns :
               /\ XiaoZhiLoops!Alive(r)' => XiaoZhiLoops!Alive(r)
               /\ loops'[r].live => loops[r].live
               /\ Ended(r) => Ended(r)',
           OneLoop => OneLoop'
    PROVE  ConnectorInv'
<1>1. \A r \in 1..MaxRuns : Stoppable(r)'
  BY DEF ConnectorInv, Stoppable
<1>2. ASSUME ~overlapped
      PROVE  Orderly'
  <2>1. Orderly
    BY <1>2 DEF ConnectorInv
  <2>2. Alone'
    BY <2>1 DEF Orderly, Alone, Busy
  <2>3. NoLoops => NoLoops'
    BY DEF NoLoops
  <2>4. Saved' <=> Saved
    BY DEF Saved, XiaoZhiLoops!Configured
  <2>5. AppAt'
    BY <2>1, <2>3, <2>4 DEF Orderly, AppAt
  <2>6. \A c \in Updates : UpdateAt(c)'
    BY <2>1, <2>3, <2>4 DEF Orderly, UpdateAt
  <2>7. Resting => Resting'
    BY <2>4 DEF Resting
  <2> QED
    BY <2>1, <2>2, <2>5, <2>6, <2>7 DEF Orderly
<1> QED
  BY <1>1, <1>2 DEF ConnectorInv

LEMMA LoopSteps ==
    ASSUME ConnectorInv, NEW r \in 1..MaxRuns,
           XiaoZhiLoops!Connect(r) \/ XiaoZhiLoops!SessionEnds(r) \/ XiaoZhiLoops!Delay(r) \/ XiaoZhiLoops!Done(r)
    PROVE  ConnectorInv'
<1> USE DEF ConnectorInv
<1>1. UNCHANGED <<saved, connector, caller, overlapped, updates>>
  BY DEF XiaoZhiLoops!Connect, XiaoZhiLoops!SessionEnds, XiaoZhiLoops!Delay,
     XiaoZhiLoops!Done
<1>2. PICK at \in {"check", "serve", "delay", "exit", "done"},
          serves \in {<<>>, <<connector.endpoint, XiaoZhiLoops!ServedMode(connector.mode)>>} :
        /\ loops' = [loops EXCEPT ![r].at = at, ![r].serves = serves]
        /\ loops[r].at # "none" /\ loops[r].at # "done"
        /\ loops[r].at = "marked" => at = "done"
        /\ at \in {"exit", "done"} => ~loops[r].live
  <2>1. CASE XiaoZhiLoops!Connect(r)
    BY <2>1 DEF XiaoZhiLoops!Connect, XiaoZhiLoops!Moves
  <2>2. CASE XiaoZhiLoops!SessionEnds(r)
    BY <2>2 DEF XiaoZhiLoops!SessionEnds, XiaoZhiLoops!Moves
  <2>3. CASE XiaoZhiLoops!Delay(r)
    BY <2>3 DEF XiaoZhiLoops!Delay, XiaoZhiLoops!Moves
  <2>4. CASE XiaoZhiLoops!Done(r)
    BY <2>4 DEF XiaoZhiLoops!Done, XiaoZhiLoops!Moves, Leaving
  <2> QED
    BY <2>1, <2>2, <2>3, <2>4
<1>3. /\ \A q \in (1..MaxRuns) \ {r} : loops'[q] = loops[q]
      /\ loops'[r].at = at /\ loops'[r].serves = serves /\ loops'[r].live = loops[r].live
  BY <1>2 DEF ConnectorTypes
<1>4. ConnectorTypes'
  <2>1. serves \in Pairs
    <3>1. /\ connector.endpoint \in Endpoints
          /\ XiaoZhiLoops!ServedMode(connector.mode) \in {"full", "smart"}
      BY DEF ConnectorTypes, XiaoZhiLoops!ServedMode
    <3>2. <<connector.endpoint, XiaoZhiLoops!ServedMode(connector.mode)>> \in Endpoints \X {"full", "smart"}
      BY <3>1
    <3> QED
      BY <3>2 DEF Pairs
  <2>2. [loops[r] EXCEPT !.at = at, !.serves = serves] \in LoopRecord
    <3>1. loops[r] \in LoopRecord
      BY DEF ConnectorTypes
    <3> QED
      BY <2>1, <3>1 DEF LoopRecord
  <2>3. loops' = [loops EXCEPT ![r] = [loops[r] EXCEPT !.at = at, !.serves = serves]]
    BY <1>2 DEF ConnectorTypes
  <2> QED
    BY <1>1, <2>2, <2>3 DEF ConnectorTypes
<1>5. \A q \in 1..MaxRuns : Leaving(q)'
  BY <1>2, <1>3 DEF Leaving
<1>6. \A q \in 1..MaxRuns :
          /\ XiaoZhiLoops!Alive(q)' => XiaoZhiLoops!Alive(q)
          /\ loops'[q].live => loops[q].live
          /\ Ended(q) => Ended(q)'
  BY <1>2, <1>3 DEF XiaoZhiLoops!Alive, Ended
<1>7. OneLoop => OneLoop'
  <2> SUFFICES ASSUME OneLoop, NEW q \in 1..MaxRuns, XiaoZhiLoops!Alive(q)'
               PROVE  /\ connector.started /\ connector.cancel = q /\ loops'[q].live
                      /\ loops'[q].serves \in {<<>>, <<connector.endpoint, XiaoZhiLoops!ServedMode(connector.mode)>>}
    BY <1>1 DEF OneLoop
  <2> QED
    BY <1>3, <1>6 DEF OneLoop
<1> QED
  BY <1>1, <1>4, <1>5, <1>6, <1>7, LoopGoesOn

(* The end of a loop clears the connector, which nobody else runs then.      *)
LEMMA MarkStoppedStep ==
    ASSUME ConnectorInv, NEW r \in 1..MaxRuns, XiaoZhiLoops!MarkStopped(r)
    PROVE  ConnectorInv'
<1> USE DEF ConnectorInv
<1>1. /\ UNCHANGED <<saved, caller, overlapped, updates>> /\ loops[r].at = "exit" /\ ~loops[r].live
      /\ connector' = [connector EXCEPT !.started = FALSE, !.cancel = 0]
      /\ ~connector'.started /\ connector'.cancel = 0
      /\ connector'.endpoint = connector.endpoint /\ connector'.mode = connector.mode
      /\ connector'.enabled = connector.enabled
  BY DEF XiaoZhiLoops!MarkStopped, Leaving, ConnectorTypes
<1>2. /\ loops' \in [1..MaxRuns -> LoopRecord]
      /\ \A q \in 1..MaxRuns :
          /\ loops'[q].at = IF q = r THEN "marked" ELSE loops[q].at
          /\ loops'[q].live => loops[q].live /\ ~(connector.started /\ connector.cancel = q)
  <2> DEFINE l == IF connector.started THEN XiaoZhiLoops!Cancelled(connector.cancel) ELSE loops
  <2>1. /\ l \in [1..MaxRuns -> LoopRecord]
        /\ \A q \in 1..MaxRuns :
              /\ l[q].at = loops[q].at
              /\ l[q].live => loops[q].live /\ ~(connector.started /\ connector.cancel = q)
    <3>1. loops \in [1..MaxRuns -> LoopRecord] /\ connector.cancel \in 0..MaxRuns
      BY DEF ConnectorTypes
    <3>2. \A q \in 1..MaxRuns : [loops[q] EXCEPT !.live = FALSE] \in LoopRecord
      BY <3>1 DEF LoopRecord
    <3>3. CASE connector.started /\ connector.cancel # 0
      <4>1. connector.cancel \in 1..MaxRuns
        BY <3>1, <3>3, RunsAreCounted
      <4>2. l = [loops EXCEPT ![connector.cancel] = [loops[connector.cancel] EXCEPT !.live = FALSE]]
        BY <3>1, <3>3, <4>1 DEF XiaoZhiLoops!Cancelled
      <4>3. \A q \in 1..MaxRuns :
                l[q] = IF q = connector.cancel THEN [loops[q] EXCEPT !.live = FALSE] ELSE loops[q]
        BY <3>1, <4>1, <4>2
      <4>4. l \in [1..MaxRuns -> LoopRecord]
        BY <3>1, <3>2, <4>1, <4>2
      <4>5. \A q \in 1..MaxRuns : /\ [loops[q] EXCEPT !.live = FALSE].at = loops[q].at
                                  /\ [loops[q] EXCEPT !.live = FALSE].live = FALSE
        BY <3>1 DEF LoopRecord
      <4> HIDE DEF l
      <4> QED
        BY <3>1, <4>3, <4>4, <4>5
    <3>4. CASE ~(connector.started /\ connector.cancel # 0)
      BY <3>1, <3>4 DEF XiaoZhiLoops!Cancelled
    <3> QED
      BY <3>3, <3>4
  <2>2. loops' = [l EXCEPT ![r].at = "marked"]
    BY DEF XiaoZhiLoops!MarkStopped
  <2> HIDE DEF l
  <2>3. [l[r] EXCEPT !.at = "marked"] \in LoopRecord
    BY <2>1 DEF LoopRecord
  <2>4. loops' = [l EXCEPT ![r] = [l[r] EXCEPT !.at = "marked"]]
    BY <2>1, <2>2
  <2> QED
    BY <2>1, <2>3, <2>4 DEF LoopRecord
<1>3. ConnectorTypes'
  <2>1. 0 \in 0..MaxRuns
    BY RunsAreCounted
  <2>2. connector' \in [endpoint : Endpoints, enabled : BOOLEAN, mode : Modes \cup {XiaoZhiLoops!Unset},
                       started : BOOLEAN, cancel : 0..MaxRuns]
    BY <1>1, <2>1 DEF ConnectorTypes
  <2> QED
    BY <1>1, <1>2, <2>2 DEF ConnectorTypes
<1>4. \A q \in 1..MaxRuns : Leaving(q)'
  BY <1>1, <1>2 DEF Leaving
<1>5. \A q \in 1..MaxRuns : (XiaoZhiLoops!Alive(q)' <=> XiaoZhiLoops!Alive(q)) /\ (Ended(q) => Ended(q)')
  BY <1>1, <1>2 DEF XiaoZhiLoops!Alive, Ended
<1>6. \A q \in 1..MaxRuns : Stoppable(q)'
  BY <1>1, <1>2, <1>5 DEF Stoppable
<1>7. ASSUME ~overlapped
      PROVE  Orderly'
  <2>1. Orderly /\ XiaoZhiLoops!Alive(r) /\ ~OneLoop
    BY <1>1, <1>7 DEF XiaoZhiLoops!Alive, OneLoop
  <2>2. ~NoLoops
    BY <2>1 DEF NoLoops
  <2>3. Alone' /\ ((\A c \in XiaoZhiLoops!Callers : caller[c].at = "idle") => Resting)'
    BY <1>1, <2>1 DEF Orderly, Alone, Busy, Resting
  <2>4. \A c \in Updates : UpdateAt(c)'
    BY <1>1, <1>5, <2>1, <2>2 DEF Orderly, UpdateAt
  <2>5. AppAt'
    <3>1. caller[XiaoZhiLoops!App].at = "stop" => \A q \in 1..MaxRuns : Ended(q)'
      <4> SUFFICES ASSUME caller[XiaoZhiLoops!App].at = "stop", NEW q \in 1..MaxRuns
                   PROVE  Ended(q)'
        OBVIOUS
      <4>1. Ended(q) \/ (connector.started /\ connector.cancel = q)
        BY <2>1 DEF Orderly, AppAt
      <4>2. ~Ended(r)
        BY <1>1 DEF Ended
      <4>3. ~Ended(r) => connector.cancel = r
        BY <2>1 DEF Orderly, AppAt
      <4> QED
        BY <1>2, <1>5, <4>1, <4>2, <4>3 DEF Ended
    <3> QED
      BY <1>1, <1>5, <2>1, <2>2, <3>1 DEF Orderly, AppAt
  <2> QED
    BY <2>3, <2>4, <2>5 DEF Orderly
<1> QED
  BY <1>1, <1>3, <1>4, <1>6, <1>7

(* Who is at work is at work alone.                                          *)
LEMMA OthersIdle ==
    ASSUME Orderly, NEW c \in XiaoZhiLoops!Callers, Busy(c)
    PROVE  \A d \in XiaoZhiLoops!Callers \ {c} : caller[d].at = "idle"
BY DEF Orderly, Alone, Busy, XiaoZhiLoops!Callers, XiaoZhiLoops!App

(* What a caller has to show for its next step.                              *)
LEMMA CallerMoves ==
    ASSUME ConnectorInv, ConnectorTypes', overlapped' = overlapped,
           NEW c \in XiaoZhiLoops!Callers, Busy(c),
           \A d \in XiaoZhiLoops!Callers \ {c} : caller'[d] = caller[d],
           \A r \in 1..MaxRuns : Leaving(r)' /\ Stoppable(r)',
           Orderly => /\ c = XiaoZhiLoops!App => AppAt'
                      /\ c # XiaoZhiLoops!App => UpdateAt(c)' /\ caller'[c].at # "over"
                      /\ caller'[c].at = "idle" => Resting'
    PROVE  ConnectorInv'
<1>1. ASSUME ~overlapped
      PROVE  Orderly'
  <2>1. Orderly /\ \A d \in XiaoZhiLoops!Callers \ {c} : caller'[d].at = "idle" /\ caller[d].at = "idle"
    BY <1>1, OthersIdle DEF ConnectorInv
  <2>2. Alone'
    <3>1. \A d \in Updates : d \in XiaoZhiLoops!Callers /\ d # XiaoZhiLoops!App
      BY AppIsNoUpdate DEF XiaoZhiLoops!Callers, XiaoZhiLoops!App
    <3>2. \A d, e \in XiaoZhiLoops!Callers : Busy(d)' /\ Busy(e)' => d = e
      BY <2>1 DEF Busy
    <3>3. XiaoZhiLoops!App \in XiaoZhiLoops!Callers
      BY DEF XiaoZhiLoops!Callers
    <3>4. CASE c = XiaoZhiLoops!App
      BY <2>1, <3>1, <3>2, <3>4 DEF Alone
    <3>5. CASE c # XiaoZhiLoops!App
      BY <2>1, <3>1, <3>2, <3>3, <3>5 DEF Alone
    <3> QED
      BY <3>4, <3>5
  <2>3. AppAt'
    <3>1. CASE c # XiaoZhiLoops!App
      <4>1. caller'[XiaoZhiLoops!App].at = "idle"
        BY <2>1, <3>1 DEF XiaoZhiLoops!Callers
      <4> QED
        BY <4>1 DEF AppAt
    <3> QED
      BY <2>1, <3>1
  <2>4. ASSUME NEW d \in Updates
        PROVE  UpdateAt(d)'
    <3>1. d \in XiaoZhiLoops!Callers /\ d # XiaoZhiLoops!App
      BY AppIsNoUpdate DEF XiaoZhiLoops!Callers, XiaoZhiLoops!App
    <3>2. CASE d # c
      <4>1. caller'[d].at = "idle"
        BY <2>1, <3>1, <3>2
      <4> QED
        BY <4>1 DEF UpdateAt
    <3> QED
      BY <2>1, <3>1, <3>2
  <2>5. (\A d \in XiaoZhiLoops!Callers : caller'[d].at = "idle") => Resting'
    BY <2>1
  <2> QED
    BY <2>2, <2>3, <2>4, <2>5 DEF Orderly
<1> QED
  BY <1>1 DEF ConnectorInv

(* A step of a caller writes its own record.                                 *)
LEMMA GoesWrites ==
    ASSUME caller \in [XiaoZhiLoops!Callers -> CallerRecord], NEW c \in XiaoZhiLoops!Callers, NEW at \in Places,
           XiaoZhiLoops!Goes(c, at)
    PROVE  /\ caller' \in [XiaoZhiLoops!Callers -> CallerRecord]
           /\ \A d \in XiaoZhiLoops!Callers \ {c} : caller'[d] = caller[d]
           /\ caller'[c].at = at /\ caller'[c].set = caller[c].set
           /\ caller'[c].start = caller[c].start /\ caller'[c].stops = caller[c].stops
<1>1. [caller[c] EXCEPT !.at = at] \in CallerRecord
  BY DEF CallerRecord
<1>2. caller' = [caller EXCEPT ![c] = [caller[c] EXCEPT !.at = at]]
  BY DEF XiaoZhiLoops!Goes
<1> QED
  BY <1>1, <1>2 DEF CallerRecord

LEMMA StartWrites ==
    ASSUME caller \in [XiaoZhiLoops!Callers -> CallerRecord], NEW c \in XiaoZhiLoops!Callers, NEW at \in Places,
           NEW start \in BOOLEAN, caller' = [caller EXCEPT ![c].at = at, ![c].start = start]
    PROVE  /\ caller' \in [XiaoZhiLoops!Callers -> CallerRecord]
           /\ \A d \in XiaoZhiLoops!Callers \ {c} : caller'[d] = caller[d]
           /\ caller'[c].at = at /\ caller'[c].set = caller[c].set
           /\ caller'[c].start = start
<1>1. [caller[c] EXCEPT !.at = at, !.start = start] \in CallerRecord
  BY DEF CallerRecord
<1>2. caller' = [caller EXCEPT ![c] = [caller[c] EXCEPT !.at = at, !.start = start]]
  OBVIOUS
<1> QED
  BY <1>1, <1>2 DEF CallerRecord

LEMMA StopsWrites ==
    ASSUME caller \in [XiaoZhiLoops!Callers -> CallerRecord], NEW c \in XiaoZhiLoops!Callers, NEW at \in Places,
           NEW stops \in 0..MaxRuns, caller' = [caller EXCEPT ![c].at = at, ![c].stops = stops]
    PROVE  /\ caller' \in [XiaoZhiLoops!Callers -> CallerRecord]
           /\ \A d \in XiaoZhiLoops!Callers \ {c} : caller'[d] = caller[d]
           /\ caller'[c].at = at /\ caller'[c].set = caller[c].set
           /\ caller'[c].start = caller[c].start /\ caller'[c].stops = stops
<1>1. [caller[c] EXCEPT !.at = at, !.stops = stops] \in CallerRecord
  BY DEF CallerRecord
<1>2. caller' = [caller EXCEPT ![c] = [caller[c] EXCEPT !.at = at, !.stops = stops]]
  OBVIOUS
<1> QED
  BY <1>1, <1>2 DEF CallerRecord

LEMMA SaveStep ==
    ASSUME ConnectorInv, NEW c \in XiaoZhiLoops!Callers, XiaoZhiLoops!Save(c)
    PROVE  ConnectorInv'
<1> USE DEF ConnectorInv
<1>1. PICK s \in XiaoZhiLoops!Settings :
        /\ saved' = s /\ UNCHANGED <<connector, loops>> /\ updates' = updates + 1
        /\ caller' = [caller EXCEPT ![c] = [XiaoZhiLoops!Idle EXCEPT !.at = "apply", !.set = s]]
  BY DEF XiaoZhiLoops!Save
<1> DEFINE new == [XiaoZhiLoops!Idle EXCEPT !.at = "apply", !.set = s]
<1>2. new \in CallerRecord /\ new.at = "apply" /\ new.set = s
  <2> DEFINE x == CHOOSE q \in XiaoZhiLoops!Settings : ~q.enabled
             idle(q) == [at |-> "idle", set |-> q, start |-> FALSE, stops |-> 0]
  <2>1. XiaoZhiLoops!Idle = idle(x)
    BY DEF XiaoZhiLoops!Idle
  <2>2. 0 \in 0..MaxRuns
    BY RunsAreCounted
  <2>3. ASSUME NEW q
        PROVE  LET n == [idle(q) EXCEPT !.at = "apply", !.set = s]
               IN  n \in CallerRecord /\ n.at = "apply" /\ n.set = s
    BY <2>2 DEF CallerRecord, Places
  <2> QED
    BY <2>1, <2>3
<1>3. caller' = [caller EXCEPT ![c] = new]
  BY <1>1
<1> HIDE DEF new
<1>4. /\ caller' \in [XiaoZhiLoops!Callers -> CallerRecord]
      /\ \A d \in XiaoZhiLoops!Callers \ {c} : caller'[d] = caller[d]
      /\ caller'[c].at = "apply" /\ caller'[c].set = s
  BY <1>2, <1>3 DEF ConnectorTypes
<1>5. /\ c # XiaoZhiLoops!App /\ c \in Updates /\ caller[c].at = "idle" /\ caller[XiaoZhiLoops!App].at \in {"start", "idle"}
      /\ overlapped' = (overlapped \/ \E d \in XiaoZhiLoops!Callers : caller[d].at \notin {"idle", "over"})
  BY DEF XiaoZhiLoops!Save, XiaoZhiLoops!Callers
<1>6. ConnectorTypes'
  <2>1. overlapped' \in BOOLEAN /\ updates' \in Nat
    BY <1>1, <1>5 DEF ConnectorTypes
  <2> QED
    BY <1>1, <1>4, <2>1 DEF ConnectorTypes
<1>7. \A r \in 1..MaxRuns : Leaving(r)' /\ Stoppable(r)'
  BY <1>1, <1>4, <1>5 DEF Leaving, Stoppable, XiaoZhiLoops!Alive
<1>8. ASSUME ~overlapped'
      PROVE  Orderly'
  <2>1. Orderly /\ \A d \in XiaoZhiLoops!Callers : ~Busy(d)
    BY <1>5, <1>8 DEF Busy, ConnectorTypes
  <2>2. XiaoZhiLoops!App \in XiaoZhiLoops!Callers /\ caller[XiaoZhiLoops!App].at = "idle"
    BY <2>1, <1>5 DEF Busy, XiaoZhiLoops!Callers
  <2>3. \A d \in XiaoZhiLoops!Callers : caller[d].at = "idle"
    BY <2>1, <2>2 DEF Orderly, Alone, Busy, XiaoZhiLoops!Callers
  <2>4. Resting
    BY <2>1, <2>3 DEF Orderly
  <2>5. Alone'
    BY <1>4, <1>5, <2>2, <2>3 DEF Alone, Busy, XiaoZhiLoops!Callers
  <2>6. AppAt'
    BY <1>4, <1>5, <2>2, <2>3 DEF AppAt
  <2>7. UpdateAt(c)'
    <3>1. OneLoop'
      BY <1>1, <2>4 DEF Resting, OneLoop, XiaoZhiLoops!Alive
    <3>2. connector.started = connector.enabled
      BY <2>4 DEF Resting, Saved
    <3>3. updates' # 0
      BY <1>1 DEF ConnectorTypes
    <3> QED
      BY <1>1, <1>4, <3>1, <3>2, <3>3 DEF UpdateAt
  <2>8. \A d \in Updates : UpdateAt(d)'
    <3> SUFFICES ASSUME NEW d \in Updates, d # c PROVE UpdateAt(d)'
      BY <2>7
    <3>1. caller'[d].at = "idle"
      BY <1>4, <2>3 DEF XiaoZhiLoops!Callers
    <3> QED
      BY <3>1 DEF UpdateAt
  <2> QED
    BY <1>4, <2>5, <2>6, <2>8 DEF Orderly
<1> QED
  BY <1>6, <1>7, <1>8

LEMMA ApplyStep ==
    ASSUME ConnectorInv, NEW c \in XiaoZhiLoops!Callers, XiaoZhiLoops!ApplySettings(c)
    PROVE  ConnectorInv'
<1> USE DEF ConnectorInv
<1> DEFINE s == caller[c].set
           changed == s.endpoint # connector.endpoint \/ s.mode # connector.mode
           stop == connector.started /\ (~s.enabled \/ changed)
           at == IF stop THEN "stop" ELSE "reconfigure"
           start == s.enabled /\ (stop \/ ~connector.started \/ ~connector.enabled)
<1>1. /\ UNCHANGED <<saved, connector, loops, overlapped, updates>> /\ caller[c].at = "apply"
      /\ caller' = [caller EXCEPT ![c].at = at, ![c].start = start]
  BY DEF XiaoZhiLoops!ApplySettings
<1>2. caller[c] \in CallerRecord
  BY DEF ConnectorTypes
<1>3. start \in BOOLEAN /\ caller[c].stops \in 0..MaxRuns /\ at \in Places
  BY <1>2 DEF CallerRecord, Places
<1> HIDE DEF at, start
<1>6. /\ caller' \in [XiaoZhiLoops!Callers -> CallerRecord]
      /\ \A d \in XiaoZhiLoops!Callers \ {c} : caller'[d] = caller[d]
      /\ caller'[c].at = at /\ caller'[c].set = s /\ caller'[c].start = start
  BY <1>1, <1>3, StartWrites DEF ConnectorTypes
<1>7. ConnectorTypes'
  BY <1>1, <1>6 DEF ConnectorTypes
<1>8. \A r \in 1..MaxRuns : Leaving(r)' /\ Stoppable(r)'
  BY <1>1, <1>6 DEF Leaving, Stoppable, XiaoZhiLoops!Alive
<1>9. c # XiaoZhiLoops!App => (Orderly => UpdateAt(c)' /\ at \notin {"over", "idle"})
  <2> SUFFICES ASSUME c # XiaoZhiLoops!App, Orderly PROVE UpdateAt(c)' /\ at \notin {"over", "idle"}
    OBVIOUS
  <2>1. /\ s = saved /\ OneLoop /\ connector.started = connector.enabled
        /\ updates' # 0
    BY <1>1 DEF Orderly, UpdateAt, XiaoZhiLoops!Callers
  <2>2. OneLoop'
    BY <1>1, <2>1 DEF OneLoop, XiaoZhiLoops!Alive
  <2>3. /\ at \in {"stop", "reconfigure"} /\ (at = "stop" <=> stop)
        /\ s.enabled \in BOOLEAN /\ connector.started \in BOOLEAN /\ connector.enabled \in BOOLEAN
    BY <1>2 DEF at, CallerRecord, XiaoZhiLoops!Settings, ConnectorTypes
  <2>4. CASE stop
    <3>1. start = s.enabled
      BY <2>3, <2>4 DEF start
    <3>2. at = "stop" /\ connector'.started
      BY <1>1, <2>3, <2>4
    <3> HIDE DEF s, stop
    <3> QED
      BY <1>1, <1>6, <2>1, <2>2, <3>1, <3>2 DEF UpdateAt
  <2>5. CASE ~stop
    <3>1. /\ start => s.enabled
          /\ connector.started = (s.enabled /\ ~start)
          /\ connector.started => connector.endpoint = s.endpoint /\ connector.mode = s.mode
      BY <2>1, <2>3, <2>5 DEF start
    <3>2. at = "reconfigure"
      BY <2>3, <2>5
    <3> HIDE DEF s, stop
    <3> QED
      BY <1>1, <1>6, <2>1, <2>2, <3>1, <3>2 DEF UpdateAt
  <2> QED
    BY <2>4, <2>5
<1>10. c = XiaoZhiLoops!App => (Orderly => FALSE)
  BY <1>1 DEF Orderly, AppAt
<1>11. Busy(c)
  BY <1>1 DEF Busy
<1> QED
  BY <1>1, <1>6, <1>7, <1>8, <1>9, <1>10, <1>11, CallerMoves

LEMMA StopLockStep ==
    ASSUME ConnectorInv, NEW c \in XiaoZhiLoops!Callers, XiaoZhiLoops!StopLock(c)
    PROVE  ConnectorInv'
<1> USE DEF ConnectorInv
<1> DEFINE at == IF connector.started THEN "cancel" ELSE "stopped"
           q == connector.cancel
<1>1. /\ UNCHANGED <<saved, loops, overlapped, updates>> /\ caller[c].at = "stop"
      /\ connector' = [connector EXCEPT !.started = FALSE, !.cancel = 0]
      /\ caller' = [caller EXCEPT ![c].at = at, ![c].stops = q]
  BY DEF XiaoZhiLoops!StopLock
<1>2. /\ caller \in [XiaoZhiLoops!Callers -> CallerRecord] /\ caller[c] \in CallerRecord
      /\ q \in 0..MaxRuns
  BY DEF ConnectorTypes
<1>3. caller[c].start \in BOOLEAN /\ at \in Places
  BY <1>2 DEF CallerRecord, Places
<1> HIDE DEF at, q
<1>6. /\ caller' \in [XiaoZhiLoops!Callers -> CallerRecord]
      /\ \A d \in XiaoZhiLoops!Callers \ {c} : caller'[d] = caller[d]
      /\ caller'[c].at = at /\ caller'[c].set = caller[c].set
      /\ caller'[c].start = caller[c].start /\ caller'[c].stops = q
  <2>1. [caller[c] EXCEPT !.at = at, !.stops = q] \in CallerRecord
    BY <1>2, <1>3 DEF CallerRecord
  <2>2. caller' = [caller EXCEPT ![c] = [caller[c] EXCEPT !.at = at, !.stops = q]]
    BY <1>1
  <2> QED
    BY <1>2, <2>1, <2>2 DEF CallerRecord
<1>7. /\ ~connector'.started /\ connector'.endpoint = connector.endpoint
      /\ connector'.mode = connector.mode /\ connector'.enabled = connector.enabled
      /\ connector' \in [endpoint : Endpoints, enabled : BOOLEAN, mode : Modes \cup {XiaoZhiLoops!Unset},
                         started : BOOLEAN, cancel : 0..MaxRuns]
  <2>1. 0 \in 0..MaxRuns
    BY RunsAreCounted
  <2> QED
    BY <1>1, <2>1 DEF ConnectorTypes
<1>8. ConnectorTypes'
  BY <1>1, <1>6, <1>7 DEF ConnectorTypes
<1>9. \A r \in 1..MaxRuns : Leaving(r)' /\ Stoppable(r)'
  <2> SUFFICES ASSUME NEW r \in 1..MaxRuns PROVE Leaving(r)' /\ Stoppable(r)'
    OBVIOUS
  <2>1. \A d \in XiaoZhiLoops!Callers : caller[d].at = "cancel" => caller'[d] = caller[d]
    BY <1>1, <1>6
  <2>2. connector.started /\ connector.cancel = r => caller'[c].at = "cancel" /\ caller'[c].stops = r
    BY <1>6 DEF at, q
  <2> QED
    BY <1>1, <2>1, <2>2 DEF Leaving, Stoppable, XiaoZhiLoops!Alive
<1>10. c # XiaoZhiLoops!App => (Orderly => UpdateAt(c)' /\ at \notin {"over", "idle"})
  <2> SUFFICES ASSUME c # XiaoZhiLoops!App, Orderly PROVE UpdateAt(c)' /\ at \notin {"over", "idle"}
    OBVIOUS
  <2>1. /\ caller[c].set = saved /\ OneLoop /\ connector.started
        /\ caller[c].start = caller[c].set.enabled /\ updates' # 0
    BY <1>1 DEF Orderly, UpdateAt, XiaoZhiLoops!Callers
  <2>2. \A r \in 1..MaxRuns : XiaoZhiLoops!Alive(r)' => connector.cancel = r
    BY <1>1, <2>1 DEF OneLoop, XiaoZhiLoops!Alive
  <2> QED
    BY <1>1, <1>6, <1>7, <2>1, <2>2 DEF UpdateAt, at, q
<1>11. c = XiaoZhiLoops!App => (Orderly => AppAt' /\ at \notin {"over", "idle"})
  <2> SUFFICES ASSUME c = XiaoZhiLoops!App, Orderly PROVE AppAt' /\ at \notin {"over", "idle"}
    OBVIOUS
  <2>1. \A r \in 1..MaxRuns : Ended(r) \/ (connector.started /\ connector.cancel = r)
    BY <1>1 DEF Orderly, AppAt
  <2>2. \A r \in 1..MaxRuns : Ended(r)' <=> Ended(r)
    BY <1>1 DEF Ended
  <2> QED
    BY <1>6, <1>7, <2>1, <2>2 DEF AppAt, at, q
<1>12. Busy(c)
  BY <1>1 DEF Busy
<1> QED
  BY <1>1, <1>6, <1>8, <1>9, <1>10, <1>11, <1>12, CallerMoves

LEMMA CancelWrites ==
    ASSUME loops \in [1..MaxRuns -> LoopRecord], NEW q \in 0..MaxRuns
    PROVE  /\ XiaoZhiLoops!Cancelled(q) \in [1..MaxRuns -> LoopRecord]
           /\ \A r \in 1..MaxRuns :
                 /\ XiaoZhiLoops!Cancelled(q)[r].at = loops[r].at /\ XiaoZhiLoops!Cancelled(q)[r].serves = loops[r].serves
                 /\ XiaoZhiLoops!Cancelled(q)[r].live = (loops[r].live /\ r # q)
<1>1. CASE q = 0
  <2>1. \A r \in 1..MaxRuns : loops[r].live \in BOOLEAN /\ r # 0
    BY DEF LoopRecord
  <2> QED
    BY <1>1, <2>1 DEF XiaoZhiLoops!Cancelled
<1>2. CASE q # 0
  <2>1. q \in 1..MaxRuns
    BY <1>2, RunsAreCounted
  <2>2. [loops[q] EXCEPT !.live = FALSE] \in LoopRecord
    BY <2>1 DEF LoopRecord
  <2>3. XiaoZhiLoops!Cancelled(q) = [loops EXCEPT ![q] = [loops[q] EXCEPT !.live = FALSE]]
    BY <1>2, <2>1 DEF XiaoZhiLoops!Cancelled
  <2>4. XiaoZhiLoops!Cancelled(q) \in [1..MaxRuns -> LoopRecord]
    BY <2>2, <2>3
  <2>5. \A r \in 1..MaxRuns : loops[r] \in LoopRecord
    OBVIOUS
  <2>6. \A r \in 1..MaxRuns : r # q => XiaoZhiLoops!Cancelled(q)[r] = loops[r]
    BY <2>3
  <2>7. XiaoZhiLoops!Cancelled(q)[q] = [loops[q] EXCEPT !.live = FALSE]
    BY <2>1, <2>3
  <2> QED
    BY <2>1, <2>4, <2>5, <2>6, <2>7 DEF LoopRecord
<1> QED
  BY <1>1, <1>2

LEMMA StopCancelStep ==
    ASSUME ConnectorInv, NEW c \in XiaoZhiLoops!Callers, XiaoZhiLoops!StopCancel(c)
    PROVE  ConnectorInv'
<1> USE DEF ConnectorInv
<1> DEFINE q == caller[c].stops
<1>1. /\ UNCHANGED <<saved, connector, overlapped, updates>> /\ caller[c].at = "cancel"
      /\ loops' = XiaoZhiLoops!Cancelled(q)
      /\ caller' = [caller EXCEPT ![c].at = "wait", ![c].stops = 0]
  BY DEF XiaoZhiLoops!StopCancel
<1>2. /\ caller \in [XiaoZhiLoops!Callers -> CallerRecord] /\ caller[c] \in CallerRecord
      /\ loops \in [1..MaxRuns -> LoopRecord]
  BY DEF ConnectorTypes
<1>3. 0 \in 0..MaxRuns /\ "wait" \in Places /\ q \in 0..MaxRuns
  BY <1>2, RunsAreCounted DEF Places, CallerRecord
<1>4. /\ caller' \in [XiaoZhiLoops!Callers -> CallerRecord]
      /\ \A d \in XiaoZhiLoops!Callers \ {c} : caller'[d] = caller[d]
      /\ caller'[c].at = "wait" /\ caller'[c].set = caller[c].set
      /\ caller'[c].start = caller[c].start
  BY <1>1, <1>2, <1>3, StopsWrites
<1>5. /\ loops' \in [1..MaxRuns -> LoopRecord]
      /\ \A r \in 1..MaxRuns : /\ loops'[r].at = loops[r].at
                               /\ loops'[r].live = (loops[r].live /\ r # q)
  BY <1>1, <1>2, <1>3, CancelWrites
<1> HIDE DEF q
<1>6. ConnectorTypes'
  BY <1>1, <1>4, <1>5 DEF ConnectorTypes
<1>7. \A r \in 1..MaxRuns : Leaving(r)' /\ Stoppable(r)'
  <2> SUFFICES ASSUME NEW r \in 1..MaxRuns PROVE Leaving(r)' /\ Stoppable(r)'
    OBVIOUS
  <2>1. \A d \in XiaoZhiLoops!Callers : d # c => caller'[d] = caller[d]
    BY <1>4
  <2>2. caller[c].stops = r => ~loops'[r].live
    BY <1>5 DEF q
  <2>3. Leaving(r)'
    BY <1>5 DEF Leaving
  <2>4. \A d \in XiaoZhiLoops!Callers : caller[d].at = "cancel" /\ caller[d].stops = r /\ loops'[r].live
            => caller'[d].at = "cancel" /\ caller'[d].stops = r
    BY <2>1, <2>2
  <2>5. XiaoZhiLoops!Alive(r)' /\ loops'[r].live => XiaoZhiLoops!Alive(r) /\ loops[r].live
    BY <1>5 DEF XiaoZhiLoops!Alive
  <2>6. Stoppable(r)'
    BY <1>1, <2>4, <2>5 DEF Stoppable
  <2> QED
    BY <2>3, <2>6
<1>8. c # XiaoZhiLoops!App => (Orderly => UpdateAt(c)')
  BY <1>1, <1>4 DEF Orderly, UpdateAt, XiaoZhiLoops!Callers
<1>9. c = XiaoZhiLoops!App => (Orderly => AppAt')
  BY <1>1, <1>4 DEF Orderly, AppAt
<1>10. Busy(c) /\ caller'[c].at \notin {"idle", "over"}
  BY <1>1, <1>4 DEF Busy
<1> QED
  BY <1>1, <1>4, <1>6, <1>7, <1>8, <1>9, <1>10, CallerMoves

LEMMA StopWaitStep ==
    ASSUME ConnectorInv, NEW c \in XiaoZhiLoops!Callers, XiaoZhiLoops!StopWait(c)
    PROVE  ConnectorInv'
<1> USE DEF ConnectorInv
<1>1. /\ UNCHANGED <<saved, connector, loops, overlapped, updates>> /\ caller[c].at = "wait"
      /\ XiaoZhiLoops!Goes(c, "stopped") /\ \A r \in 1..MaxRuns : ~XiaoZhiLoops!Alive(r)
  BY DEF XiaoZhiLoops!StopWait
<1>2. caller \in [XiaoZhiLoops!Callers -> CallerRecord] /\ "stopped" \in Places
  BY DEF ConnectorTypes, Places
<1>3. /\ caller' \in [XiaoZhiLoops!Callers -> CallerRecord]
      /\ \A d \in XiaoZhiLoops!Callers \ {c} : caller'[d] = caller[d]
      /\ caller'[c].at = "stopped" /\ caller'[c].set = caller[c].set
      /\ caller'[c].start = caller[c].start
  BY <1>1, <1>2, GoesWrites
<1>4. ConnectorTypes'
  BY <1>1, <1>3 DEF ConnectorTypes
<1>5. \A r \in 1..MaxRuns : ~XiaoZhiLoops!Alive(r)' /\ Ended(r)'
  BY <1>1 DEF XiaoZhiLoops!Alive, Ended
<1>6. \A r \in 1..MaxRuns : Leaving(r)' /\ Stoppable(r)'
  BY <1>1, <1>5 DEF Leaving, Stoppable
<1>7. c # XiaoZhiLoops!App => (Orderly => UpdateAt(c)')
  BY <1>1, <1>3, <1>5 DEF Orderly, UpdateAt, XiaoZhiLoops!Callers, NoLoops
<1>8. c = XiaoZhiLoops!App => (Orderly => AppAt')
  BY <1>1, <1>3, <1>5 DEF Orderly, AppAt
<1>9. Busy(c) /\ caller'[c].at \notin {"idle", "over"}
  BY <1>1, <1>3 DEF Busy
<1> QED
  BY <1>1, <1>3, <1>4, <1>6, <1>7, <1>8, <1>9, CallerMoves

LEMMA ReconfigureStep ==
    ASSUME ConnectorInv, NEW c \in XiaoZhiLoops!Callers, XiaoZhiLoops!Reconfigure(c)
    PROVE  ConnectorInv'
<1> USE DEF ConnectorInv
<1> DEFINE s == caller[c].set
           at == IF caller[c].start THEN "start" ELSE "idle"
<1>1. /\ UNCHANGED <<saved, loops, overlapped, updates>>
      /\ caller[c].at \in {"reconfigure", "stopped"} /\ (c = XiaoZhiLoops!App => caller[c].at = "reconfigure")
      /\ connector' = [connector EXCEPT !.endpoint = s.endpoint, !.enabled = s.enabled,
                                        !.mode = s.mode]
      /\ XiaoZhiLoops!Goes(c, at)
  BY DEF XiaoZhiLoops!Reconfigure
<1>2. caller \in [XiaoZhiLoops!Callers -> CallerRecord] /\ caller[c] \in CallerRecord /\ at \in Places
  BY DEF ConnectorTypes, Places
<1>3. s.endpoint \in Endpoints /\ s.mode \in Modes /\ s.enabled \in BOOLEAN
  BY <1>2 DEF CallerRecord, XiaoZhiLoops!Settings
<1> HIDE DEF s, at
<1>4. /\ caller' \in [XiaoZhiLoops!Callers -> CallerRecord]
      /\ \A d \in XiaoZhiLoops!Callers \ {c} : caller'[d] = caller[d]
      /\ caller'[c].at = at /\ caller'[c].set = s
  BY <1>1, <1>2, GoesWrites DEF s
<1>5. /\ connector' \in [endpoint : Endpoints, enabled : BOOLEAN, mode : Modes \cup {XiaoZhiLoops!Unset},
                         started : BOOLEAN, cancel : 0..MaxRuns]
      /\ connector'.endpoint = s.endpoint /\ connector'.mode = s.mode
      /\ connector'.enabled = s.enabled /\ connector'.started = connector.started
      /\ connector'.cancel = connector.cancel
  BY <1>1, <1>3 DEF ConnectorTypes
<1>6. ConnectorTypes'
  BY <1>1, <1>4, <1>5 DEF ConnectorTypes
<1>7. \A r \in 1..MaxRuns : Leaving(r)' /\ Stoppable(r)'
  <2>1. \A d \in XiaoZhiLoops!Callers : caller[d].at = "cancel" => caller'[d] = caller[d]
    BY <1>1, <1>4
  <2> QED
    BY <1>1, <1>5, <2>1 DEF Leaving, Stoppable, XiaoZhiLoops!Alive
<1>8. Busy(c)
  BY <1>1 DEF Busy
<1>9. c = XiaoZhiLoops!App => ~Orderly
  BY <1>1 DEF Orderly, AppAt
<1>10. ASSUME c # XiaoZhiLoops!App, Orderly
       PROVE  UpdateAt(c)' /\ caller'[c].at # "over" /\ (caller'[c].at = "idle" => Resting')
  <2>1. UpdateAt(c) /\ s = saved /\ updates # 0
    BY <1>1, <1>10 DEF Orderly, UpdateAt, XiaoZhiLoops!Callers, s
  <2>2. Saved' /\ saved'.enabled = s.enabled
    BY <1>1, <1>5, <2>1 DEF Saved, XiaoZhiLoops!Configured
  <2>3. OneLoop /\ (connector.started => connector.endpoint = s.endpoint /\ connector.mode = s.mode)
    BY <1>1, <2>1 DEF UpdateAt, NoLoops, OneLoop, s
  <2>4. OneLoop'
    BY <1>1, <1>5, <2>3 DEF OneLoop, XiaoZhiLoops!Alive
  <2>5. connector.started = (s.enabled /\ ~caller[c].start) /\ (caller[c].start => s.enabled)
    <3>1. connector.started \in BOOLEAN /\ caller[c].start \in BOOLEAN
      BY <1>2 DEF ConnectorTypes, CallerRecord
    <3> QED
      BY <1>1, <1>3, <2>1, <3>1 DEF UpdateAt, NoLoops, s
  <2>6. CASE caller[c].start
    <3>1. at = "start" /\ ~connector'.started
      BY <1>5, <2>5, <2>6 DEF at
    <3>2. NoLoops'
      BY <2>4, <3>1 DEF OneLoop, NoLoops
    <3> QED
      BY <1>4, <2>2, <2>5, <2>6, <3>1, <3>2 DEF UpdateAt
  <2>7. CASE ~caller[c].start
    <3>1. at = "idle"
      BY <2>7 DEF at
    <3>2. Resting'
      BY <1>3, <1>5, <2>2, <2>4, <2>5, <2>7 DEF Resting
    <3> QED
      BY <1>4, <3>1, <3>2 DEF UpdateAt
  <2> QED
    BY <2>6, <2>7
<1> QED
  BY <1>1, <1>4, <1>6, <1>7, <1>8, <1>9, <1>10, CallerMoves

LEMMA StartStep ==
    ASSUME ConnectorInv, NEW c \in XiaoZhiLoops!Callers, XiaoZhiLoops!Start(c)
    PROVE  ConnectorInv'
<1> USE DEF ConnectorInv
<1>1. UNCHANGED <<saved, overlapped, updates>> /\ caller[c].at = "start" /\ XiaoZhiLoops!Goes(c, "idle")
  BY DEF XiaoZhiLoops!Start
<1>2. caller \in [XiaoZhiLoops!Callers -> CallerRecord] /\ "idle" \in Places
  BY DEF ConnectorTypes, Places
<1>3. /\ caller' \in [XiaoZhiLoops!Callers -> CallerRecord]
      /\ \A d \in XiaoZhiLoops!Callers \ {c} : caller'[d] = caller[d]
      /\ caller'[c].at = "idle"
  BY <1>1, <1>2, GoesWrites
<1>4. \A d \in XiaoZhiLoops!Callers : caller[d].at = "cancel" => caller'[d] = caller[d]
  BY <1>1, <1>3
<1>5. Busy(c)
  BY <1>1 DEF Busy
<1>6. Orderly => NoLoops /\ Saved
  BY <1>1 DEF Orderly, UpdateAt, AppAt, XiaoZhiLoops!Callers
<1>7. AppAt' \/ c # XiaoZhiLoops!App
  BY <1>3 DEF AppAt
<1>8. UpdateAt(c)'
  BY <1>3 DEF UpdateAt
<1>9. CASE connector.enabled /\ ~connector.started
  <2> DEFINE new == [at |-> "check", live |-> TRUE, own |-> c = XiaoZhiLoops!App, serves |-> <<>>]
  <2>1. PICK r \in 1..MaxRuns : /\ loops' = [loops EXCEPT ![r] = new]
                                /\ connector' = [connector EXCEPT !.started = TRUE, !.cancel = r]
    BY <1>9 DEF XiaoZhiLoops!Start
  <2>2. new \in LoopRecord /\ new.at = "check" /\ new.live /\ new.serves = <<>>
    BY DEF LoopRecord, Pairs
  <2> HIDE DEF new
  <2>3. /\ loops' \in [1..MaxRuns -> LoopRecord] /\ loops'[r] = new
        /\ \A q \in 1..MaxRuns : q # r => loops'[q] = loops[q]
    BY <2>1, <2>2 DEF ConnectorTypes
  <2>4. /\ connector' \in [endpoint : Endpoints, enabled : BOOLEAN, mode : Modes \cup {XiaoZhiLoops!Unset},
                           started : BOOLEAN, cancel : 0..MaxRuns]
        /\ connector'.started /\ connector'.cancel = r
        /\ connector'.endpoint = connector.endpoint /\ connector'.mode = connector.mode
        /\ connector'.enabled = connector.enabled
    <3>1. r \in 0..MaxRuns
      OBVIOUS
    <3> QED
      BY <2>1, <3>1 DEF ConnectorTypes
  <2>5. ConnectorTypes'
    BY <1>1, <1>3, <2>3, <2>4 DEF ConnectorTypes
  <2>6. \A q \in 1..MaxRuns : Leaving(q)' /\ Stoppable(q)'
    <3> SUFFICES ASSUME NEW q \in 1..MaxRuns PROVE Leaving(q)' /\ Stoppable(q)'
      OBVIOUS
    <3>1. CASE q = r
      BY <2>2, <2>3, <2>4, <3>1 DEF Leaving, Stoppable
    <3>2. CASE q # r
      BY <1>4, <1>9, <2>3, <3>2 DEF Leaving, Stoppable, XiaoZhiLoops!Alive
    <3> QED
      BY <3>1, <3>2
  <2>7. ASSUME Orderly
        PROVE  Resting'
    <3>1. Saved'
      BY <1>1, <1>6, <2>4, <2>7 DEF Saved, XiaoZhiLoops!Configured
    <3>2. \A q \in 1..MaxRuns : XiaoZhiLoops!Alive(q)' => q = r
      BY <1>6, <2>3, <2>7 DEF NoLoops, XiaoZhiLoops!Alive
    <3>3. OneLoop'
      BY <2>2, <2>3, <2>4, <3>2 DEF OneLoop
    <3>4. saved'.enabled \in BOOLEAN /\ saved'.enabled /\ connector'.started \in BOOLEAN
      BY <1>1, <1>6, <1>9, <2>4, <2>5, <2>7 DEF ConnectorTypes, XiaoZhiLoops!Settings, Saved
    <3> QED
      BY <2>4, <3>1, <3>3, <3>4 DEF Resting
  <2> QED
    BY <1>1, <1>3, <1>5, <1>7, <1>8, <2>5, <2>6, <2>7, CallerMoves
<1>10. CASE ~(connector.enabled /\ ~connector.started)
  <2>1. UNCHANGED <<connector, loops>>
    BY <1>10 DEF XiaoZhiLoops!Start
  <2>2. ConnectorTypes'
    BY <1>1, <1>3, <2>1 DEF ConnectorTypes
  <2>3. \A q \in 1..MaxRuns : Leaving(q)' /\ Stoppable(q)'
    BY <1>4, <2>1 DEF Leaving, Stoppable, XiaoZhiLoops!Alive
  <2>4. Orderly => Resting'
    <3> SUFFICES ASSUME Orderly PROVE Resting'
      OBVIOUS
    <3>1. NoLoops' /\ Saved'
      BY <1>1, <1>6, <2>1 DEF NoLoops, XiaoZhiLoops!Alive, Saved, XiaoZhiLoops!Configured
    <3>2. connector'.started = saved'.enabled
      <4>1. /\ connector.started \in BOOLEAN /\ connector.enabled \in BOOLEAN
            /\ ~connector.started /\ connector.enabled = saved.enabled
        BY <1>6 DEF NoLoops, Saved, ConnectorTypes
      <4>2. ~connector.enabled
        BY <1>10, <4>1
      <4> QED
        BY <1>1, <2>1, <4>1, <4>2
    <3> QED
      BY <3>1, <3>2 DEF Resting, OneLoop, NoLoops
  <2> QED
    BY <1>1, <1>3, <1>5, <1>7, <1>8, <2>2, <2>3, <2>4, CallerMoves
<1> QED
  BY <1>9, <1>10

LEMMA ShutdownStep ==
    ASSUME ConnectorInv, XiaoZhiLoops!Shutdown
    PROVE  ConnectorInv'
<1> USE DEF ConnectorInv
<1>1. /\ UNCHANGED <<saved, connector, updates>> /\ caller[XiaoZhiLoops!App].at = "idle" /\ XiaoZhiLoops!Goes(XiaoZhiLoops!App, "stop")
      /\ loops' = [r \in 1..MaxRuns |-> [loops[r] EXCEPT !.live = @ /\ ~loops[r].own]]
      /\ overlapped' = (overlapped \/ \E d \in Updates : caller[d].at # "idle")
  BY DEF XiaoZhiLoops!Shutdown
<1>2. caller \in [XiaoZhiLoops!Callers -> CallerRecord] /\ "stop" \in Places /\ XiaoZhiLoops!App \in XiaoZhiLoops!Callers
  BY DEF ConnectorTypes, Places, XiaoZhiLoops!Callers
<1>3. /\ caller' \in [XiaoZhiLoops!Callers -> CallerRecord]
      /\ \A d \in XiaoZhiLoops!Callers \ {XiaoZhiLoops!App} : caller'[d] = caller[d]
      /\ caller'[XiaoZhiLoops!App].at = "stop"
  BY <1>1, <1>2, GoesWrites
<1>4. /\ loops' \in [1..MaxRuns -> LoopRecord]
      /\ \A r \in 1..MaxRuns : /\ loops'[r].at = loops[r].at
                               /\ loops'[r].live => loops[r].live
  <2>1. \A r \in 1..MaxRuns : loops[r] \in LoopRecord
    BY DEF ConnectorTypes
  <2>2. ASSUME NEW r \in 1..MaxRuns
        PROVE  /\ loops'[r] \in LoopRecord /\ loops'[r].at = loops[r].at
               /\ loops'[r].live => loops[r].live
    <3>1. loops'[r] = [loops[r] EXCEPT !.live = loops[r].live /\ ~loops[r].own]
      BY <1>1
    <3>2. (loops[r].live /\ ~loops[r].own) \in BOOLEAN
      OBVIOUS
    <3> QED
      BY <2>1, <3>1, <3>2 DEF LoopRecord
  <2> QED
    BY <1>1, <2>2
<1>5. overlapped' \in BOOLEAN
  BY <1>1
<1>6. ConnectorTypes'
  BY <1>1, <1>3, <1>4, <1>5 DEF ConnectorTypes
<1>7. \A r \in 1..MaxRuns : Leaving(r)' /\ Stoppable(r)'
  <2>1. \A d \in XiaoZhiLoops!Callers : caller[d].at = "cancel" => caller'[d] = caller[d]
    BY <1>1, <1>3
  <2> QED
    BY <1>1, <1>4, <2>1 DEF Leaving, Stoppable, XiaoZhiLoops!Alive
<1>8. ASSUME ~overlapped'
      PROVE  Orderly'
  <2>1. Orderly /\ \A d \in Updates : caller[d].at = "idle"
    BY <1>1, <1>8 DEF ConnectorTypes
  <2>2. \A d \in Updates : caller'[d].at = "idle"
    BY <1>3, <2>1, AppIsNoUpdate DEF XiaoZhiLoops!Callers, XiaoZhiLoops!App
  <2>3. Alone'
    BY <1>2, <1>3, <2>2 DEF Alone, Busy, XiaoZhiLoops!Callers
  <2>4. Resting
    BY <1>1, <2>1 DEF Orderly, XiaoZhiLoops!Callers
  <2>5. \A r \in 1..MaxRuns : Ended(r)' \/ (connector'.started /\ connector'.cancel = r)
    BY <1>1, <1>4, <2>4 DEF Resting, OneLoop, XiaoZhiLoops!Alive, Ended
  <2>6. AppAt'
    BY <1>3, <2>5 DEF AppAt
  <2>7. \A d \in Updates : UpdateAt(d)'
    BY <2>2 DEF UpdateAt
  <2> QED
    BY <1>2, <1>3, <2>3, <2>6, <2>7 DEF Orderly
<1> QED
  BY <1>6, <1>7, <1>8

LEMMA ClosedStep ==
    ASSUME ConnectorInv, XiaoZhiLoops!Closed
    PROVE  ConnectorInv'
<1> USE DEF ConnectorInv
<1>1. /\ UNCHANGED <<saved, connector, loops, overlapped, updates>> /\ caller[XiaoZhiLoops!App].at = "stopped"
      /\ XiaoZhiLoops!Goes(XiaoZhiLoops!App, "over")
  BY DEF XiaoZhiLoops!Closed
<1>2. caller \in [XiaoZhiLoops!Callers -> CallerRecord] /\ "over" \in Places /\ XiaoZhiLoops!App \in XiaoZhiLoops!Callers
  BY DEF ConnectorTypes, Places, XiaoZhiLoops!Callers
<1>3. /\ caller' \in [XiaoZhiLoops!Callers -> CallerRecord]
      /\ \A d \in XiaoZhiLoops!Callers \ {XiaoZhiLoops!App} : caller'[d] = caller[d]
      /\ caller'[XiaoZhiLoops!App].at = "over"
  BY <1>1, <1>2, GoesWrites
<1>4. ConnectorTypes'
  BY <1>1, <1>3 DEF ConnectorTypes
<1>5. \A r \in 1..MaxRuns : Leaving(r)' /\ Stoppable(r)'
  <2>1. \A d \in XiaoZhiLoops!Callers : caller[d].at = "cancel" => caller'[d] = caller[d]
    BY <1>1, <1>3
  <2> QED
    BY <1>1, <2>1 DEF Leaving, Stoppable, XiaoZhiLoops!Alive
<1>6. Orderly => AppAt'
  BY <1>1, <1>3 DEF Orderly, AppAt, Ended
<1>7. Busy(XiaoZhiLoops!App)
  BY <1>1 DEF Busy
<1> QED
  BY <1>1, <1>2, <1>3, <1>4, <1>5, <1>6, <1>7, CallerMoves

LEMMA ConnectorNext == ConnectorInv /\ [XiaoZhiLoops!Next]_xiaozhiVars => ConnectorInv'
<1> SUFFICES ASSUME ConnectorInv, [XiaoZhiLoops!Next]_xiaozhiVars
             PROVE  ConnectorInv'
  OBVIOUS
<1>1. ASSUME NEW c \in XiaoZhiLoops!Callers,
             \/ XiaoZhiLoops!Save(c) \/ XiaoZhiLoops!ApplySettings(c) \/ XiaoZhiLoops!StopLock(c)
             \/ XiaoZhiLoops!StopCancel(c) \/ XiaoZhiLoops!StopWait(c) \/ XiaoZhiLoops!Reconfigure(c) \/ XiaoZhiLoops!Start(c)
      PROVE  ConnectorInv'
  BY <1>1, SaveStep, ApplyStep, StopLockStep, StopCancelStep, StopWaitStep, ReconfigureStep,
     StartStep
<1>2. ASSUME NEW r \in 1..MaxRuns,
             XiaoZhiLoops!Connect(r) \/ XiaoZhiLoops!SessionEnds(r) \/ XiaoZhiLoops!Delay(r) \/ XiaoZhiLoops!MarkStopped(r) \/ XiaoZhiLoops!Done(r)
      PROVE  ConnectorInv'
  BY <1>2, LoopSteps, MarkStoppedStep
<1>3. CASE UNCHANGED xiaozhiVars
  BY <1>3 DEF xiaozhiVars, ConnectorInv, ConnectorTypes, Leaving, Stoppable,
     XiaoZhiLoops!Alive, Orderly, Alone, Busy, AppAt, UpdateAt, Resting, OneLoop, NoLoops,
     Saved, XiaoZhiLoops!Configured, Ended
<1> QED
  BY <1>1, <1>2, <1>3, ShutdownStep, ClosedStep DEF XiaoZhiLoops!Next

LEMMA ConnectorSafe == ConnectorInv => XiaoZhiLoops!ConnectorFollowsSettings
<1> SUFFICES ASSUME ConnectorInv PROVE XiaoZhiLoops!ConnectorFollowsSettings
  OBVIOUS
<1>1. \A r \in 1..MaxRuns : Stoppable(r)
  BY DEF ConnectorInv
<1>2. ASSUME ~overlapped, \A c \in XiaoZhiLoops!Callers : caller[c].at = "idle"
      PROVE  /\ connector.started = saved.enabled
             /\ {loops[r].serves : r \in {r \in 1..MaxRuns : XiaoZhiLoops!Alive(r)}} \subseteq
                 (IF saved.enabled THEN {<<>>, <<saved.endpoint, XiaoZhiLoops!ServedMode(XiaoZhiLoops!Configured)>>} ELSE {})
             /\ Cardinality({r \in 1..MaxRuns : XiaoZhiLoops!Alive(r)}) <= 1
  <2>1. OneLoop /\ Saved /\ connector.started = saved.enabled
    BY <1>2 DEF ConnectorInv, Orderly, Resting
  <2>2. \A r \in 1..MaxRuns : XiaoZhiLoops!Alive(r) =>
            saved.enabled /\ loops[r].serves \in {<<>>, <<saved.endpoint, XiaoZhiLoops!ServedMode(XiaoZhiLoops!Configured)>>}
    BY <2>1 DEF OneLoop, Saved
  <2>3. {r \in 1..MaxRuns : XiaoZhiLoops!Alive(r)} \in SUBSET {connector.cancel}
    BY <2>1 DEF OneLoop
  <2>4. Cardinality({r \in 1..MaxRuns : XiaoZhiLoops!Alive(r)}) <= 1
    <3>1. IsFiniteSet({connector.cancel}) /\ Cardinality({connector.cancel}) = 1
      BY FS_Singleton
    <3>2. \A T \in SUBSET {connector.cancel} : Cardinality(T) <= Cardinality({connector.cancel})
      BY <3>1, FS_Subset
    <3> QED
      BY <2>3, <3>1, <3>2
  <2> QED
    BY <2>1, <2>2, <2>4
<1>3. ~overlapped /\ caller[XiaoZhiLoops!App].at = "over" => \A r \in 1..MaxRuns : Ended(r)
  BY DEF ConnectorInv, Orderly, AppAt
<1> QED
  BY <1>1, <1>2, <1>3 DEF XiaoZhiLoops!ConnectorFollowsSettings, XiaoZhiLoops!Cardinality,
     Cardinality, Stoppable, Ended


(* However updates, reconnects and a shutdown overlap, no loop escapes      *)
(* Stop.  A connector at rest, where updates did not overlap, has at most   *)
(* one loop, only if the saved settings enable it, on the saved endpoint    *)
(* and, once settings were saved in this process, in the saved mode; before *)
(* that in the smart one (NewConnector, Reconfigure, Start, Stop,           *)
(* markStopped).                                                            *)
THEOREM ConnectorFollows ==
    Spec => []ConnectorFollowsSettings
<1>1. Init => ConnectorInv
  BY ConnectorInit DEF Init
<1>2. ConnectorInv /\ [Next]_allVars => ConnectorInv'
  <2>1. [Next]_allVars => [XiaoZhiLoops!Next]_xiaozhiVars
    BY DEF Next, allVars, xiaozhiVars
  <2> QED
    BY <2>1, ConnectorNext
<1>3. ConnectorInv => ConnectorFollowsSettings
  BY ConnectorSafe DEF ConnectorFollowsSettings
<1> QED
  BY <1>1, <1>2, <1>3, PTL DEF Spec


----------------------------------------------------------------------------
(* One job from the inside: BatchRating.                                     *)

Listed == Rating!ToSet(Items)
Upto(n) == {Items[i] : i \in 1 .. n - 1}    \* what workers have taken

(* The account of a job: who has taken a tool, what has come of it, and     *)
(* whether the row counts it already.                                       *)
LedgerEntry == [by : Workers, counted : BOOLEAN, as : {"left", "good", "bad"}]

LeftWith(l, w) == {t \in DOMAIN l : l[t].by = w /\ l[t].as = "left"}
Settled(l, w) == {t \in DOMAIN l : l[t].by = w /\ ~l[t].counted /\ l[t].as # "left"}
SettledWell(l, w) == {t \in DOMAIN l : l[t].by = w /\ ~l[t].counted /\ l[t].as = "good"}
Counted(l) == {t \in DOMAIN l : l[t].counted}
CountedWell(l) == {t \in DOMAIN l : l[t].counted /\ l[t].as = "good"}

Outcome == [Rating!Counters -> Nat]

Balanced(o) ==
    /\ o \in Outcome
    /\ o["processed"] = o["success"] + o["failure"]
    /\ o["failure"] = o["http"] + o["network"] + o["response_validation"] + o["storage"]

Tallies(o, S, G) ==
    Balanced(o) /\ o["processed"] = Cardinality(S) /\ o["success"] = Cardinality(G)

(* What a worker still holds is in pieces: its parts, and of the first part *)
(* the results while it stores them.                                        *)
WorkerRecord ==
    [at : {"idle", "ask", "store", "deliver", "gone"}, parts : Seq(Seq(Listed)),
     whole : BOOLEAN, attempt : Nat, results : Seq(Listed), out : Outcome]

HasPieces(me) == me.at \in {"ask", "store"}
Piece(me, i) == IF me.at = "store" /\ i = 1 THEN me.results ELSE me.parts[i]

Distinct(me) ==
    \A i, j \in 1 .. Len(me.parts) :
        \A k \in 1 .. Len(Piece(me, i)), m \in 1 .. Len(Piece(me, j)) :
            Piece(me, i)[k] = Piece(me, j)[m] => i = j /\ k = m

IsIn(t, piece) == \E k \in 1 .. Len(piece) : t = piece[k]

Todo(me) ==
    {t \in Listed :
        /\ HasPieces(me)
        /\ \E i \in 1 .. Len(me.parts) : \E k \in 1 .. Len(Piece(me, i)) : t = Piece(me, i)[k]}

WorkerOK(me) ==
    /\ me \in WorkerRecord
    /\ HasPieces(me) => /\ me.parts # <<>> /\ Distinct(me)
                        /\ me.whole => Len(me.parts) = 1
    /\ me.at \in {"idle", "gone"} => me.out = Rating!NoOutcome

IsLedger(l, n) ==
    /\ n \in 1 .. Len(Items) + 1
    /\ l \in [Upto(n) -> LedgerEntry]
    /\ \A t \in DOMAIN l : l[t].as = "left" => ~l[t].counted

Books(l, n, wk, ct, ft) ==
    /\ IsLedger(l, n)
    /\ wk \in [Workers -> WorkerRecord] /\ ft \in [Listed -> {"listed", "rated", "error"}]
    /\ \A w \in Workers : WorkerOK(wk[w])
    /\ \A w \in Workers : LeftWith(l, w) = Todo(wk[w])
    /\ \A w \in Workers : Tallies(wk[w].out, Settled(l, w), SettledWell(l, w))
    /\ \A w \in Workers : wk[w].at = "gone" => n = Len(Items) + 1
    /\ Tallies(ct, Counted(l), CountedWell(l))
    /\ \A t \in DOMAIN l : l[t].as = "good" => ft[t] = "rated"

(* While the job goes on its books balance; once it has ended they stay. *)
JobInv ==
    /\ running \in {"running", "cancelled", "completed", "partial", "failed"}
    /\ reader \in {"receives", "cancelled", "returned"}
    /\ jobCtx \in {"live", "cancelled", "stopped"}
    /\ reader = "receives" => jobCtx # "cancelled" /\ running \in {"running", "cancelled"}
    /\ running \in {"completed", "partial", "failed"} =>
           /\ reader = "returned" /\ \A w \in Workers : worker[w].at = "gone"
           /\ worker \in [Workers -> WorkerRecord] /\ Rating!JobAccountsForTools
    /\ jobCtx = "live" /\ reader = "receives" =>
           \E l : Books(l, next, worker, counts, fate)

LEMMA PlacesSize == \A n \in Nat : IsFiniteSet(1 .. n) /\ Cardinality(1 .. n) = n
<1> SUFFICES ASSUME NEW n \in Nat PROVE IsFiniteSet(1 .. n) /\ Cardinality(1 .. n) = n
  OBVIOUS
<1>1. IsFiniteSet(1 .. n) /\ Cardinality(1 .. n) = IF 1 > n THEN 0 ELSE n - 1 + 1
  BY FS_Interval
<1>2. (IF 1 > n THEN 0 ELSE n - 1 + 1) = n
  OBVIOUS
<1> QED
  BY <1>1, <1>2

(* A list without repetitions has as many members as places. *)
LEMMA ListSize ==
    ASSUME NEW T, NEW s \in Seq(T),
           \A k, m \in 1 .. Len(s) : s[k] = s[m] => k = m
    PROVE  /\ IsFiniteSet({s[k] : k \in 1 .. Len(s)})
           /\ Cardinality({s[k] : k \in 1 .. Len(s)}) = Len(s)
<1> DEFINE R == {s[k] : k \in 1 .. Len(s)}
           f == [k \in 1 .. Len(s) |-> s[k]]
<1>1. f \in Surjection(1 .. Len(s), R) /\ f \in Injection(1 .. Len(s), R)
  <2>1. f \in [1 .. Len(s) -> R] /\ \A k \in 1 .. Len(s) : f[k] = s[k]
    OBVIOUS
  <2>2. \A x \in R : \E k \in 1 .. Len(s) : f[k] = x
    BY <2>1
  <2> HIDE DEF f
  <2>3. \A k, m \in 1 .. Len(s) : f[k] = f[m] => k = m
    BY <2>1
  <2> HIDE DEF R
  <2> QED
    BY <2>1, <2>2, <2>3, Fun_IsSurj, Fun_IsInj
<1>2. Len(s) \in Nat
  OBVIOUS
<1>3. IsFiniteSet(1 .. Len(s)) /\ Cardinality(1 .. Len(s)) = Len(s)
  BY <1>2, PlacesSize
<1> HIDE DEF R, f
<1>4. IsFiniteSet(R) /\ Cardinality(R) = Cardinality(1 .. Len(s))
  BY <1>1, <1>3, FS_Surjection
<1> QED
  BY <1>3, <1>4 DEF R

LEMMA ItemsListed ==
    /\ Items \in Seq(Listed) /\ Len(Items) \in Nat
    /\ \A i, j \in 1 .. Len(Items) : Items[i] = Items[j] => i = j
    /\ Upto(Len(Items) + 1) = Listed
    /\ IsFiniteSet(Listed) /\ Cardinality(Listed) = Len(Items)
<1>1. Items \in Seq(Listed) /\ Len(Items) \in Nat /\ DOMAIN Items = 1 .. Len(Items)
  BY JobConstants DEF Listed
<1>2. \A i, j \in 1 .. Len(Items) : Items[i] = Items[j] => i = j
  BY <1>1, JobConstants DEF Rating!IsInjective
<1>3. Listed = {Items[k] : k \in 1 .. Len(Items)}
  BY <1>1 DEF Listed, Rating!ToSet
<1>4. Len(Items) + 1 - 1 = Len(Items)
  BY <1>1
<1>5. Upto(Len(Items) + 1) = Listed
  BY <1>3, <1>4 DEF Upto
<1> QED
  BY <1>1, <1>2, <1>3, <1>5, ListSize

LEMMA LedgerFinite ==
    ASSUME NEW n, NEW l, IsLedger(l, n)
    PROVE  /\ Upto(n) \subseteq Listed /\ IsFiniteSet(DOMAIN l)
           /\ IsFiniteSet(Counted(l)) /\ IsFiniteSet(CountedWell(l))
           /\ \A w : IsFiniteSet(Settled(l, w)) /\ IsFiniteSet(SettledWell(l, w))
<1>1. n \in Int /\ Len(Items) \in Nat /\ n - 1 <= Len(Items)
  BY ItemsListed DEF IsLedger
<1>2. Upto(n) \subseteq Listed
  BY <1>1, ItemsListed DEF Upto
<1>3. IsFiniteSet(DOMAIN l)
  BY <1>2, ItemsListed, FS_Subset DEF IsLedger
<1>4. \A S \in SUBSET DOMAIN l : IsFiniteSet(S)
  BY <1>3, FS_Subset
<1> QED
  BY <1>2, <1>3, <1>4 DEF Counted, CountedWell, Settled, SettledWell

LEMMA DisjointSize ==
    ASSUME NEW S, NEW T, IsFiniteSet(S), IsFiniteSet(T), S \cap T = {}
    PROVE  /\ IsFiniteSet(S \cup T) /\ Cardinality(S \cup T) = Cardinality(S) + Cardinality(T)
           /\ Cardinality(S) \in Nat /\ Cardinality(T) \in Nat
<1>1. Cardinality(S \cup T) = Cardinality(S) + Cardinality(T) - Cardinality(S \cap T)
  BY FS_Union
<1>2. Cardinality(S \cap T) = 0
  BY FS_EmptySet
<1>3. Cardinality(S) \in Nat /\ Cardinality(T) \in Nat
  BY FS_CardinalityType
<1> QED
  BY <1>1, <1>2, <1>3, FS_Union

(* Adding outcomes. *)
LEMMA AddSums ==
    ASSUME NEW o \in Outcome, NEW p \in Outcome
    PROVE  /\ Rating!Add(o, p) \in Outcome
           /\ \A c \in Rating!Counters : Rating!Add(o, p)[c] = o[c] + p[c]
BY DEF Outcome, Rating!Add

LEMMA CounterNames ==
    Rating!Counters = {"processed", "success", "failure", "http", "network",
                       "response_validation", "storage"}
BY DEF Rating!Counters, Rating!Categories

LEMMA AddStored ==
    ASSUME NEW o, Balanced(o)
    PROVE  LET p == Rating!Add(o, [processed |-> 1, success |-> 1])
           IN  /\ Balanced(p) /\ p["processed"] = o["processed"] + 1
               /\ p["success"] = o["success"] + 1
<1> DEFINE more == [processed |-> 1, success |-> 1]
           p == Rating!Add(o, more)
<1>1. p = [c \in Rating!Counters |-> o[c] + (IF c \in DOMAIN more THEN more[c] ELSE 0)]
  BY DEF Rating!Add
<1>2. DOMAIN more = {"processed", "success"} /\ more["processed"] = 1 /\ more["success"] = 1
  OBVIOUS
<1> HIDE DEF more
<1>3. \A c \in Rating!Counters : o[c] \in Nat
  BY DEF Balanced, Outcome
<1>4. /\ p["processed"] = o["processed"] + 1 /\ p["success"] = o["success"] + 1
      /\ p["failure"] = o["failure"] /\ p["http"] = o["http"] /\ p["network"] = o["network"]
      /\ p["response_validation"] = o["response_validation"] /\ p["storage"] = o["storage"]
  BY <1>1, <1>2, <1>3, CounterNames
<1>5. p \in Outcome
  <2>1. \A c \in Rating!Counters : p[c] \in Nat
    BY <1>3, <1>4, CounterNames
  <2> QED
    BY <1>1, <2>1 DEF Outcome
<1> HIDE DEF p
<1> QED
  BY <1>3, <1>4, <1>5, CounterNames DEF Balanced, p, more

LEMMA AddUnstored ==
    ASSUME NEW o, Balanced(o)
    PROVE  LET p == Rating!Add(o, [processed |-> 1, failure |-> 1, storage |-> 1])
           IN  /\ Balanced(p) /\ p["processed"] = o["processed"] + 1
               /\ p["success"] = o["success"]
<1> DEFINE more == [processed |-> 1, failure |-> 1, storage |-> 1]
           p == Rating!Add(o, more)
<1>1. p = [c \in Rating!Counters |-> o[c] + (IF c \in DOMAIN more THEN more[c] ELSE 0)]
  BY DEF Rating!Add
<1>2. /\ DOMAIN more = {"processed", "failure", "storage"}
      /\ more["processed"] = 1 /\ more["failure"] = 1 /\ more["storage"] = 1
  OBVIOUS
<1> HIDE DEF more
<1>3. \A c \in Rating!Counters : o[c] \in Nat
  BY DEF Balanced, Outcome
<1>4. /\ p["processed"] = o["processed"] + 1 /\ p["success"] = o["success"]
      /\ p["failure"] = o["failure"] + 1 /\ p["http"] = o["http"] /\ p["network"] = o["network"]
      /\ p["response_validation"] = o["response_validation"] /\ p["storage"] = o["storage"] + 1
  BY <1>1, <1>2, <1>3, CounterNames
<1>5. p \in Outcome
  <2>1. \A c \in Rating!Counters : p[c] \in Nat
    BY <1>3, <1>4, CounterNames
  <2> QED
    BY <1>1, <2>1 DEF Outcome
<1> HIDE DEF p
<1> QED
  BY <1>3, <1>4, <1>5, CounterNames DEF Balanced, p, more

(* A part the provider did not answer fails under one category. *)
LEMMA AddFailed ==
    ASSUME NEW o, Balanced(o), NEW n \in Nat, NEW reply
    PROVE  LET p == Rating!Add(Rating!Add(o, [processed |-> n, failure |-> n]),
                               [c \in {Rating!AssessmentErrorCategory(reply)} |-> n])
           IN  /\ Balanced(p) /\ p["processed"] = o["processed"] + n
               /\ p["success"] = o["success"]
<1> DEFINE more == [processed |-> n, failure |-> n]
           kind == Rating!AssessmentErrorCategory(reply)
           under == [c \in {kind} |-> n]
           q == Rating!Add(o, more)
           p == Rating!Add(q, under)
<1>1. kind \in {"http", "network", "response_validation"}
  BY DEF Rating!AssessmentErrorCategory
<1>2. q = [c \in Rating!Counters |-> o[c] + (IF c \in DOMAIN more THEN more[c] ELSE 0)]
  BY DEF Rating!Add
<1>3. p = [c \in Rating!Counters |-> q[c] + (IF c = kind THEN n ELSE 0)]
  BY DEF Rating!Add
<1>4. DOMAIN more = {"processed", "failure"} /\ more["processed"] = n /\ more["failure"] = n
  OBVIOUS
<1> HIDE DEF more, kind
<1>5. \A c \in Rating!Counters : o[c] \in Nat
  BY DEF Balanced, Outcome
<1>6. /\ q["processed"] = o["processed"] + n /\ q["success"] = o["success"]
      /\ q["failure"] = o["failure"] + n /\ q["http"] = o["http"] /\ q["network"] = o["network"]
      /\ q["response_validation"] = o["response_validation"] /\ q["storage"] = o["storage"]
  BY <1>2, <1>4, <1>5, CounterNames
<1> HIDE DEF q, p
<1>7. /\ p["processed"] = o["processed"] + n /\ p["success"] = o["success"]
      /\ p["failure"] = o["failure"] + n /\ p["storage"] = o["storage"]
      /\ p["http"] = o["http"] + (IF kind = "http" THEN n ELSE 0)
      /\ p["network"] = o["network"] + (IF kind = "network" THEN n ELSE 0)
      /\ p["response_validation"]
            = o["response_validation"] + (IF kind = "response_validation" THEN n ELSE 0)
  BY <1>1, <1>3, <1>5, <1>6, CounterNames
<1>8. p \in Outcome
  <2>1. \A c \in Rating!Counters : p[c] \in Nat
    BY <1>5, <1>7, CounterNames
  <2> QED
    BY <1>3, <2>1 DEF Outcome
<1>9. Balanced(p)
  BY <1>1, <1>5, <1>7, <1>8, CounterNames DEF Balanced
<1> QED
  BY <1>7, <1>9 DEF p, q, more, under, kind

----------------------------------------------------------------------------
(* The ledger changes with a worker.                                         *)

Marked(l, S, as) == [t \in DOMAIN l |-> IF t \in S THEN [l[t] EXCEPT !.as = as] ELSE l[t]]
Booked(l, w) ==
    [t \in DOMAIN l |-> IF t \in Settled(l, w) THEN [l[t] EXCEPT !.counted = TRUE] ELSE l[t]]
Given(l, T, w) ==
    [t \in DOMAIN l \cup T |-> IF t \in DOMAIN l THEN l[t]
                               ELSE [by |-> w, counted |-> FALSE, as |-> "left"]]

SameFor(l, m, v) ==
    /\ LeftWith(m, v) = LeftWith(l, v) /\ Settled(m, v) = Settled(l, v)
    /\ SettledWell(m, v) = SettledWell(l, v)

(* What settling some tools of a worker does to the ledger. *)
Settles(l, m, n, w, S, as) ==
    /\ IsLedger(m, n)
    /\ \A v \in Workers \ {w} : SameFor(l, m, v)
    /\ LeftWith(m, w) = LeftWith(l, w) \ S
    /\ Cardinality(Settled(m, w)) = Cardinality(Settled(l, w)) + Cardinality(S)
    /\ Cardinality(SettledWell(m, w))
         = Cardinality(SettledWell(l, w)) + (IF as = "good" THEN Cardinality(S) ELSE 0)
    /\ Counted(m) = Counted(l) /\ CountedWell(m) = CountedWell(l)
    /\ \A t \in DOMAIN m : m[t].as = "good" =>
         t \in DOMAIN l /\ (l[t].as = "good" \/ (as = "good" /\ t \in S))

LEMMA MarkedLedger ==
    ASSUME NEW n, NEW l, IsLedger(l, n), NEW w \in Workers, NEW S \in SUBSET LeftWith(l, w),
           NEW as \in {"good", "bad"}
    PROVE  Settles(l, Marked(l, S, as), n, w, S, as)
<1> DEFINE m == Marked(l, S, as)
<1>1. DOMAIN m = DOMAIN l /\ \A t \in DOMAIN l : l[t] \in LedgerEntry
  BY DEF Marked, IsLedger
<1>2. \A t \in DOMAIN l \ S : m[t] = l[t]
  BY DEF Marked
<1>3. \A t \in S :
        /\ t \in DOMAIN l /\ l[t].by = w /\ l[t].as = "left" /\ l[t].counted = FALSE
        /\ m[t] \in LedgerEntry /\ m[t].by = w /\ m[t].as = as /\ m[t].counted = FALSE
  <2> TAKE t \in S
  <2>1. t \in DOMAIN l /\ l[t].by = w /\ l[t].as = "left" /\ l[t] \in LedgerEntry
    BY <1>1 DEF LeftWith
  <2>2. l[t].counted = FALSE
    BY <2>1 DEF IsLedger, LedgerEntry
  <2>3. m[t] = [l[t] EXCEPT !.as = as]
    BY <2>1 DEF Marked
  <2> QED
    BY <2>1, <2>2, <2>3 DEF LedgerEntry
<1> HIDE DEF m
<1>4. IsLedger(m, n)
  <2>1. \A t \in DOMAIN m : m[t] \in LedgerEntry /\ (m[t].as = "left" => ~m[t].counted)
    BY <1>1, <1>2, <1>3 DEF IsLedger
  <2>2. m = [t \in DOMAIN l |-> m[t]]
    BY DEF m, Marked
  <2> QED
    BY <1>1, <2>1, <2>2 DEF IsLedger
<1>5. \A v \in Workers \ {w} : SameFor(l, m, v)
  <2> TAKE v \in Workers \ {w}
  <2>1. \A t \in DOMAIN l : m[t].by = v <=> l[t].by = v
    BY <1>2, <1>3
  <2>2. \A t \in DOMAIN l : l[t].by = v => m[t] = l[t]
    BY <1>2, <1>3
  <2>3. LeftWith(m, v) = LeftWith(l, v)
    BY <1>1, <2>1, <2>2 DEF LeftWith
  <2>4. Settled(m, v) = Settled(l, v)
    BY <1>1, <2>1, <2>2 DEF Settled
  <2>5. SettledWell(m, v) = SettledWell(l, v)
    BY <1>1, <2>1, <2>2 DEF SettledWell
  <2> QED
    BY <2>3, <2>4, <2>5 DEF SameFor
<1>6. LeftWith(m, w) = LeftWith(l, w) \ S
  BY <1>1, <1>2, <1>3 DEF LeftWith
<1>7. /\ Settled(m, w) = Settled(l, w) \cup S /\ Settled(l, w) \cap S = {}
      /\ SettledWell(m, w) = SettledWell(l, w) \cup (IF as = "good" THEN S ELSE {})
      /\ SettledWell(l, w) \cap S = {}
  BY <1>1, <1>2, <1>3 DEF Settled, SettledWell
<1>8. Counted(m) = Counted(l) /\ CountedWell(m) = CountedWell(l)
  BY <1>1, <1>2, <1>3 DEF Counted, CountedWell
<1>9. IsFiniteSet(S) /\ IsFiniteSet(Settled(l, w)) /\ IsFiniteSet(SettledWell(l, w))
  <2>1. S \in SUBSET DOMAIN l
    BY <1>3
  <2> QED
    BY <2>1, LedgerFinite, FS_Subset
<1>10. Cardinality(Settled(m, w)) = Cardinality(Settled(l, w)) + Cardinality(S)
  BY <1>7, <1>9, DisjointSize
<1>11. Cardinality(SettledWell(m, w))
         = Cardinality(SettledWell(l, w)) + (IF as = "good" THEN Cardinality(S) ELSE 0)
  <2>1. Cardinality(SettledWell(l, w)) \in Nat
    BY <1>9, FS_CardinalityType
  <2>2. CASE as = "good"
    BY <2>2, <1>7, <1>9, DisjointSize
  <2>3. CASE as = "bad"
    <3>1. SettledWell(m, w) = SettledWell(l, w)
      BY <2>3, <1>7
    <3> QED
      BY <2>1, <2>3, <3>1
  <2> QED
    BY <2>2, <2>3
<1>12. \A t \in DOMAIN m : m[t].as = "good" =>
         t \in DOMAIN l /\ (l[t].as = "good" \/ (as = "good" /\ t \in S))
  BY <1>1, <1>2, <1>3
<1> QED
  BY <1>4, <1>5, <1>6, <1>8, <1>10, <1>11, <1>12 DEF m, Settles

LEMMA BookedLedger ==
    ASSUME NEW n, NEW l, IsLedger(l, n), NEW w \in Workers
    PROVE  LET m == Booked(l, w)
           IN  /\ IsLedger(m, n)
               /\ \A v \in Workers \ {w} : SameFor(l, m, v)
               /\ LeftWith(m, w) = LeftWith(l, w)
               /\ Settled(m, w) = {} /\ SettledWell(m, w) = {}
               /\ Cardinality(Counted(m)) = Cardinality(Counted(l)) + Cardinality(Settled(l, w))
               /\ Cardinality(CountedWell(m))
                    = Cardinality(CountedWell(l)) + Cardinality(SettledWell(l, w))
               /\ \A t \in DOMAIN m : t \in DOMAIN l /\ m[t].as = l[t].as
<1> DEFINE m == Booked(l, w)
           S == Settled(l, w)
<1>1. DOMAIN m = DOMAIN l /\ \A t \in DOMAIN l : l[t] \in LedgerEntry
  BY DEF Booked, IsLedger
<1>2. \A t \in DOMAIN l \ S : m[t] = l[t]
  BY DEF Booked
<1>3. \A t \in S :
        /\ t \in DOMAIN l /\ l[t].by = w /\ l[t].as # "left" /\ l[t].counted = FALSE
        /\ m[t] \in LedgerEntry /\ m[t].by = w /\ m[t].as = l[t].as /\ m[t].counted = TRUE
  <2> TAKE t \in S
  <2>1. /\ t \in DOMAIN l /\ l[t].by = w /\ l[t].as # "left" /\ ~l[t].counted
        /\ l[t] \in LedgerEntry
    BY <1>1 DEF Settled
  <2>2. l[t].counted = FALSE
    BY <2>1 DEF LedgerEntry
  <2>3. m[t] = [l[t] EXCEPT !.counted = TRUE]
    BY <2>1 DEF Booked
  <2> QED
    BY <2>1, <2>2, <2>3 DEF LedgerEntry
<1> HIDE DEF m
<1>4. IsLedger(m, n)
  <2>1. \A t \in DOMAIN m : m[t] \in LedgerEntry /\ (m[t].as = "left" => ~m[t].counted)
    BY <1>1, <1>2, <1>3 DEF IsLedger
  <2>2. m = [t \in DOMAIN l |-> m[t]]
    BY DEF m, Booked
  <2> QED
    BY <1>1, <2>1, <2>2 DEF IsLedger
<1>5. \A v \in Workers \ {w} : SameFor(l, m, v)
  BY <1>1, <1>2, <1>3 DEF SameFor, LeftWith, Settled, SettledWell
<1>6. LeftWith(m, w) = LeftWith(l, w)
  BY <1>1, <1>2, <1>3 DEF LeftWith
<1>7. Settled(m, w) = {} /\ SettledWell(m, w) = {}
  <2>1. \A t \in DOMAIN m : ~(m[t].by = w /\ ~m[t].counted /\ m[t].as # "left")
    BY <1>1, <1>2, <1>3 DEF Settled
  <2> QED
    BY <2>1 DEF Settled, SettledWell
<1>8. /\ Counted(m) = Counted(l) \cup S /\ Counted(l) \cap S = {}
      /\ CountedWell(m) = CountedWell(l) \cup SettledWell(l, w)
      /\ CountedWell(l) \cap SettledWell(l, w) = {}
  BY <1>1, <1>2, <1>3 DEF Counted, CountedWell, Settled, SettledWell
<1>9. /\ Cardinality(Counted(m)) = Cardinality(Counted(l)) + Cardinality(S)
      /\ Cardinality(CountedWell(m)) = Cardinality(CountedWell(l)) + Cardinality(SettledWell(l, w))
  BY <1>8, LedgerFinite, DisjointSize
<1>10. \A t \in DOMAIN m : t \in DOMAIN l /\ m[t].as = l[t].as
  BY <1>1, <1>2, <1>3
<1> QED
  BY <1>4, <1>5, <1>6, <1>7, <1>9, <1>10 DEF m

LEMMA GivenLedger ==
    ASSUME NEW n, NEW l, IsLedger(l, n), NEW w \in Workers, NEW k \in n .. Len(Items) + 1
    PROVE  LET T == {Items[i] : i \in n .. k - 1}
               m == Given(l, T, w)
           IN  /\ IsLedger(m, k)
               /\ \A v \in Workers \ {w} : SameFor(l, m, v)
               /\ LeftWith(m, w) = LeftWith(l, w) \cup T
               /\ Settled(m, w) = Settled(l, w) /\ SettledWell(m, w) = SettledWell(l, w)
               /\ Counted(m) = Counted(l) /\ CountedWell(m) = CountedWell(l)
               /\ \A t \in DOMAIN m : m[t].as = "good" => t \in DOMAIN l /\ l[t].as = "good"
<1> DEFINE T == {Items[i] : i \in n .. k - 1}
           m == Given(l, T, w)
<1>1. n \in Int /\ k \in Int /\ 1 <= n /\ n <= k /\ k <= Len(Items) + 1 /\ Len(Items) \in Nat
  BY ItemsListed DEF IsLedger
<1>2. DOMAIN l = Upto(n)
  BY DEF IsLedger
<1>3. Upto(k) = Upto(n) \cup T
  <2>1. 1 .. k - 1 = (1 .. n - 1) \cup (n .. k - 1)
    BY <1>1
  <2> QED
    BY <2>1 DEF Upto
<1>4. T \cap DOMAIN l = {}
  <2> SUFFICES ASSUME NEW i \in 1 .. n - 1, NEW j \in n .. k - 1, Items[i] = Items[j]
               PROVE  FALSE
    BY <1>2 DEF Upto
  <2>1. i \in 1 .. Len(Items) /\ j \in 1 .. Len(Items) /\ i # j
    BY <1>1
  <2> QED
    BY <2>1, ItemsListed
<1> HIDE DEF T
<1>5. DOMAIN m = Upto(k) /\ DOMAIN m = DOMAIN l \cup T
  BY <1>2, <1>3 DEF Given
<1>6. \A t \in DOMAIN l : m[t] = l[t] /\ l[t] \in LedgerEntry
  BY DEF Given, IsLedger
<1>7. \A t \in T : /\ m[t] = [by |-> w, counted |-> FALSE, as |-> "left"]
                   /\ m[t] \in LedgerEntry
  BY <1>4 DEF Given, LedgerEntry
<1>8. m = [t \in DOMAIN l \cup T |-> m[t]]
  BY DEF Given
<1> HIDE DEF m
<1>9. \A t \in T : m[t].by = w /\ m[t].counted = FALSE /\ m[t].as = "left"
  BY <1>7
<1>10. IsLedger(m, k)
  <2>1. \A t \in DOMAIN m : m[t] \in LedgerEntry /\ (m[t].as = "left" => ~m[t].counted)
    BY <1>5, <1>6, <1>7, <1>9 DEF IsLedger
  <2>2. k \in 1 .. Len(Items) + 1
    BY <1>1
  <2> QED
    BY <1>5, <1>8, <2>1, <2>2 DEF IsLedger
<1>11. \A v \in Workers \ {w} : SameFor(l, m, v)
  BY <1>5, <1>6, <1>9 DEF SameFor, LeftWith, Settled, SettledWell
<1>12. LeftWith(m, w) = LeftWith(l, w) \cup T
  BY <1>5, <1>6, <1>9 DEF LeftWith
<1>13. Settled(m, w) = Settled(l, w) /\ SettledWell(m, w) = SettledWell(l, w)
  BY <1>5, <1>6, <1>9 DEF Settled, SettledWell
<1>14. Counted(m) = Counted(l) /\ CountedWell(m) = CountedWell(l)
  BY <1>5, <1>6, <1>9 DEF Counted, CountedWell
<1>15. \A t \in DOMAIN m : m[t].as = "good" => t \in DOMAIN l /\ l[t].as = "good"
  BY <1>5, <1>6, <1>9
<1> QED
  BY <1>10, <1>11, <1>12, <1>13, <1>14, <1>15 DEF m, T

(* A worker changes, and the ledger with it. *)
LEMMA BooksMove ==
    ASSUME NEW l, NEW n, NEW wk, NEW ct, NEW ft, Books(l, n, wk, ct, ft),
           NEW m, NEW k, NEW me, NEW c, NEW f, NEW w \in Workers,
           IsLedger(m, k), k = n \/ n # Len(Items) + 1, WorkerOK(me),
           \A v \in Workers \ {w} : SameFor(l, m, v),
           LeftWith(m, w) = Todo(me), Tallies(me.out, Settled(m, w), SettledWell(m, w)),
           me.at = "gone" => k = Len(Items) + 1,
           Tallies(c, Counted(m), CountedWell(m)),
           f \in [Listed -> {"listed", "rated", "error"}],
           \A t \in DOMAIN m : m[t].as = "good" => f[t] = "rated"
    PROVE  Books(m, k, [wk EXCEPT ![w] = me], c, f)
<1> DEFINE wp == [wk EXCEPT ![w] = me]
<1>1. wp \in [Workers -> WorkerRecord] /\ wp[w] = me /\ \A v \in Workers \ {w} : wp[v] = wk[v]
  BY DEF Books, WorkerOK
<1> HIDE DEF wp
<1>2. \A v \in Workers : WorkerOK(wp[v])
  BY <1>1 DEF Books
<1>3. \A v \in Workers : LeftWith(m, v) = Todo(wp[v])
  BY <1>1 DEF Books, SameFor
<1>4. \A v \in Workers : Tallies(wp[v].out, Settled(m, v), SettledWell(m, v))
  BY <1>1 DEF Books, SameFor
<1>5. \A v \in Workers : wp[v].at = "gone" => k = Len(Items) + 1
  BY <1>1 DEF Books
<1> QED
  BY <1>1, <1>2, <1>3, <1>4, <1>5 DEF Books, wp

----------------------------------------------------------------------------
(* What a worker holds.                                                      *)

First(me) == {Piece(me, 1)[k] : k \in 1 .. Len(Piece(me, 1))}

LEMMA PiecesTyped ==
    ASSUME NEW me, WorkerOK(me), HasPieces(me)
    PROVE  /\ me.parts \in Seq(Seq(Listed)) /\ Len(me.parts) \in Nat /\ Len(me.parts) >= 1
           /\ \A i \in 1 .. Len(me.parts) :
                /\ me.parts[i] \in Seq(Listed) /\ Piece(me, i) \in Seq(Listed)
                /\ Len(Piece(me, i)) \in Nat
           /\ Head(me.parts) = me.parts[1]
           /\ First(me) \subseteq Todo(me)
           /\ IsFiniteSet(First(me)) /\ Cardinality(First(me)) = Len(Piece(me, 1))
<1>1. me.parts \in Seq(Seq(Listed)) /\ me.results \in Seq(Listed) /\ me.parts # <<>>
  BY DEF WorkerOK, WorkerRecord
<1>2. Len(me.parts) \in Nat /\ Len(me.parts) >= 1 /\ Head(me.parts) = me.parts[1]
  BY <1>1
<1>3. \A i \in 1 .. Len(me.parts) :
         /\ me.parts[i] \in Seq(Listed) /\ Piece(me, i) \in Seq(Listed)
         /\ Len(Piece(me, i)) \in Nat
  <2> TAKE i \in 1 .. Len(me.parts)
  <2>1. me.parts[i] \in Seq(Listed)
    BY <1>1
  <2>2. Piece(me, i) \in Seq(Listed)
    BY <1>1, <2>1 DEF Piece
  <2> QED
    BY <2>1, <2>2
<1>4. 1 \in 1 .. Len(me.parts)
  BY <1>2
<1>5. \A k \in 1 .. Len(Piece(me, 1)) : Piece(me, 1)[k] \in Listed
  BY <1>3, <1>4
<1>6. First(me) \subseteq Todo(me)
  BY <1>4, <1>5 DEF First, Todo
<1>7. \A k, m \in 1 .. Len(Piece(me, 1)) : Piece(me, 1)[k] = Piece(me, 1)[m] => k = m
  BY <1>4 DEF WorkerOK, Distinct
<1>8. IsFiniteSet(First(me)) /\ Cardinality(First(me)) = Len(Piece(me, 1))
  BY <1>3, <1>4, <1>7, ListSize DEF First
<1> QED
  BY <1>1, <1>2, <1>3, <1>6, <1>8

(* The first part has its outcome: the rest is left. *)
LEMMA PartIsDone ==
    ASSUME NEW me, WorkerOK(me), HasPieces(me), NEW out \in Outcome
    PROVE  LET nw == Rating!PartDone(me, out)
           IN  WorkerOK(nw) /\ Todo(nw) = Todo(me) \ First(me) /\ nw.out = out /\ nw.at # "gone"
<1> DEFINE left == Tail(me.parts)
           nw == Rating!PartDone(me, out)
<1>1. me \in WorkerRecord /\ me.parts \in Seq(Seq(Listed)) /\ me.parts # <<>>
  BY DEF WorkerOK, WorkerRecord
<1>2. /\ left \in Seq(Seq(Listed)) /\ Len(left) = Len(me.parts) - 1 /\ Len(me.parts) \in Nat
      /\ \A i \in 1 .. Len(left) : left[i] = me.parts[i + 1]
      /\ (left = <<>> <=> Len(left) = 0)
  <2>1. /\ left \in Seq(Seq(Listed)) /\ Len(left) = Len(me.parts) - 1
        /\ \A i \in 1 .. Len(left) : left[i] = me.parts[i + 1]
    BY <1>1, HeadTailProperties
  <2>2. left = <<>> <=> Len(left) = 0
    BY <2>1, EmptySeq
  <2>3. Len(me.parts) \in Nat
    BY <1>1
  <2> QED
    BY <2>1, <2>2, <2>3
<1>3. nw = [me EXCEPT !.at = IF left = <<>> THEN "deliver" ELSE "ask", !.parts = left,
                      !.attempt = 0, !.results = <<>>, !.out = out]
  BY DEF Rating!PartDone
<1> HIDE DEF left
<1>4. <<>> \in Seq(Listed)
  OBVIOUS
<1>5. /\ nw \in WorkerRecord /\ nw.at = (IF left = <<>> THEN "deliver" ELSE "ask")
      /\ nw.parts = left /\ nw.out = out /\ nw.whole = me.whole
  <2> DEFINE at == IF left = <<>> THEN "deliver" ELSE "ask"
             Parts == Seq(Seq(Listed))
             Results == Seq(Listed)
             none == <<>>
  <2>1. /\ me \in [at : {"idle", "ask", "store", "deliver", "gone"}, parts : Parts,
                   whole : BOOLEAN, attempt : Nat, results : Results, out : Outcome]
        /\ nw = [me EXCEPT !.at = at, !.parts = left, !.attempt = 0, !.results = none,
                           !.out = out]
        /\ left \in Parts /\ none \in Results /\ at \in {"deliver", "ask"}
    BY <1>1, <1>2, <1>3, <1>4 DEF WorkerRecord
  <2> HIDE DEF at, Parts, Results, none, nw
  <2>2. /\ nw \in [at : {"idle", "ask", "store", "deliver", "gone"}, parts : Parts,
                   whole : BOOLEAN, attempt : Nat, results : Results, out : Outcome]
        /\ nw.at = at /\ nw.parts = left /\ nw.out = out /\ nw.whole = me.whole
    BY <2>1
  <2> QED
    BY <2>2 DEF at, Parts, Results, WorkerRecord
<1> HIDE DEF nw
<1>6. \A i \in 1 .. Len(left) : Piece(nw, i) = Piece(me, i + 1) /\ i + 1 \in 1 .. Len(me.parts)
  BY <1>2, <1>5 DEF Piece
<1>7. ASSUME HasPieces(nw)
      PROVE  nw.parts # <<>> /\ Distinct(nw) /\ (nw.whole => Len(nw.parts) = 1)
  <2>1. left # <<>>
    BY <1>5, <1>7 DEF HasPieces
  <2>2. Distinct(nw)
    <3> SUFFICES ASSUME NEW i \in 1 .. Len(left), NEW j \in 1 .. Len(left),
                        NEW k \in 1 .. Len(Piece(nw, i)), NEW m \in 1 .. Len(Piece(nw, j)),
                        Piece(nw, i)[k] = Piece(nw, j)[m]
                 PROVE  i = j /\ k = m
      BY <1>5 DEF Distinct
    <3>1. i + 1 = j + 1 /\ k = m
      BY <1>6 DEF WorkerOK, Distinct
    <3> QED
      BY <3>1, <1>2
  <2>3. me.whole => Len(left) = 0
    BY <1>2 DEF WorkerOK
  <2> QED
    BY <1>2, <1>5, <2>1, <2>2, <2>3
<1>8. WorkerOK(nw)
  BY <1>5, <1>7 DEF WorkerOK
<1>9. ASSUME NEW t \in Todo(nw) PROVE t \in Todo(me) \ First(me)
  <2>1. PICK i \in 1 .. Len(left) : \E k \in 1 .. Len(Piece(nw, i)) : t = Piece(nw, i)[k]
    BY <1>5, <1>9 DEF Todo
  <2>2. PICK k \in 1 .. Len(Piece(me, i + 1)) : t = Piece(me, i + 1)[k]
    BY <1>6, <2>1
  <2>3. t \in Todo(me)
    BY <1>6, <1>9, <2>1, <2>2 DEF Todo
  <2>4. 1 \in 1 .. Len(me.parts) /\ i + 1 \in 1 .. Len(me.parts) /\ i + 1 # 1
    BY <1>2, <1>6, <2>1
  <2>5. \A m \in 1 .. Len(Piece(me, 1)) : Piece(me, 1)[m] # t
    BY <2>2, <2>4 DEF WorkerOK, Distinct
  <2> QED
    BY <2>3, <2>5 DEF First
<1>10. ASSUME NEW t \in Todo(me) \ First(me) PROVE t \in Todo(nw)
  <2>1. PICK i \in 1 .. Len(me.parts) : \E k \in 1 .. Len(Piece(me, i)) : t = Piece(me, i)[k]
    BY <1>10 DEF Todo
  <2>2. PICK k \in 1 .. Len(Piece(me, i)) : t = Piece(me, i)[k]
    BY <2>1
  <2>3. i # 1
    BY <1>10, <2>2 DEF First
  <2>4. i - 1 \in 1 .. Len(left) /\ (i - 1) + 1 = i
    BY <1>2, <2>1, <2>3
  <2>5. Piece(nw, i - 1) = Piece(me, i)
    BY <1>6, <2>4
  <2>6. nw.at = "ask"
    BY <1>2, <1>5, <2>4
  <2> QED
    BY <1>5, <1>10, <2>2, <2>4, <2>5, <2>6 DEF Todo, HasPieces
<1> QED
  BY <1>5, <1>8, <1>9, <1>10 DEF nw

(* The provider rates exactly the tools it was asked about. *)
LEMMA AnswerTaken ==
    ASSUME NEW me, WorkerOK(me), me.at = "ask", NEW says,
           says \in Seq(Rating!ToSet(says)),
           Rating!ParseAssessmentResponse(says, Rating!ToSet(Head(me.parts)))
    PROVE  LET nw == [me EXCEPT !.at = "store", !.results = says]
           IN  WorkerOK(nw) /\ Todo(nw) = Todo(me) /\ nw.out = me.out /\ nw.at # "gone"
<1> DEFINE nw == [me EXCEPT !.at = "store", !.results = says]
           part == me.parts[1]
<1>1. me \in WorkerRecord /\ HasPieces(me)
  BY DEF WorkerOK, HasPieces
<1>2. /\ me.parts \in Seq(Seq(Listed)) /\ Len(me.parts) \in Nat /\ Len(me.parts) >= 1
      /\ part \in Seq(Listed) /\ Head(me.parts) = part
      /\ \A i \in 1 .. Len(me.parts) : Piece(me, i) = me.parts[i]
  BY <1>1, PiecesTyped DEF Piece
<1>3. DOMAIN says = 1 .. Len(says) /\ DOMAIN part = 1 .. Len(part)
  BY <1>2
<1>14. \A k, m \in 1 .. Len(says) : says[k] = says[m] => k = m
  <2>1. \A k, m \in DOMAIN says : says[k] = says[m] => k = m
    BY DEF Rating!ParseAssessmentResponse, Rating!IsInjective
  <2> QED
    BY <1>3, <2>1
<1>4. /\ \A k \in 1 .. Len(says) : \E p \in 1 .. Len(part) : part[p] = says[k]
      /\ \A p \in 1 .. Len(part) : \E k \in 1 .. Len(says) : part[p] = says[k]
  <2>1. {says[k] : k \in DOMAIN says} = {part[k] : k \in DOMAIN part}
    BY <1>2 DEF Rating!ParseAssessmentResponse, Rating!ToSet
  <2> HIDE DEF part
  <2> QED
    BY <1>3, <2>1
<1>5. says \in Seq(Listed)
  <2>1. \A k \in 1 .. Len(says) : says[k] \in Listed
    <3> HIDE DEF part
    <3> TAKE k \in 1 .. Len(says)
    <3>1. PICK p \in 1 .. Len(part) : part[p] = says[k]
      BY <1>4
    <3>2. part \in Seq(Listed)
      BY <1>2
    <3> QED
      BY <3>1, <3>2
  <2>2. Len(says) \in Nat
    OBVIOUS
  <2>3. says = [k \in 1 .. Len(says) |-> says[k]]
    OBVIOUS
  <2> QED
    BY <2>1, <2>2, <2>3
<1>6. /\ nw \in WorkerRecord /\ nw.at = "store" /\ nw.parts = me.parts /\ nw.results = says
      /\ nw.out = me.out /\ nw.whole = me.whole
  BY <1>1, <1>5 DEF WorkerRecord
<1> HIDE DEF nw, part
<1>7. /\ Piece(nw, 1) = says
      /\ \A i \in 1 .. Len(me.parts) : i # 1 => Piece(nw, i) = me.parts[i]
  BY <1>6 DEF Piece
<1>8. 1 \in 1 .. Len(me.parts) /\ Piece(me, 1) = part
  BY <1>2 DEF part
<1>9. Distinct(nw)
  <2> SUFFICES ASSUME NEW i \in 1 .. Len(me.parts), NEW j \in 1 .. Len(me.parts),
                      NEW k \in 1 .. Len(Piece(nw, i)), NEW m \in 1 .. Len(Piece(nw, j)),
                      Piece(nw, i)[k] = Piece(nw, j)[m]
               PROVE  i = j /\ k = m
    BY <1>6 DEF Distinct
  <2>1. Distinct(me)
    BY <1>1 DEF WorkerOK
  <2>2. CASE i = 1 /\ j = 1
    BY <2>2, <1>14, <1>7
  <2>3. CASE i # 1 /\ j # 1
    <3>1. Piece(nw, i) = Piece(me, i) /\ Piece(nw, j) = Piece(me, j)
      BY <2>3, <1>2, <1>7
    <3> QED
      BY <2>1, <3>1 DEF Distinct
  <2>4. CASE i = 1 /\ j # 1
    <3>1. PICK p \in 1 .. Len(part) : part[p] = Piece(nw, i)[k]
      BY <2>4, <1>4, <1>7
    <3>2. Piece(me, 1)[p] = Piece(me, j)[m]
      BY <2>4, <3>1, <1>2, <1>7, <1>8
    <3>3. p \in 1 .. Len(Piece(me, 1)) /\ m \in 1 .. Len(Piece(me, j)) /\ 1 \in 1 .. Len(me.parts)
      BY <2>4, <3>1, <1>2, <1>7, <1>8
    <3>4. 1 = j
      BY <2>1, <3>2, <3>3 DEF Distinct
    <3> QED
      BY <2>4, <3>4
  <2>5. CASE i # 1 /\ j = 1
    <3>1. PICK p \in 1 .. Len(part) : part[p] = Piece(nw, j)[m]
      BY <2>5, <1>4, <1>7
    <3>2. Piece(me, 1)[p] = Piece(me, i)[k]
      BY <2>5, <3>1, <1>2, <1>7, <1>8
    <3>3. p \in 1 .. Len(Piece(me, 1)) /\ k \in 1 .. Len(Piece(me, i)) /\ 1 \in 1 .. Len(me.parts)
      BY <2>5, <3>1, <1>2, <1>7, <1>8
    <3>4. 1 = i
      BY <2>1, <3>2, <3>3 DEF Distinct
    <3> QED
      BY <2>5, <3>4
  <2> QED
    BY <2>2, <2>3, <2>4, <2>5
<1>10. WorkerOK(nw)
  BY <1>1, <1>6, <1>9 DEF WorkerOK, HasPieces
<1>11. \A i \in 1 .. Len(me.parts) : \A t : IsIn(t, Piece(nw, i)) <=> IsIn(t, Piece(me, i))
  <2> TAKE i \in 1 .. Len(me.parts)
  <2> TAKE t
  <2>1. CASE i = 1
    <3>1. IsIn(t, says) <=> IsIn(t, part)
      BY <1>4 DEF IsIn
    <3> QED
      BY <2>1, <3>1, <1>7, <1>8
  <2>2. CASE i # 1
    BY <2>2, <1>2, <1>7
  <2> QED
    BY <2>1, <2>2
<1>12. Todo(nw) = Todo(me)
  <2>1. HasPieces(nw)
    BY <1>6 DEF HasPieces
  <2>2. ASSUME NEW t \in Todo(nw) PROVE t \in Todo(me)
    <3>1. PICK i \in 1 .. Len(me.parts) : IsIn(t, Piece(nw, i))
      BY <1>6, <2>2 DEF Todo, IsIn
    <3>2. IsIn(t, Piece(me, i))
      BY <1>11, <3>1
    <3> QED
      BY <1>1, <2>2, <3>2 DEF Todo, IsIn
  <2>3. ASSUME NEW t \in Todo(me) PROVE t \in Todo(nw)
    <3>1. PICK i \in 1 .. Len(me.parts) : IsIn(t, Piece(me, i))
      BY <2>3 DEF Todo, IsIn
    <3>2. IsIn(t, Piece(nw, i))
      BY <1>11, <3>1
    <3> QED
      BY <1>6, <2>1, <2>3, <3>2 DEF Todo, IsIn
  <2> QED
    BY <2>2, <2>3
<1> QED
  BY <1>6, <1>10, <1>12 DEF nw

(* One result is stored, or not. *)
LEMMA ResultDone ==
    ASSUME NEW me, WorkerOK(me), me.at = "store", me.results # <<>>, NEW out \in Outcome
    PROVE  LET nw == [me EXCEPT !.results = Tail(me.results), !.out = out]
           IN  /\ WorkerOK(nw) /\ Todo(nw) = Todo(me) \ {Head(me.results)}
               /\ nw.out = out /\ nw.at # "gone"
               /\ Head(me.results) \in Todo(me)
<1> DEFINE rest == Tail(me.results)
           nw == [me EXCEPT !.results = rest, !.out = out]
           t0 == Head(me.results)
<1>1. me \in WorkerRecord /\ HasPieces(me) /\ me.results \in Seq(Listed)
  BY DEF WorkerOK, HasPieces, WorkerRecord
<1>2. /\ rest \in Seq(Listed) /\ Len(rest) = Len(me.results) - 1 /\ Len(me.results) \in Nat
      /\ \A k \in 1 .. Len(rest) : rest[k] = me.results[k + 1]
      /\ t0 = me.results[1] /\ t0 \in Listed /\ Len(me.results) >= 1
  BY <1>1
<1>3. /\ me.parts \in Seq(Seq(Listed)) /\ Len(me.parts) \in Nat /\ 1 \in 1 .. Len(me.parts)
      /\ Piece(me, 1) = me.results
  BY <1>1, PiecesTyped DEF Piece
<1> HIDE DEF rest, t0
<1>4. /\ nw \in WorkerRecord /\ nw.at = "store" /\ nw.parts = me.parts /\ nw.results = rest
      /\ nw.out = out /\ nw.whole = me.whole
  BY <1>1, <1>2 DEF WorkerRecord
<1> HIDE DEF nw
<1>5. /\ Piece(nw, 1) = rest
      /\ \A i \in 1 .. Len(me.parts) : i # 1 => Piece(nw, i) = Piece(me, i)
  BY <1>4 DEF Piece
<1>6. Distinct(me)
  BY <1>1 DEF WorkerOK
<1>7. \A i \in 1 .. Len(me.parts) : \A k \in 1 .. Len(Piece(nw, i)) :
         \E p \in 1 .. Len(Piece(me, i)) :
            Piece(me, i)[p] = Piece(nw, i)[k] /\ p = (IF i = 1 THEN k + 1 ELSE k)
  <2> TAKE i \in 1 .. Len(me.parts)
  <2> TAKE k \in 1 .. Len(Piece(nw, i))
  <2>1. CASE i = 1
    <3>1. k \in 1 .. Len(rest) /\ k + 1 \in 1 .. Len(me.results)
      BY <2>1, <1>2, <1>5
    <3> QED
      BY <2>1, <3>1, <1>2, <1>3, <1>5
  <2>2. CASE i # 1
    BY <2>2, <1>5
  <2> QED
    BY <2>1, <2>2
<1>8. Distinct(nw)
  <2> SUFFICES ASSUME NEW i \in 1 .. Len(me.parts), NEW j \in 1 .. Len(me.parts),
                      NEW k \in 1 .. Len(Piece(nw, i)), NEW m \in 1 .. Len(Piece(nw, j)),
                      Piece(nw, i)[k] = Piece(nw, j)[m]
               PROVE  i = j /\ k = m
    BY <1>4 DEF Distinct
  <2>1. PICK p \in 1 .. Len(Piece(me, i)) :
            Piece(me, i)[p] = Piece(nw, i)[k] /\ p = (IF i = 1 THEN k + 1 ELSE k)
    BY <1>7
  <2>2. PICK q \in 1 .. Len(Piece(me, j)) :
            Piece(me, j)[q] = Piece(nw, j)[m] /\ q = (IF j = 1 THEN m + 1 ELSE m)
    BY <1>7
  <2>3. i = j /\ p = q
    <3>1. /\ Piece(me, i)[p] = Piece(me, j)[q]
          /\ i \in 1 .. Len(me.parts) /\ p \in 1 .. Len(Piece(me, i))
          /\ j \in 1 .. Len(me.parts) /\ q \in 1 .. Len(Piece(me, j))
      BY <2>1, <2>2
    <3> QED
      BY ONLY <1>6, <3>1 DEF Distinct
  <2> QED
    BY <2>1, <2>2, <2>3
<1>9. WorkerOK(nw)
  BY <1>1, <1>4, <1>8 DEF WorkerOK, HasPieces
<1>10. t0 \in Todo(me)
  <2>1. 1 \in 1 .. Len(Piece(me, 1)) /\ t0 = Piece(me, 1)[1]
    BY <1>2, <1>3
  <2> QED
    BY <1>1, <1>2, <1>3, <2>1 DEF Todo
<1>11. ASSUME NEW t \in Todo(nw) PROVE t \in Todo(me) \ {t0}
  <2>1. PICK i \in 1 .. Len(me.parts) : \E k \in 1 .. Len(Piece(nw, i)) : t = Piece(nw, i)[k]
    BY <1>4, <1>11 DEF Todo
  <2>2. PICK k \in 1 .. Len(Piece(nw, i)) : t = Piece(nw, i)[k]
    BY <2>1
  <2>3. PICK p \in 1 .. Len(Piece(me, i)) :
            Piece(me, i)[p] = Piece(nw, i)[k] /\ p = (IF i = 1 THEN k + 1 ELSE k)
    BY <1>7
  <2>4. t \in Todo(me)
    BY <1>1, <1>11, <2>2, <2>3 DEF Todo
  <2>5. 1 \in 1 .. Len(Piece(me, 1)) /\ t0 = Piece(me, 1)[1]
    BY <1>2, <1>3
  <2>6. t # t0
    <3> SUFFICES ASSUME t = t0 PROVE FALSE
      OBVIOUS
    <3>1. Piece(me, i)[p] = Piece(me, 1)[1]
      BY <2>2, <2>3, <2>5
    <3>2. i = 1 /\ p = 1
      BY <1>3, <1>6, <2>5, <3>1 DEF Distinct
    <3> QED
      BY <3>2, <2>3
  <2> QED
    BY <2>4, <2>6
<1>12. ASSUME NEW t \in Todo(me) \ {t0} PROVE t \in Todo(nw)
  <2>1. PICK i \in 1 .. Len(me.parts) : \E k \in 1 .. Len(Piece(me, i)) : t = Piece(me, i)[k]
    BY <1>12 DEF Todo
  <2>2. PICK k \in 1 .. Len(Piece(me, i)) : t = Piece(me, i)[k]
    BY <2>1
  <2>3. \E p \in 1 .. Len(Piece(nw, i)) : t = Piece(nw, i)[p]
    <3>1. CASE i = 1
      <4>1. k \in 1 .. Len(me.results) /\ k # 1
        BY <3>1, <2>2, <1>2, <1>3, <1>12
      <4>2. k - 1 \in 1 .. Len(rest) /\ rest[k - 1] = me.results[k]
        <5>1. k - 1 \in 1 .. Len(rest) /\ (k - 1) + 1 = k
          BY <4>1, <1>2
        <5> QED
          BY <5>1, <1>2
      <4> QED
        BY <3>1, <4>2, <2>2, <1>3, <1>5
    <3>2. CASE i # 1
      BY <3>2, <2>2, <1>5
    <3> QED
      BY <3>1, <3>2
  <2>4. HasPieces(nw) /\ t \in Listed
    BY <1>4, <1>12 DEF HasPieces, Todo
  <2> QED
    BY <1>4, <2>3, <2>4 DEF Todo
<1> QED
  BY <1>4, <1>9, <1>10, <1>11, <1>12 DEF nw, t0, rest

(* The provider could not answer: the whole part is asked for in two halves. *)
LEMMA PartIsHalved ==
    ASSUME NEW me, WorkerOK(me), me.at = "ask", me.whole, Len(Head(me.parts)) > 1
    PROVE  LET part == Head(me.parts)
               middle == Len(part) \div 2
               nw == [me EXCEPT !.parts = <<SubSeq(part, 1, middle),
                                            SubSeq(part, middle + 1, Len(part))>>,
                                !.whole = FALSE, !.attempt = 0]
           IN  WorkerOK(nw) /\ Todo(nw) = Todo(me) /\ nw.out = me.out /\ nw.at # "gone"
<1> DEFINE part == Head(me.parts)
           n == Len(part)
           middle == n \div 2
           one == SubSeq(part, 1, middle)
           two == SubSeq(part, middle + 1, n)
           halves == <<one, two>>
           nw == [me EXCEPT !.parts = halves, !.whole = FALSE, !.attempt = 0]
<1>1. me \in WorkerRecord /\ HasPieces(me) /\ Distinct(me) /\ Len(me.parts) = 1
  BY DEF WorkerOK, HasPieces
<1>2. part \in Seq(Listed) /\ part = me.parts[1] /\ n \in Nat /\ Piece(me, 1) = part
  <2>1. Head(me.parts) = me.parts[1] /\ me.parts[1] \in Seq(Listed)
    BY <1>1, PiecesTyped
  <2> QED
    BY <2>1 DEF Piece
<1> HIDE DEF part
<1>3. n > 1
  BY DEF part
<1>4. middle \in 1 .. n - 1
  <2> HIDE DEF n
  <2> QED
    BY <1>2, <1>3
<1> HIDE DEF middle
<1>5. /\ one \in Seq(Listed) /\ Len(one) = middle
      /\ \A k \in 1 .. middle : one[k] = part[k]
  <2>1. \A k \in 1 .. middle : part[k] \in Listed
    BY <1>2, <1>4
  <2> QED
    BY <1>2, <1>4, <2>1, SubSeqProperties
<1>6. /\ two \in Seq(Listed) /\ Len(two) = n - middle
      /\ \A k \in 1 .. n - middle : two[k] = part[middle + k]
  <2>1. \A k \in middle + 1 .. n : part[k] \in Listed
    BY <1>2, <1>4
  <2> QED
    BY <1>2, <1>4, <2>1, SubSeqProperties
<1> HIDE DEF one, two, n
<1>7. /\ halves \in Seq(Seq(Listed)) /\ Len(halves) = 2 /\ halves # <<>>
      /\ halves[1] = one /\ halves[2] = two
  BY <1>5, <1>6
<1> HIDE DEF halves
<1>8. /\ nw \in WorkerRecord /\ nw.at = "ask" /\ nw.parts = halves /\ nw.whole = FALSE
      /\ nw.out = me.out
  BY <1>1, <1>7 DEF WorkerRecord
<1> HIDE DEF nw
<1>9. Piece(nw, 1) = one /\ Piece(nw, 2) = two /\ HasPieces(nw) /\ Len(nw.parts) = 2
  BY <1>7, <1>8 DEF Piece, HasPieces
<1>10. \A k, m \in 1 .. n : part[k] = part[m] => k = m
  <2>1. 1 \in 1 .. Len(me.parts)
    BY <1>1
  <2> QED
    BY <1>1, <1>2, <2>1 DEF Distinct, n
<1> DEFINE place(i, k) == IF i = 1 THEN k ELSE middle + k
<1>11. \A i \in 1 .. 2 : \A k \in 1 .. Len(Piece(nw, i)) :
          place(i, k) \in 1 .. n /\ Piece(nw, i)[k] = part[place(i, k)]
  <2>1. \A k \in 1 .. middle : k \in 1 .. n
    BY <1>2, <1>4 DEF n
  <2>2. \A k \in 1 .. n - middle : middle + k \in 1 .. n
    BY <1>2, <1>4 DEF n
  <2>3. \A k \in 1 .. Len(Piece(nw, 1)) : place(1, k) \in 1 .. n /\ Piece(nw, 1)[k] = part[place(1, k)]
    BY <2>1, <1>5, <1>9
  <2>4. \A k \in 1 .. Len(Piece(nw, 2)) : place(2, k) \in 1 .. n /\ Piece(nw, 2)[k] = part[place(2, k)]
    BY <2>2, <1>6, <1>9
  <2> HIDE DEF place
  <2> QED
    BY <2>3, <2>4
<1>12. Distinct(nw)
  <2> SUFFICES ASSUME NEW i \in 1 .. 2, NEW j \in 1 .. 2,
                      NEW k \in 1 .. Len(Piece(nw, i)), NEW m \in 1 .. Len(Piece(nw, j)),
                      Piece(nw, i)[k] = Piece(nw, j)[m]
               PROVE  i = j /\ k = m
    BY <1>9 DEF Distinct
  <2>1. place(i, k) = place(j, m)
    <3> HIDE DEF place
    <3>1. place(i, k) \in 1 .. n /\ Piece(nw, i)[k] = part[place(i, k)]
      BY <1>11
    <3>2. place(j, m) \in 1 .. n /\ Piece(nw, j)[m] = part[place(j, m)]
      BY <1>11
    <3>3. part[place(i, k)] = part[place(j, m)]
      BY <3>1, <3>2
    <3> QED
      BY <1>10, <3>1, <3>2, <3>3
  <2>2. /\ k \in Nat /\ m \in Nat /\ k >= 1 /\ m >= 1
        /\ i = 1 => k <= middle
        /\ j = 1 => m <= middle
    BY <1>4, <1>5, <1>6, <1>9, <1>2 DEF n
  <2> QED
    BY <2>1, <2>2, <1>4
<1>13. WorkerOK(nw)
  BY <1>7, <1>8, <1>12 DEF WorkerOK
<1>14. ASSUME NEW t \in Todo(nw) PROVE t \in Todo(me)
  <2>1. PICK i \in 1 .. 2 : \E k \in 1 .. Len(Piece(nw, i)) : t = Piece(nw, i)[k]
    BY <1>9, <1>14 DEF Todo
  <2>2. PICK k \in 1 .. Len(Piece(nw, i)) : t = Piece(nw, i)[k]
    BY <2>1
  <2>3. \E p \in 1 .. n : t = part[p]
    <3> HIDE DEF place
    <3> QED
      BY <1>11, <2>2
  <2>4. \E p \in 1 .. Len(Piece(me, 1)) : t = Piece(me, 1)[p]
    BY <2>3, <1>2 DEF n
  <2>5. 1 \in 1 .. Len(me.parts)
    BY <1>1
  <2> QED
    BY <1>1, <1>14, <2>4, <2>5 DEF Todo
<1>15. ASSUME NEW t \in Todo(me) PROVE t \in Todo(nw)
  <2>1. PICK i \in 1 .. Len(me.parts) : \E k \in 1 .. Len(Piece(me, i)) : t = Piece(me, i)[k]
    BY <1>15 DEF Todo
  <2>2. i = 1
    BY <1>1
  <2>3. PICK p \in 1 .. n : t = part[p]
    BY <2>1, <2>2, <1>2 DEF n
  <2>4. \E h \in 1 .. 2 : \E k \in 1 .. Len(Piece(nw, h)) : t = Piece(nw, h)[k]
    <3>1. CASE p <= middle
      <4>1. p \in 1 .. Len(Piece(nw, 1)) /\ t = Piece(nw, 1)[p]
        BY <3>1, <1>4, <1>5, <1>9, <2>3
      <4> QED
        BY <4>1
    <3>2. CASE p > middle
      <4>1. p - middle \in 1 .. n - middle /\ middle + (p - middle) = p
        BY <3>2, <1>4, <1>2 DEF n
      <4>2. p - middle \in 1 .. Len(Piece(nw, 2)) /\ t = Piece(nw, 2)[p - middle]
        BY <4>1, <1>6, <1>9, <2>3
      <4> QED
        BY <4>2
    <3> QED
      BY <3>1, <3>2, <1>4
  <2>5. t \in Listed
    BY <1>15 DEF Todo
  <2> QED
    BY <1>9, <2>4, <2>5 DEF Todo
<1> QED
  BY <1>8, <1>13, <1>14, <1>15 DEF nw, halves, one, two, middle, n, part

----------------------------------------------------------------------------
(* Every step of a job that goes on keeps its books.                         *)

(* A worker changes what it does, not what it holds. *)
LEMMA BooksKept ==
    ASSUME NEW l, NEW n, NEW wk, NEW ct, NEW ft, Books(l, n, wk, ct, ft), NEW w \in Workers,
           NEW me, WorkerOK(me), Todo(me) = Todo(wk[w]), me.out = wk[w].out,
           me.at = "gone" => n = Len(Items) + 1
    PROVE  Books(l, n, [wk EXCEPT ![w] = me], ct, ft)
<1>1. \A v \in Workers : SameFor(l, l, v)
  BY DEF SameFor
<1>2. /\ IsLedger(l, n) /\ LeftWith(l, w) = Todo(me)
      /\ Tallies(me.out, Settled(l, w), SettledWell(l, w))
      /\ Tallies(ct, Counted(l), CountedWell(l))
      /\ ft \in [Listed -> {"listed", "rated", "error"}]
      /\ \A t \in DOMAIN l : l[t].as = "good" => ft[t] = "rated"
  BY DEF Books
<1> QED
  BY <1>1, <1>2, BooksMove

(* A worker settles tools that it holds. *)
WorkerSettles(was, me, S, as) ==
    /\ S \subseteq Todo(was)
    /\ WorkerOK(me) /\ Todo(me) = Todo(was) \ S /\ me.at # "gone" /\ Balanced(me.out)
    /\ me.out["processed"] = was.out["processed"] + Cardinality(S)
    /\ me.out["success"] = was.out["success"] + (IF as = "good" THEN Cardinality(S) ELSE 0)

FateSettles(ft, f, S, as) ==
    /\ f \in [Listed -> {"listed", "rated", "error"}]
    /\ \A t \in DOMAIN ft : t \notin S => f[t] = ft[t]
    /\ as = "good" => \A t \in S : f[t] = "rated"

LEMMA BooksSettle ==
    ASSUME NEW l, NEW n, NEW wk, NEW ct, NEW ft, Books(l, n, wk, ct, ft), NEW w \in Workers,
           NEW S, NEW as \in {"good", "bad"}, NEW me, WorkerSettles(wk[w], me, S, as),
           NEW f, FateSettles(ft, f, S, as)
    PROVE  \E m : Books(m, n, [wk EXCEPT ![w] = me], ct, f)
<1> DEFINE m == Marked(l, S, as)
<1>1. /\ IsLedger(l, n) /\ LeftWith(l, w) = Todo(wk[w])
      /\ Tallies(wk[w].out, Settled(l, w), SettledWell(l, w))
      /\ Tallies(ct, Counted(l), CountedWell(l))
      /\ ft \in [Listed -> {"listed", "rated", "error"}]
      /\ \A t \in DOMAIN l : l[t].as = "good" => ft[t] = "rated"
  BY DEF Books
<1>2. Settles(l, m, n, w, S, as)
  <2>1. S \in SUBSET LeftWith(l, w)
    BY <1>1 DEF WorkerSettles
  <2>2. IsLedger(l, n)
    BY <1>1
  <2> QED
    BY ONLY <2>1, <2>2, w \in Workers, as \in {"good", "bad"}, MarkedLedger
<1> HIDE DEF m
<1>3. LeftWith(m, w) = Todo(me)
  BY <1>1, <1>2 DEF Settles, WorkerSettles
<1>4. Tallies(me.out, Settled(m, w), SettledWell(m, w))
  BY <1>1, <1>2 DEF Tallies, Settles, WorkerSettles
<1>5. ASSUME NEW t \in DOMAIN m, m[t].as = "good" PROVE f[t] = "rated"
  <2>1. CASE as = "good" /\ t \in S
    BY <2>1 DEF FateSettles
  <2>2. CASE ~(as = "good" /\ t \in S)
    <3>1. t \in DOMAIN l /\ l[t].as = "good"
      BY <1>2, <1>5, <2>2 DEF Settles
    <3>2. t \notin S
      <4>1. S \subseteq LeftWith(l, w)
        BY <1>1 DEF WorkerSettles
      <4> QED
        BY <3>1, <4>1 DEF LeftWith
    <3>3. t \in DOMAIN ft
      <4>1. Upto(n) \subseteq Listed
        BY <1>1, LedgerFinite
      <4> QED
        BY <1>1, <3>1, <4>1 DEF IsLedger
    <3> QED
      BY <1>1, <3>1, <3>2, <3>3 DEF FateSettles
  <2> QED
    BY <2>1, <2>2
<1>6. Books(m, n, [wk EXCEPT ![w] = me], ct, f)
  <2>1. /\ IsLedger(m, n) /\ \A v \in Workers \ {w} : SameFor(l, m, v)
        /\ Counted(m) = Counted(l) /\ CountedWell(m) = CountedWell(l)
    BY <1>2 DEF Settles
  <2>2. /\ WorkerOK(me) /\ me.at # "gone" /\ f \in [Listed -> {"listed", "rated", "error"}]
    BY DEF WorkerSettles, FateSettles
  <2> QED
    BY <1>1, <1>3, <1>4, <1>5, <2>1, <2>2, BooksMove
<1> QED
  BY <1>6

LEMMA AskBooks ==
    ASSUME NEW l, Books(l, next, worker, counts, fate), NEW w \in Workers, Rating!Ask(w)
    PROVE  \E m : Books(m, next', worker', counts', fate')
<1> DEFINE me == worker[w]
           part == Head(me.parts)
<1>1. /\ WorkerOK(me) /\ me.at = "ask" /\ HasPieces(me)
      /\ Tallies(me.out, Settled(l, w), SettledWell(l, w))
      /\ worker \in [Workers -> WorkerRecord]
      /\ fate \in [Listed -> {"listed", "rated", "error"}]
  BY DEF Books, Rating!Ask, HasPieces
<1>2. next' = next /\ counts' = counts
  BY DEF Rating!Ask
<1>3. PICK reply \in Replies :
        \/ /\ reply.kind = "text"
           /\ Rating!ParseAssessmentResponse(reply.says, Rating!ToSet(part))
           /\ worker' = [worker EXCEPT ![w].at = "store", ![w].results = reply.says]
           /\ fate' = fate
        \/ worker' = [worker EXCEPT ![w].attempt = @ + 1] /\ fate' = fate
        \/ /\ me.whole /\ Len(part) > 1
           /\ worker' = [worker EXCEPT
                  ![w].parts = <<SubSeq(part, 1, Len(part) \div 2),
                                 SubSeq(part, (Len(part) \div 2) + 1, Len(part))>>,
                  ![w].whole = FALSE, ![w].attempt = 0]
           /\ fate' = fate
        \/ /\ worker' = [worker EXCEPT ![w] = Rating!PartDone(me,
                  Rating!Add(Rating!Add(me.out, [processed |-> Len(part), failure |-> Len(part)]),
                      [c \in {Rating!AssessmentErrorCategory(reply)} |-> Len(part)]))]
           /\ \E marked \in {{}, Rating!ToSet(part)} :
                 fate' = [t \in DOMAIN fate |-> IF t \in marked THEN "error" ELSE fate[t]]
  BY DEF Rating!Ask
<1>4. CASE /\ reply.kind = "text"
           /\ Rating!ParseAssessmentResponse(reply.says, Rating!ToSet(part))
           /\ worker' = [worker EXCEPT ![w].at = "store", ![w].results = reply.says]
           /\ fate' = fate
  <2> DEFINE nw == [me EXCEPT !.at = "store", !.results = reply.says]
  <2>1. worker' = [worker EXCEPT ![w] = nw]
    BY <1>4, <1>1
  <2>2. reply.says \in Seq(Rating!ToSet(reply.says))
    BY <1>4, JobConstants
  <2>3. WorkerOK(nw) /\ Todo(nw) = Todo(me) /\ nw.out = me.out /\ nw.at # "gone"
    BY <1>1, <1>4, <2>2, AnswerTaken
  <2> HIDE DEF nw
  <2>4. Books(l, next, [worker EXCEPT ![w] = nw], counts, fate)
    BY <2>3, BooksKept
  <2> QED
    BY <1>2, <1>4, <2>1, <2>4
<1>5. CASE worker' = [worker EXCEPT ![w].attempt = @ + 1] /\ fate' = fate
  <2> DEFINE nw == [me EXCEPT !.attempt = me.attempt + 1]
  <2>1. worker' = [worker EXCEPT ![w] = nw]
    BY <1>5, <1>1
  <2>2. /\ nw \in WorkerRecord /\ nw.at = "ask" /\ nw.parts = me.parts /\ nw.out = me.out
        /\ nw.whole = me.whole
    <3> DEFINE Parts == Seq(Seq(Listed))
               Results == Seq(Listed)
    <3>1. /\ me \in [at : {"idle", "ask", "store", "deliver", "gone"}, parts : Parts,
                     whole : BOOLEAN, attempt : Nat, results : Results, out : Outcome]
          /\ me.at = "ask"
      BY <1>1 DEF WorkerOK, WorkerRecord
    <3> HIDE DEF Parts, Results, me
    <3>2. /\ nw \in [at : {"idle", "ask", "store", "deliver", "gone"}, parts : Parts,
                     whole : BOOLEAN, attempt : Nat, results : Results, out : Outcome]
          /\ nw.at = "ask" /\ nw.parts = me.parts /\ nw.out = me.out /\ nw.whole = me.whole
      BY <3>1
    <3> QED
      BY <3>2 DEF Parts, Results, WorkerRecord
  <2> HIDE DEF nw
  <2>3. \A i : Piece(nw, i) = Piece(me, i)
    BY <1>1, <2>2 DEF Piece
  <2>4. WorkerOK(nw) /\ Todo(nw) = Todo(me)
    BY <1>1, <2>2, <2>3 DEF WorkerOK, Todo, HasPieces, Distinct
  <2>5. Books(l, next, [worker EXCEPT ![w] = nw], counts, fate)
    BY <2>2, <2>4, BooksKept
  <2> QED
    BY <1>2, <1>5, <2>1, <2>5
<1>6. CASE /\ me.whole /\ Len(part) > 1
           /\ worker' = [worker EXCEPT
                  ![w].parts = <<SubSeq(part, 1, Len(part) \div 2),
                                 SubSeq(part, (Len(part) \div 2) + 1, Len(part))>>,
                  ![w].whole = FALSE, ![w].attempt = 0]
           /\ fate' = fate
  <2> DEFINE halves == <<SubSeq(part, 1, Len(part) \div 2),
                         SubSeq(part, (Len(part) \div 2) + 1, Len(part))>>
             nw == [me EXCEPT !.parts = halves, !.whole = FALSE, !.attempt = 0]
  <2>1. worker' = [worker EXCEPT ![w] = nw]
    <3>1. worker' = [worker EXCEPT ![w].parts = halves, ![w].whole = FALSE, ![w].attempt = 0]
      BY <1>6
    <3> HIDE DEF halves
    <3> QED
      BY <3>1, <1>1
  <2>2. WorkerOK(nw) /\ Todo(nw) = Todo(me) /\ nw.out = me.out /\ nw.at # "gone"
    BY <1>1, <1>6, PartIsHalved
  <2> HIDE DEF nw
  <2>3. Books(l, next, [worker EXCEPT ![w] = nw], counts, fate)
    BY <2>2, BooksKept
  <2> QED
    BY <1>2, <1>6, <2>1, <2>3
<1>7. CASE /\ worker' = [worker EXCEPT ![w] = Rating!PartDone(me,
                  Rating!Add(Rating!Add(me.out, [processed |-> Len(part), failure |-> Len(part)]),
                      [c \in {Rating!AssessmentErrorCategory(reply)} |-> Len(part)]))]
           /\ \E marked \in {{}, Rating!ToSet(part)} :
                 fate' = [t \in DOMAIN fate |-> IF t \in marked THEN "error" ELSE fate[t]]
  <2> DEFINE n == Len(part)
             out == Rating!Add(Rating!Add(me.out, [processed |-> n, failure |-> n]),
                               [c \in {Rating!AssessmentErrorCategory(reply)} |-> n])
             nw == Rating!PartDone(me, out)
  <2>1. worker' = [worker EXCEPT ![w] = nw]
    BY <1>7
  <2>2. /\ part = me.parts[1] /\ 1 \in 1 .. Len(me.parts) /\ part \in Seq(Listed)
        /\ n \in Nat /\ Piece(me, 1) = part
        /\ First(me) \subseteq Todo(me) /\ Cardinality(First(me)) = n
    <3>1. Head(me.parts) = me.parts[1] /\ Piece(me, 1) = me.parts[1] /\ 1 \in 1 .. Len(me.parts)
      BY <1>1, PiecesTyped DEF Piece
    <3> QED
      BY <1>1, <3>1, PiecesTyped
  <2>3. Balanced(out) /\ out["processed"] = me.out["processed"] + n
        /\ out["success"] = me.out["success"]
    BY <1>1, <2>2, AddFailed DEF Tallies
  <2>4. Rating!ToSet(part) = First(me)
    BY <2>2 DEF Rating!ToSet, First
  <2> HIDE DEF out, n, part
  <2>5. WorkerOK(nw) /\ Todo(nw) = Todo(me) \ First(me) /\ nw.out = out /\ nw.at # "gone"
    BY <1>1, <2>3, PartIsDone DEF Balanced
  <2> HIDE DEF nw
  <2>6. /\ fate' \in [Listed -> {"listed", "rated", "error"}]
        /\ \A t \in DOMAIN fate : t \notin First(me) => fate'[t] = fate[t]
    BY <1>1, <1>7, <2>4
  <2>7. \E m : Books(m, next, [worker EXCEPT ![w] = nw], counts, fate')
    <3>1. out["success"] = me.out["success"] + 0 /\ "bad" # "good"
      BY <1>1, <2>3, CounterNames DEF Tallies, Balanced, Outcome
    <3>2. WorkerSettles(worker[w], nw, First(me), "bad")
      BY <2>2, <2>3, <2>5, <3>1 DEF WorkerSettles
    <3>3. FateSettles(fate, fate', First(me), "bad")
      BY <2>6, <3>1 DEF FateSettles
    <3> QED
      BY <3>2, <3>3, BooksSettle
  <2> QED
    BY <1>2, <2>1, <2>7
<1> QED
  BY <1>3, <1>4, <1>5, <1>6, <1>7

LEMMA StoreBooks ==
    ASSUME NEW l, Books(l, next, worker, counts, fate), NEW w \in Workers, Rating!Store(w)
    PROVE  \E m : Books(m, next', worker', counts', fate')
<1> DEFINE me == worker[w]
           t0 == Head(me.results)
<1>1. /\ WorkerOK(me) /\ me.at = "store" /\ HasPieces(me) /\ me.results \in Seq(Listed)
      /\ Balanced(me.out) /\ me.out \in Outcome
      /\ worker \in [Workers -> WorkerRecord]
      /\ fate \in [Listed -> {"listed", "rated", "error"}]
  BY DEF Books, Rating!Store, HasPieces, WorkerOK, WorkerRecord, Tallies, Balanced
<1>2. next' = next /\ counts' = counts
  BY DEF Rating!Store
<1>3. me.out["processed"] \in Nat /\ me.out["success"] \in Nat
  BY <1>1, CounterNames DEF Outcome
<1>4. CASE me.results = <<>>
  <2> DEFINE nw == Rating!PartDone(me, me.out)
  <2>1. worker' = [worker EXCEPT ![w] = nw] /\ fate' = fate
    BY <1>4 DEF Rating!Store
  <2>2. First(me) = {}
    <3>1. Piece(me, 1) = <<>>
      BY <1>1, <1>4 DEF Piece
    <3> QED
      BY <3>1 DEF First
  <2>3. WorkerOK(nw) /\ Todo(nw) = Todo(me) /\ nw.out = me.out /\ nw.at # "gone"
    <3>1. /\ WorkerOK(nw) /\ Todo(nw) = Todo(me) \ First(me) /\ nw.out = me.out
          /\ nw.at # "gone"
      BY <1>1, PartIsDone
    <3> HIDE DEF nw, me
    <3> QED
      BY <2>2, <3>1
  <2> HIDE DEF nw
  <2>4. Books(l, next, [worker EXCEPT ![w] = nw], counts, fate)
    BY <2>3, BooksKept
  <2> QED
    BY <1>2, <2>1, <2>4
<1>5. CASE me.results # <<>>
  <2> DEFINE good == Rating!Add(me.out, [processed |-> 1, success |-> 1])
             bad == Rating!Add(me.out, [processed |-> 1, failure |-> 1, storage |-> 1])
  <2>1. \/ /\ worker' = [worker EXCEPT ![w].results = Tail(@), ![w].out = good]
           /\ fate' = [fate EXCEPT ![t0] = "rated"]
        \/ /\ worker' = [worker EXCEPT ![w].results = Tail(@), ![w].out = bad]
           /\ fate' = fate \/ fate' = [fate EXCEPT ![t0] = "rated"]
    BY <1>5 DEF Rating!Store
  <2>2. PICK as \in {"good", "bad"}, out \in {good, bad} :
          /\ out = (IF as = "good" THEN good ELSE bad)
          /\ worker' = [worker EXCEPT ![w].results = Tail(@), ![w].out = out]
          /\ as = "good" => fate' = [fate EXCEPT ![t0] = "rated"]
          /\ fate' = fate \/ fate' = [fate EXCEPT ![t0] = "rated"]
    <3> HIDE DEF good, bad, t0
    <3> QED
      BY <2>1
  <2>3. Balanced(good) /\ good["processed"] = me.out["processed"] + 1
        /\ good["success"] = me.out["success"] + 1
    BY <1>1, AddStored
  <2>4. Balanced(bad) /\ bad["processed"] = me.out["processed"] + 1
        /\ bad["success"] = me.out["success"]
    BY <1>1, AddUnstored
  <2> HIDE DEF good, bad
  <2>5. /\ Balanced(out) /\ out \in Outcome /\ out["processed"] = me.out["processed"] + 1
        /\ out["success"] = me.out["success"] + (IF as = "good" THEN 1 ELSE 0)
    <3>1. CASE as = "good"
      BY <3>1, <2>2, <2>3 DEF Balanced
    <3>2. CASE as = "bad"
      <4>1. out = bad /\ as # "good"
        BY <3>2, <2>2
      <4>2. Balanced(out) /\ out \in Outcome
        BY <4>1, <2>4 DEF Balanced
      <4> QED
        BY <4>1, <4>2, <2>4, <1>3
    <3> QED
      BY <3>1, <3>2
  <2> DEFINE nw == [me EXCEPT !.results = Tail(me.results), !.out = out]
  <2>6. worker' = [worker EXCEPT ![w] = nw]
    BY <2>2, <1>1
  <2>7. /\ WorkerOK(nw) /\ Todo(nw) = Todo(me) \ {t0} /\ nw.out = out /\ nw.at # "gone"
        /\ t0 \in Todo(me)
    <3>1. WorkerOK(me) /\ me.at = "store" /\ me.results # <<>> /\ out \in Outcome
      BY <1>1, <1>5, <2>5
    <3> HIDE DEF me
    <3> QED
      BY ONLY <3>1, ResultDone DEF nw, t0
  <2> HIDE DEF nw, t0
  <2>8. t0 \in Listed
    BY <2>7 DEF Todo
  <2>9. /\ fate' \in [Listed -> {"listed", "rated", "error"}]
        /\ \A t \in DOMAIN fate : t \notin {t0} => fate'[t] = fate[t]
        /\ as = "good" => \A t \in {t0} : fate'[t] = "rated"
    BY <1>1, <2>2, <2>8
  <2>10. Cardinality({t0}) = 1 /\ {t0} \in SUBSET Todo(worker[w])
    BY <2>7, FS_Singleton
  <2>11. WorkerSettles(me, nw, {t0}, as)
    <3>1. nw.out = out /\ Cardinality({t0}) = 1 /\ {t0} \subseteq Todo(me)
      BY <2>7, <2>10
    <3>2. WorkerOK(nw) /\ Todo(nw) = Todo(me) \ {t0} /\ nw.at # "gone"
      BY <2>7
    <3> DEFINE S == {t0}
    <3>3. Cardinality(S) = 1 /\ S \subseteq Todo(me) /\ Todo(nw) = Todo(me) \ S
      BY <3>1, <3>2
    <3> HIDE DEF nw, me, S
    <3>4. nw.out["processed"] = me.out["processed"] + Cardinality(S) /\ Balanced(nw.out)
      BY <2>5, <3>1, <3>3
    <3>5. nw.out["success"] = me.out["success"] + (IF as = "good" THEN Cardinality(S) ELSE 0)
      BY <2>5, <3>1, <3>3
    <3>6. WorkerSettles(me, nw, S, as)
      BY ONLY <3>2, <3>3, <3>4, <3>5 DEF WorkerSettles
    <3> QED
      BY <3>6 DEF S
  <2>12. \E m : Books(m, next, [worker EXCEPT ![w] = nw], counts, fate')
    <3>1. FateSettles(fate, fate', {t0}, as)
      BY <2>9 DEF FateSettles
    <3> DEFINE S == {t0}
    <3>2. WorkerSettles(worker[w], nw, S, as) /\ FateSettles(fate, fate', S, as)
      BY <2>11, <3>1
    <3> HIDE DEF S
    <3>3. CASE as = "good"
      <4>1. WorkerSettles(worker[w], nw, S, "good") /\ FateSettles(fate, fate', S, "good")
        BY <3>2, <3>3
      <4> QED
        BY <4>1, BooksSettle
    <3>4. CASE as = "bad"
      <4>1. WorkerSettles(worker[w], nw, S, "bad") /\ FateSettles(fate, fate', S, "bad")
        BY <3>2, <3>4
      <4> QED
        BY <4>1, BooksSettle
    <3> QED
      BY <3>3, <3>4
  <2> QED
    BY <1>2, <2>6, <2>12
<1> QED
  BY <1>4, <1>5

LEMMA TakeBooks ==
    ASSUME NEW l, Books(l, next, worker, counts, fate), NEW w \in Workers, Rating!Take(w)
    PROVE  \E m : Books(m, next', worker', counts', fate')
<1> DEFINE me == worker[w]
           end == Rating!Min({next + BatchSize - 1, Len(Items)})
           part == SubSeq(Items, next, end)
           parts == <<part>>
           nw == [me EXCEPT !.at = "ask", !.parts = parts]
           T == {Items[i] : i \in next .. end}
<1>1. /\ WorkerOK(me) /\ me \in WorkerRecord /\ me.at = "idle"
      /\ IsLedger(l, next) /\ LeftWith(l, w) = Todo(me)
      /\ Tallies(me.out, Settled(l, w), SettledWell(l, w))
      /\ Tallies(counts, Counted(l), CountedWell(l))
      /\ worker \in [Workers -> WorkerRecord]
      /\ fate \in [Listed -> {"listed", "rated", "error"}]
      /\ \A t \in DOMAIN l : l[t].as = "good" => fate[t] = "rated"
  BY DEF Books, Rating!Take, WorkerOK
<1>2. /\ worker' = [worker EXCEPT ![w].at = "ask", ![w].parts = parts]
      /\ next' = end + 1 /\ counts' = counts /\ fate' = fate /\ next <= Len(Items)
  BY DEF Rating!Take
<1>3. worker' = [worker EXCEPT ![w] = nw]
  <2> HIDE DEF parts
  <2> QED
    BY <1>1, <1>2
<1>4. next \in Nat /\ next >= 1 /\ Len(Items) \in Nat /\ Items \in Seq(Listed)
  BY <1>1, ItemsListed DEF IsLedger
<1>5. end \in next .. Len(Items)
  <2> DEFINE a == next + BatchSize - 1
             b == Len(Items)
  <2>1. a \in Int /\ b \in Int /\ a >= next /\ b >= next
    BY <1>2, <1>4, JobConstants
  <2>2. end = CHOOSE x \in {a, b} : \A y \in {a, b} : x <= y
    BY DEF Rating!Min
  <2> HIDE DEF a, b, end
  <2>3. \E x \in {a, b} : \A y \in {a, b} : x <= y
    BY <2>1
  <2>4. end \in {a, b} /\ end <= a /\ end <= b
    BY <2>2, <2>3
  <2> QED
    BY <2>1, <2>4 DEF b
<1> HIDE DEF end
<1>6. end \in Nat /\ end >= next /\ end <= Len(Items)
  BY <1>4, <1>5
<1>7. /\ part \in Seq(Listed) /\ Len(part) = end - next + 1
      /\ \A k \in 1 .. end - next + 1 : part[k] = Items[next + k - 1]
  <2>1. \A i \in next .. end : Items[i] \in Listed
    BY <1>4, <1>6
  <2> QED
    BY <1>4, <1>6, <2>1, SubSeqProperties
<1> HIDE DEF part
<1>8. parts \in Seq(Seq(Listed)) /\ Len(parts) = 1 /\ parts[1] = part /\ parts # <<>>
  BY <1>7
<1> HIDE DEF parts
<1>9. /\ nw \in WorkerRecord /\ nw.at = "ask" /\ nw.parts = parts /\ nw.out = me.out
      /\ HasPieces(nw) /\ Piece(nw, 1) = part
  <2> DEFINE Parts == Seq(Seq(Listed))
             Results == Seq(Listed)
  <2>1. /\ me \in [at : {"idle", "ask", "store", "deliver", "gone"}, parts : Parts,
                   whole : BOOLEAN, attempt : Nat, results : Results, out : Outcome]
        /\ parts \in Parts
    BY <1>1, <1>8 DEF WorkerRecord
  <2> HIDE DEF Parts, Results, me
  <2>2. /\ nw \in [at : {"idle", "ask", "store", "deliver", "gone"}, parts : Parts,
                   whole : BOOLEAN, attempt : Nat, results : Results, out : Outcome]
        /\ nw.at = "ask" /\ nw.parts = parts /\ nw.out = me.out
    BY <2>1
  <2> HIDE DEF nw
  <2>3. nw \in WorkerRecord
    BY <2>2 DEF Parts, Results, WorkerRecord
  <2> QED
    BY <2>2, <2>3, <1>8 DEF HasPieces, Piece
<1> HIDE DEF nw
<1>20. Len(nw.parts) = 1
  BY ONLY <1>8, <1>9
<1>10. \A k \in 1 .. Len(part) :
          next + k - 1 \in 1 .. Len(Items) /\ next + k - 1 \in next .. end
  BY <1>4, <1>6, <1>7
<1>11. Distinct(nw)
  <2>1. ASSUME NEW k \in 1 .. Len(part), NEW m \in 1 .. Len(part), part[k] = part[m]
        PROVE  k = m
    <3>1. Items[next + k - 1] = Items[next + m - 1]
      BY <2>1, <1>7
    <3>2. next + k - 1 = next + m - 1
      BY <3>1, <1>10, ItemsListed
    <3> QED
      BY <3>2, <1>4
  <2>2. \A i \in 1 .. Len(nw.parts) : i = 1
    BY ONLY <1>20
  <2>3. \A i \in 1 .. Len(nw.parts) : Piece(nw, i) = part
    BY <1>9, <2>2
  <2> QED
    BY <2>1, <2>2, <2>3 DEF Distinct
<1>12. WorkerOK(nw)
  BY <1>8, <1>9, <1>11 DEF WorkerOK
<1>13. Todo(nw) = T
  <2>1. ASSUME NEW t \in Todo(nw) PROVE t \in T
    <3>1. PICK k \in 1 .. Len(part) : t = part[k]
      <4>1. PICK i \in 1 .. Len(nw.parts) :
               \E k \in 1 .. Len(Piece(nw, i)) : t = Piece(nw, i)[k]
        BY <2>1 DEF Todo
      <4>2. i = 1
        BY ONLY <1>20, i \in 1 .. Len(nw.parts)
      <4> QED
        BY <4>1, <4>2, <1>9
    <3>2. t = Items[next + k - 1]
      BY <3>1, <1>7
    <3> QED
      BY <3>2, <1>10
  <2>2. ASSUME NEW i \in next .. end PROVE Items[i] \in Todo(nw)
    <3>1. i - next + 1 \in 1 .. Len(part) /\ next + (i - next + 1) - 1 = i
      BY <1>4, <1>6, <1>7
    <3>2. part[i - next + 1] = Items[i] /\ Items[i] \in Listed
      BY <3>1, <1>7, <1>4, <1>6
    <3>3. 1 \in 1 .. Len(nw.parts) /\ \E k \in 1 .. Len(Piece(nw, 1)) : Items[i] = Piece(nw, 1)[k]
      BY <3>1, <3>2, <1>8, <1>9
    <3> QED
      BY <3>2, <3>3, <1>9 DEF Todo
  <2> QED
    BY <2>1, <2>2
<1>14. Todo(me) = {}
  BY <1>1 DEF Todo, HasPieces
<1> DEFINE m == Given(l, T, w)
<1>15. /\ IsLedger(m, end + 1)
       /\ \A v \in Workers \ {w} : SameFor(l, m, v)
       /\ LeftWith(m, w) = LeftWith(l, w) \cup T
       /\ Settled(m, w) = Settled(l, w) /\ SettledWell(m, w) = SettledWell(l, w)
       /\ Counted(m) = Counted(l) /\ CountedWell(m) = CountedWell(l)
       /\ \A t \in DOMAIN m : m[t].as = "good" => t \in DOMAIN l /\ l[t].as = "good"
  <2>1. end + 1 \in next .. Len(Items) + 1 /\ (end + 1) - 1 = end
    BY <1>4, <1>6
  <2> QED
    BY <1>1, <2>1, GivenLedger
<1> HIDE DEF T, m
<1>16. next # Len(Items) + 1
  BY <1>2, <1>4
<1>17. LeftWith(m, w) = Todo(nw) /\ Tallies(nw.out, Settled(m, w), SettledWell(m, w))
  BY <1>1, <1>9, <1>13, <1>14, <1>15
<1>18. Tallies(counts, Counted(m), CountedWell(m)) /\ \A t \in DOMAIN m : m[t].as = "good" => fate[t] = "rated"
  BY <1>1, <1>15
<1>19. Books(m, end + 1, [worker EXCEPT ![w] = nw], counts, fate)
  BY <1>1, <1>9, <1>12, <1>15, <1>16, <1>17, <1>18, BooksMove
<1> QED
  BY <1>2, <1>3, <1>19

LEMMA BalancedSum ==
    ASSUME NEW o, Balanced(o), NEW p, Balanced(p)
    PROVE  LET q == Rating!Add(o, p)
           IN  /\ Balanced(q) /\ q["processed"] = o["processed"] + p["processed"]
               /\ q["success"] = o["success"] + p["success"]
<1> DEFINE q == Rating!Add(o, p)
<1>1. o \in Outcome /\ p \in Outcome
  BY DEF Balanced
<1>2. q \in Outcome /\ \A c \in Rating!Counters : q[c] = o[c] + p[c]
  BY <1>1, AddSums
<1> HIDE DEF q
<1>3. \A c \in Rating!Counters : o[c] \in Nat /\ p[c] \in Nat
  BY <1>1 DEF Outcome
<1>4. /\ o["processed"] \in Nat /\ o["success"] \in Nat /\ o["failure"] \in Nat
      /\ o["http"] \in Nat /\ o["network"] \in Nat /\ o["response_validation"] \in Nat
      /\ o["storage"] \in Nat
      /\ p["processed"] \in Nat /\ p["success"] \in Nat /\ p["failure"] \in Nat
      /\ p["http"] \in Nat /\ p["network"] \in Nat /\ p["response_validation"] \in Nat
      /\ p["storage"] \in Nat
  BY <1>3, CounterNames
<1>5. /\ q["processed"] = o["processed"] + p["processed"]
      /\ q["success"] = o["success"] + p["success"]
      /\ q["failure"] = o["failure"] + p["failure"]
      /\ q["http"] = o["http"] + p["http"] /\ q["network"] = o["network"] + p["network"]
      /\ q["response_validation"] = o["response_validation"] + p["response_validation"]
      /\ q["storage"] = o["storage"] + p["storage"]
  BY <1>2, CounterNames
<1>6. /\ o["processed"] = o["success"] + o["failure"]
      /\ o["failure"] = o["http"] + o["network"] + o["response_validation"] + o["storage"]
      /\ p["processed"] = p["success"] + p["failure"]
      /\ p["failure"] = p["http"] + p["network"] + p["response_validation"] + p["storage"]
  BY DEF Balanced
<1>7. /\ q["processed"] = q["success"] + q["failure"]
      /\ q["failure"] = q["http"] + q["network"] + q["response_validation"] + q["storage"]
  BY <1>4, <1>5, <1>6
<1> QED
  BY <1>2, <1>5, <1>7 DEF Balanced, q

(* A worker without work. *)
LEMMA NothingHeld ==
    ASSUME NEW me, me = Rating!Idle \/ me = [Rating!Idle EXCEPT !.at = "gone"]
    PROVE  /\ WorkerOK(me) /\ Todo(me) = {} /\ me.out = Rating!NoOutcome
           /\ me.at \in {"idle", "gone"} /\ Tallies(Rating!NoOutcome, {}, {})
<1>1. Rating!NoOutcome \in Outcome /\ \A c \in Rating!Counters : Rating!NoOutcome[c] = 0
  BY DEF Rating!NoOutcome, Outcome
<1>2. Tallies(Rating!NoOutcome, {}, {})
  <2>1. Cardinality({}) = 0
    BY FS_EmptySet
  <2> QED
    BY <1>1, <2>1, CounterNames DEF Tallies, Balanced
<1>4. me \in WorkerRecord /\ me.at \in {"idle", "gone"} /\ me.out = Rating!NoOutcome
  <2> DEFINE Parts == Seq(Seq(Listed))
             Results == Seq(Listed)
             none == <<>>
  <2>1. none \in Parts /\ none \in Results
    OBVIOUS
  <2>2. Rating!Idle = [at |-> "idle", parts |-> none, whole |-> TRUE, attempt |-> 0,
                       results |-> none, out |-> Rating!NoOutcome]
    BY DEF Rating!Idle
  <2> HIDE DEF Parts, Results, none
  <2>3. /\ me \in [at : {"idle", "ask", "store", "deliver", "gone"}, parts : Parts,
                   whole : BOOLEAN, attempt : Nat, results : Results, out : Outcome]
        /\ me.at \in {"idle", "gone"} /\ me.out = Rating!NoOutcome
    <3>1. /\ Rating!Idle \in [at : {"idle", "ask", "store", "deliver", "gone"}, parts : Parts,
                             whole : BOOLEAN, attempt : Nat, results : Results, out : Outcome]
          /\ Rating!Idle.at = "idle" /\ Rating!Idle.out = Rating!NoOutcome
      BY <1>1, <2>1, <2>2
    <3>2. CASE me = Rating!Idle
      BY <3>1, <3>2
    <3>3. CASE me = [Rating!Idle EXCEPT !.at = "gone"]
      BY ONLY <3>1, <3>3
    <3> QED
      BY <3>2, <3>3
  <2> QED
    BY <2>3 DEF Parts, Results, WorkerRecord
<1>5. ~HasPieces(me)
  BY <1>4 DEF HasPieces
<1>6. WorkerOK(me) /\ Todo(me) = {}
  BY <1>4, <1>5 DEF WorkerOK, Todo
<1> QED
  BY <1>2, <1>4, <1>6

(* The loop adds an outcome to the row's counters. *)
LEMMA CountBooks ==
    ASSUME NEW l, Books(l, next, worker, counts, fate), NEW w \in Workers,
           worker[w].at = "deliver", worker' = [worker EXCEPT ![w] = Rating!Idle],
           next' = next, counts' = Rating!Add(counts, worker[w].out), fate' = fate
    PROVE  \E m : Books(m, next', worker', counts', fate')
<1> DEFINE me == worker[w]
           nw == Rating!Idle
           m == Booked(l, w)
<1>1. /\ IsLedger(l, next) /\ LeftWith(l, w) = Todo(me)
      /\ Tallies(me.out, Settled(l, w), SettledWell(l, w))
      /\ Tallies(counts, Counted(l), CountedWell(l))
      /\ fate \in [Listed -> {"listed", "rated", "error"}]
      /\ \A t \in DOMAIN l : l[t].as = "good" => fate[t] = "rated"
  BY DEF Books
<1>2. /\ IsLedger(m, next)
      /\ \A v \in Workers \ {w} : SameFor(l, m, v)
      /\ LeftWith(m, w) = LeftWith(l, w)
      /\ Settled(m, w) = {} /\ SettledWell(m, w) = {}
      /\ Cardinality(Counted(m)) = Cardinality(Counted(l)) + Cardinality(Settled(l, w))
      /\ Cardinality(CountedWell(m))
           = Cardinality(CountedWell(l)) + Cardinality(SettledWell(l, w))
      /\ \A t \in DOMAIN m : t \in DOMAIN l /\ m[t].as = l[t].as
  BY <1>1, BookedLedger
<1> HIDE DEF m
<1>3. /\ WorkerOK(nw) /\ Todo(nw) = {} /\ nw.at = "idle" /\ nw.out = Rating!NoOutcome
      /\ Tallies(Rating!NoOutcome, {}, {})
  <2>1. nw.at = "idle"
    BY DEF Rating!Idle
  <2> HIDE DEF nw
  <2>2. nw = Rating!Idle
    BY DEF nw
  <2> QED
    BY <2>1, <2>2, NothingHeld
<1>4. Todo(me) = {}
  BY DEF Todo, HasPieces
<1> HIDE DEF nw
<1>5. LeftWith(m, w) = Todo(nw) /\ Tallies(nw.out, Settled(m, w), SettledWell(m, w))
  BY <1>1, <1>2, <1>3, <1>4
<1>6. Tallies(counts', Counted(m), CountedWell(m))
  <2>1. Balanced(counts) /\ Balanced(me.out)
    BY <1>1 DEF Tallies
  <2>2. /\ Balanced(counts') /\ counts'["processed"] = counts["processed"] + me.out["processed"]
        /\ counts'["success"] = counts["success"] + me.out["success"]
    BY <2>1, BalancedSum
  <2> QED
    BY <1>1, <1>2, <2>2 DEF Tallies
<1>7. \A t \in DOMAIN m : m[t].as = "good" => fate[t] = "rated"
  BY <1>1, <1>2
<1>8. Books(m, next, [worker EXCEPT ![w] = nw], counts', fate)
  BY <1>1, <1>2, <1>3, <1>5, <1>6, <1>7, BooksMove
<1> QED
  BY <1>8 DEF nw

LEMMA LeaveBooks ==
    ASSUME NEW l, Books(l, next, worker, counts, fate), NEW w \in Workers, Rating!Leave(w),
           jobCtx = "live"
    PROVE  Books(l, next', worker', counts', fate')
<1> DEFINE me == worker[w]
           nw == [Rating!Idle EXCEPT !.at = "gone"]
<1>1. /\ me.at = "idle" /\ next > Len(Items) /\ worker' = [worker EXCEPT ![w] = nw]
      /\ next' = next /\ counts' = counts /\ fate' = fate
  BY DEF Rating!Leave
<1>2. WorkerOK(me) /\ IsLedger(l, next)
  BY DEF Books
<1>3. WorkerOK(nw) /\ Todo(nw) = {} /\ nw.out = Rating!NoOutcome
  BY NothingHeld
<1>4. Todo(me) = {} /\ me.out = Rating!NoOutcome
  BY <1>1, <1>2 DEF Todo, HasPieces, WorkerOK
<1>5. next = Len(Items) + 1
  BY <1>1, <1>2, ItemsListed DEF IsLedger
<1> HIDE DEF nw, me
<1>6. Todo(nw) = Todo(worker[w]) /\ nw.out = worker[w].out
  BY <1>3, <1>4 DEF me
<1>7. Books(l, next, [worker EXCEPT ![w] = nw], counts, fate)
  BY <1>3, <1>5, <1>6, BooksKept
<1> QED
  BY <1>1, <1>7

(* When every worker has left, the row's counters account for the list. *)
LEMMA BooksClosed ==
    ASSUME NEW l, Books(l, next, worker, counts, fate),
           \A w \in Workers : worker[w].at = "gone"
    PROVE  /\ counts.processed = Len(Items)
           /\ counts.success <= Cardinality({t \in DOMAIN fate : fate[t] = "rated"})
           /\ counts.failure = counts.processed - counts.success
           /\ counts.failure = counts.http + counts.network + counts.response_validation
                               + counts.storage
           /\ counts.failure = 0 => \A t \in DOMAIN fate : fate[t] = "rated"
<1>1. PICK w0 \in Workers : TRUE
  BY JobConstants
<1>2. next = Len(Items) + 1 /\ IsLedger(l, next)
  BY <1>1 DEF Books
<1>3. DOMAIN l = Listed /\ \A t \in Listed : l[t] \in LedgerEntry
  BY <1>2, ItemsListed DEF IsLedger
<1>4. \A w \in Workers : LeftWith(l, w) = {} /\ Settled(l, w) = {}
  <2> TAKE w \in Workers
  <2>1. LeftWith(l, w) = Todo(worker[w]) /\ WorkerOK(worker[w])
        /\ Tallies(worker[w].out, Settled(l, w), SettledWell(l, w))
    BY DEF Books
  <2>2. Todo(worker[w]) = {}
    BY DEF Todo, HasPieces
  <2>3. worker[w].out = Rating!NoOutcome
    BY <2>1 DEF WorkerOK
  <2>4. Cardinality(Settled(l, w)) = 0
    BY <2>1, <2>3, CounterNames DEF Tallies, Rating!NoOutcome
  <2>5. IsFiniteSet(Settled(l, w))
    BY <1>2, LedgerFinite
  <2>6. Settled(l, w) = {}
    BY <2>4, <2>5, FS_EmptySet
  <2> QED
    BY <2>1, <2>2, <2>6
<1>5. Counted(l) = Listed
  <2>1. ASSUME NEW t \in Listed PROVE l[t].counted
    <3>1. l[t].by \in Workers /\ l[t].counted \in BOOLEAN
      BY <1>3 DEF LedgerEntry
    <3>2. t \notin LeftWith(l, l[t].by) /\ t \notin Settled(l, l[t].by)
      BY <1>4, <3>1
    <3> QED
      BY <1>3, <3>2 DEF LeftWith, Settled
  <2> QED
    BY <1>3, <2>1 DEF Counted
<1>6. /\ counts \in Outcome /\ Balanced(counts)
      /\ counts["processed"] = Cardinality(Listed)
      /\ counts["success"] = Cardinality(CountedWell(l))
  BY <1>5 DEF Books, Tallies, Balanced
<1> DEFINE R == {t \in DOMAIN fate : fate[t] = "rated"}
<1>7. DOMAIN fate = Listed /\ CountedWell(l) \subseteq R /\ R \subseteq Listed
  BY <1>3 DEF Books, CountedWell
<1> HIDE DEF R
<1>8. /\ IsFiniteSet(R) /\ IsFiniteSet(CountedWell(l))
      /\ Cardinality(CountedWell(l)) <= Cardinality(R)
      /\ Cardinality(CountedWell(l)) = Cardinality(Listed) => CountedWell(l) = Listed
  <2>1. IsFiniteSet(Listed)
    BY ItemsListed
  <2>2. IsFiniteSet(R)
    BY <1>7, <2>1, FS_Subset
  <2>3. CountedWell(l) \subseteq Listed
    BY <1>7
  <2> QED
    BY <1>7, <2>1, <2>2, <2>3, FS_Subset
<1>9. /\ counts["processed"] \in Nat /\ counts["success"] \in Nat /\ counts["failure"] \in Nat
      /\ counts["processed"] = counts["success"] + counts["failure"]
      /\ counts["failure"] = counts["http"] + counts["network"]
                             + counts["response_validation"] + counts["storage"]
  <2>1. \A c \in Rating!Counters : counts[c] \in Nat
    BY <1>6 DEF Outcome
  <2> QED
    BY <1>6, <2>1, CounterNames DEF Balanced
<1>10. ASSUME counts["failure"] = 0 PROVE \A t \in DOMAIN fate : fate[t] = "rated"
  <2>1. CountedWell(l) = Listed
    BY <1>6, <1>8, <1>9, <1>10
  <2> QED
    BY <1>7, <2>1 DEF R
<1>11. counts.processed = Len(Items) /\ counts.success <= Cardinality(R)
  BY <1>6, <1>8, ItemsListed
<1>12. counts.failure = counts.processed - counts.success
  BY <1>9
<1> QED
  BY <1>9, <1>10, <1>11, <1>12 DEF R

LEMMA JobInit == Rating!Init => JobInv
<1> SUFFICES ASSUME Rating!Init PROVE JobInv
  OBVIOUS
<1> DEFINE l == [t \in {} |-> [by |-> CHOOSE w \in Workers : TRUE, counted |-> FALSE,
                               as |-> "left"]]
<1>1. /\ next = 1 /\ worker = [w \in Workers |-> Rating!Idle] /\ jobCtx = "live"
      /\ reader = "receives" /\ running = "running" /\ counts = Rating!NoOutcome
      /\ fate = [t \in Listed |-> "listed"]
  BY DEF Rating!Init, Listed
<1>2. DOMAIN l = {}
  OBVIOUS
<1>3. IsLedger(l, 1)
  <2>1. Upto(1) = {}
    BY DEF Upto
  <2>2. 1 \in 1 .. Len(Items) + 1
    BY ItemsListed
  <2>3. l \in [Upto(1) -> LedgerEntry]
    BY <2>1
  <2> HIDE DEF l
  <2> QED
    BY <1>2, <2>2, <2>3 DEF IsLedger
<1> HIDE DEF l
<1>4. /\ \A w : LeftWith(l, w) = {} /\ Settled(l, w) = {} /\ SettledWell(l, w) = {}
      /\ Counted(l) = {} /\ CountedWell(l) = {}
  BY <1>2 DEF LeftWith, Settled, SettledWell, Counted, CountedWell
<1>5. /\ WorkerOK(Rating!Idle) /\ Todo(Rating!Idle) = {} /\ Rating!Idle.out = Rating!NoOutcome
      /\ Rating!Idle.at = "idle" /\ Tallies(Rating!NoOutcome, {}, {})
  <2>1. Rating!Idle.at = "idle"
    BY DEF Rating!Idle
  <2> QED
    BY <2>1, NothingHeld
<1>6. /\ \A w \in Workers : worker[w] = Rating!Idle
      /\ worker \in [Workers -> WorkerRecord]
  BY <1>1, <1>5 DEF WorkerOK
<1>7. fate \in [Listed -> {"listed", "rated", "error"}]
  BY <1>1
<1>8. \A w \in Workers : worker[w].at # "gone"
  BY <1>5, <1>6
<1>9. /\ \A w \in Workers : WorkerOK(worker[w])
      /\ \A w \in Workers : LeftWith(l, w) = Todo(worker[w])
      /\ \A w \in Workers : Tallies(worker[w].out, Settled(l, w), SettledWell(l, w))
  BY <1>4, <1>5, <1>6
<1>10. Books(l, next, worker, counts, fate)
  BY <1>1, <1>2, <1>3, <1>4, <1>5, <1>6, <1>7, <1>8, <1>9 DEF Books
<1> QED
  BY <1>1, <1>10 DEF JobInv

(* A step that leaves the row's status and the loop as they are. *)
LEMMA JobGoesOn ==
    ASSUME JobInv, UNCHANGED <<running, reader, jobCtx>>,
           running \notin {"completed", "partial", "failed"},
           \A l : Books(l, next, worker, counts, fate) /\ jobCtx = "live"
                     => \E m : Books(m, next', worker', counts', fate')
    PROVE  JobInv'
BY DEF JobInv

LEMMA JobNext == JobInv /\ [Rating!Next]_batchVars => JobInv'
<1> SUFFICES ASSUME JobInv, [Rating!Next]_batchVars PROVE JobInv'
  OBVIOUS
<1> DEFINE over == running \in {"completed", "partial", "failed"}
<1>1. ASSUME over PROVE reader = "returned" /\ \A w \in Workers : worker[w].at = "gone"
  BY <1>1 DEF JobInv
<1>2. ASSUME NEW w \in Workers, Rating!Take(w) PROVE JobInv'
  <2>1. ~over /\ UNCHANGED <<running, reader, jobCtx>>
    BY <1>1, <1>2 DEF Rating!Take
  <2> QED
    BY <1>2, <2>1, TakeBooks, JobGoesOn
<1>3. ASSUME NEW w \in Workers, Rating!Ask(w) PROVE JobInv'
  <2>1. ~over /\ UNCHANGED <<running, reader, jobCtx>>
    BY <1>1, <1>3 DEF Rating!Ask
  <2> QED
    BY <1>3, <2>1, AskBooks, JobGoesOn
<1>4. ASSUME NEW w \in Workers, Rating!AskCancelled(w) PROVE JobInv'
  <2>1. ~over /\ UNCHANGED <<running, reader, jobCtx>> /\ jobCtx # "live"
    BY <1>1, <1>4 DEF Rating!AskCancelled
  <2> QED
    BY <2>1, JobGoesOn
<1>5. ASSUME NEW w \in Workers, Rating!Store(w) PROVE JobInv'
  <2>1. ~over /\ UNCHANGED <<running, reader, jobCtx>>
    BY <1>1, <1>5 DEF Rating!Store
  <2> QED
    BY <1>5, <2>1, StoreBooks, JobGoesOn
<1>6. ASSUME NEW w \in Workers, Rating!Receive(w) PROVE JobInv'
  <2>1. ~over /\ running' = running /\ worker[w].at = "deliver" /\ reader # "returned"
    BY <1>1, <1>6 DEF Rating!Receive
  <2>2. CASE reader = "receives" /\ jobCtx # "stopped" /\ running # "cancelled"
             /\ counts' = Rating!Add(counts, worker[w].out) /\ UNCHANGED <<reader, jobCtx>>
    <3>1. worker' = [worker EXCEPT ![w] = Rating!Idle] /\ next' = next /\ fate' = fate
      BY <1>6 DEF Rating!Receive
    <3>2. \A l : Books(l, next, worker, counts, fate)
                    => \E m : Books(m, next', worker', counts', fate')
      BY <2>1, <2>2, <3>1, CountBooks
    <3> QED
      BY <2>1, <2>2, <3>2, JobGoesOn
  <2>3. CASE reader = "cancelled" /\ UNCHANGED <<reader, jobCtx>>
    BY <2>1, <2>3 DEF JobInv
  <2>4. CASE reader' \in {"returned", "cancelled"} /\ jobCtx' \in {"cancelled", jobCtx}
    BY <2>1, <2>4 DEF JobInv
  <2> QED
    BY <1>6, <2>2, <2>3, <2>4 DEF Rating!Receive
<1>7. ASSUME NEW w \in Workers, Rating!Leave(w) PROVE JobInv'
  <2>1. ~over /\ UNCHANGED <<running, reader, jobCtx>>
    BY <1>1, <1>7 DEF Rating!Leave
  <2> QED
    BY <1>7, <2>1, LeaveBooks, JobGoesOn
<1>8. ASSUME Rating!Finish PROVE JobInv'
  <2>1. /\ reader # "returned" /\ \A w \in Workers : worker[w].at = "gone"
        /\ reader' = "returned" /\ UNCHANGED <<next, worker, jobCtx, counts, fate>>
    BY <1>8 DEF Rating!Finish
  <2>2. ~over
    BY <1>1, <2>1
  <2>3. CASE running' = running
    BY <2>1, <2>2, <2>3 DEF JobInv
  <2>4. CASE /\ reader = "receives" /\ jobCtx # "stopped" /\ running = "running"
             /\ running' = Rating!FinalStatus
    <3>1. PICK l : Books(l, next, worker, counts, fate)
      BY <2>4 DEF JobInv
    <3>2. /\ worker \in [Workers -> WorkerRecord]
          /\ running' \in {"completed", "partial", "failed"}
          /\ running' = "completed" => counts.failure = 0
      BY <2>4, <3>1 DEF Books, Rating!FinalStatus
    <3>3. /\ counts.processed = Len(Items)
          /\ counts.success <= Cardinality({t \in DOMAIN fate : fate[t] = "rated"})
          /\ counts.failure = counts.processed - counts.success
          /\ counts.failure = counts.http + counts.network + counts.response_validation
                              + counts.storage
          /\ counts.failure = 0 => \A t \in DOMAIN fate : fate[t] = "rated"
      BY <2>1, <3>1, BooksClosed
    <3>4. \A S : Rating!Cardinality(S) = Cardinality(S)
      BY DEF Rating!Cardinality, Cardinality
    <3>5. Rating!JobAccountsForTools'
      BY <2>1, <3>2, <3>3, <3>4 DEF Rating!JobAccountsForTools
    <3> QED
      BY <2>1, <2>4, <3>2, <3>5 DEF JobInv
  <2> QED
    BY <1>8, <2>3, <2>4 DEF Rating!Finish
<1>9. ASSUME Rating!Cancel PROVE JobInv'
  BY <1>9 DEF JobInv, Rating!Cancel, Rating!JobAccountsForTools
<1>10. ASSUME Rating!Shutdown PROVE JobInv'
  BY <1>10 DEF JobInv, Rating!Shutdown, Rating!JobAccountsForTools
<1>11. ASSUME UNCHANGED batchVars PROVE JobInv'
  BY <1>11 DEF JobInv, batchVars, Rating!JobAccountsForTools
<1> QED
  BY <1>2, <1>3, <1>4, <1>5, <1>6, <1>7, <1>8, <1>9, <1>10, <1>11 DEF Rating!Next


(* Whatever the provider answers and however workers, a cancellation and a   *)
(* stop overlap, a job that ended by itself has counted every listed tool    *)
(* once, and says "completed" only if every one of them was rated            *)
(* (processBatch, assessWithRetry, the loop of runJob).                      *)
THEOREM JobsAccount ==
    Spec => []JobAccountsForTools
<1>1. Init => JobInv
  BY JobInit DEF Init
<1>2. JobInv /\ [Next]_allVars => JobInv'
  <2>1. [Next]_allVars => [Rating!Next]_batchVars
    BY DEF Next, allVars, batchVars
  <2> QED
    BY <2>1, JobNext
<1>3. JobInv => JobAccountsForTools
  BY DEF JobInv, JobAccountsForTools, Rating!JobAccountsForTools
<1> QED
  BY <1>1, <1>2, <1>3, PTL DEF Spec
===============================================================================
