------------------------ MODULE HistoricalBackfillProofs ------------------------
(***************************************************************************)
(* What HistoricalBackfill guarantees for every number of processes,       *)
(* targets and days and every budget, proved from the inductive invariant  *)
(* BackfillInv.  It says of the database's rows, of the rows a process has *)
(* loaded, and of the pages it is reading what keeps them apart from the   *)
(* stored prices no further than a crash, a rollback or another command    *)
(* may; the parts under ~overlap hold while one command runs at a time.    *)
(***************************************************************************)
EXTENDS HistoricalBackfill, WellFoundedInduction, TLAPS

USE CountAssumption, ExpectedAssumption, UnresolvedAssumption, BudgetAssumption

Working == {"fetch", "store", "ended"}

\* The days of a target with a price.
Priced(t) == {d \in Days : price[t][d] # "none"}

\* A row of a target, in the database or loaded: its days are stored, and
\* once it says the target has been read to its start, all the source holds.
RowIsBacked(t, row) ==
  /\ row.confirmed \subseteq Expected[t] \cap Priced(t)
  /\ row.status = "completed" \/ First(t) \in row.confirmed => held[t] \subseteq Priced(t)

RowsAreBacked ==
  \A t \in Targets :
    /\ held[t] \subseteq Expected[t] /\ conflicts[t] \subseteq Priced(t)
    /\ RowIsBacked(t, target[t])
    /\ ~overlap /\ (target[t].status = "completed" \/ First(t) \in target[t].confirmed) =>
         held[t] \subseteq target[t].confirmed \cup conflicts[t]

CopiesAreBacked(x) == \A t \in Targets : x.targets[t] # Nil => RowIsBacked(t, x.targets[t])

\* Every day the source holds is yet to come, on the page in hand, or stored.
PagesAreBacked(x) ==
  /\ x.pc # "store" => x.page = {}
  /\ x.pc \in Working =>
      /\ x.at \in Targets \ Unresolved
      /\ x.left \subseteq held[x.at] /\ x.page \subseteq held[x.at]
      /\ held[x.at] \ (x.left \cup x.page) \subseteq Priced(x.at)
      /\ ~overlap => held[x.at] \ (x.left \cup x.page)
                       \subseteq target[x.at].confirmed \cup conflicts[x.at]
      /\ x.reason \in Complete /\ x.pc # "fetch" => x.left = {}
      /\ First(x.at) \in x.page => x.left = {}
      /\ x.asked <= x.limit

\* What a process has loaded or charged, against what was made and approved.
ChargesAreBacked(x) ==
  /\ x.base.budget <= approved /\ x.mine.budget <= approved
  /\ x.base.used <= made /\ x.mine.used <= made
  /\ ~overlap => /\ x.mine.used + x.remaining <= approved
                 /\ x.base.status # "none" => x.base.used <= x.mine.used

\* A process alone has loaded what is there, and works on no finished run.
CopiesAreCurrent(x) ==
  ~overlap =>
    /\ x.base = run
    /\ \A t \in Targets : x.targets[t] = Nil \/ x.targets[t] = target[t]
    /\ x.mine.status = x.base.status \/ (x.base.status = "none" /\ x.mine.status = "running")
    /\ x.pc \in Working => run.status \notin Over

ProcessIsBacked(x) ==
  CopiesAreBacked(x) /\ PagesAreBacked(x) /\ ChargesAreBacked(x) /\ CopiesAreCurrent(x)

RunIsBacked ==
  /\ RequestBudget <= approved /\ run.budget <= approved /\ RequestsAreCounted
  /\ RunOutcomeIsEarned

BackfillInv ==
  /\ TypeOK /\ RowsAreBacked /\ RunIsBacked
  /\ \A p \in Procs : Active(p) => ProcessIsBacked(proc[p])
  /\ ~overlap => \A p, q \in Procs : Active(p) /\ Active(q) => p = q

-----------------------------------------------------------------------------
(* Rows and records.                                                       *)

\* A row is not the missing row.
LEMMA NilIsNoRecord == Nil \notin Process /\ Nil \notin Target /\ Nil \notin Run
<1>1. "none" \in DOMAIN Nil
  BY DEF Nil
<1>2. /\ \A x \in Process : "none" \notin DOMAIN x
      /\ \A x \in Target : "none" \notin DOMAIN x
      /\ \A x \in Run : "none" \notin DOMAIN x
  BY DEF Process, Target, Run
<1>3. QED
  BY <1>1, <1>2

\* A target's first expected day is one of them and none is earlier.
LEMMA FirstIsEarliest ==
  ASSUME NEW t \in Targets
  PROVE  First(t) \in Expected[t] /\ \A d \in Expected[t] : First(t) <= d
<1>1. Expected[t] \subseteq Nat /\ Expected[t] # {}
  BY ExpectedAssumption
<1>2. IsWellFoundedOn(OpToRel(<, Nat), Nat)
  BY NatLessThanWellFounded
<1>3. PICK d \in Expected[t] : \A e \in Expected[t] : ~ (<<e, d>> \in OpToRel(<, Nat))
  BY <1>1, <1>2, WFMin
<1>4. \A e \in Expected[t] : ~ (e < d)
  BY <1>1, <1>3 DEF OpToRel
<1>5. \E f \in Expected[t] : \A e \in Expected[t] : f <= e
  BY <1>1, <1>4
<1>6. QED
  BY <1>5 DEF First

\* What an UPDATE leaves of a run's row; all of the new one, if nobody wrote
\* in between.
LEMMA WrittenRun ==
  ASSUME NEW row \in Run, NEW loaded \in Run, NEW new \in Run
  PROVE  LET w == Written(row, loaded, new) IN
         /\ w \in Run
         /\ w.status \in {row.status, new.status}
         /\ w.budget \in {row.budget, new.budget}
         /\ w.used \in {row.used, new.used}
         /\ row = loaded => w = new
<1>1. DOMAIN row = {"status", "budget", "used"}
  BY DEF Run
<1>2. /\ Written(row, loaded, new) \in Run
      /\ Written(row, loaded, new).status \in {row.status, new.status}
      /\ Written(row, loaded, new).budget \in {row.budget, new.budget}
      /\ Written(row, loaded, new).used \in {row.used, new.used}
  BY <1>1 DEF Written, Run
<1>3. Written(row, row, new) = new
  BY <1>1 DEF Written, Run
<1>4. QED
  BY <1>2, <1>3

\* The same of a target's row.
LEMMA WrittenTarget ==
  ASSUME NEW row \in Target, NEW loaded \in Target, NEW new \in Target
  PROVE  LET w == Written(row, loaded, new) IN
         /\ w \in Target
         /\ w.status \in {row.status, new.status}
         /\ w.confirmed \in {row.confirmed, new.confirmed}
         /\ row = loaded => w = new
<1>1. DOMAIN row = {"status", "confirmed"}
  BY DEF Target
<1>2. /\ Written(row, loaded, new) \in Target
      /\ Written(row, loaded, new).status \in {row.status, new.status}
      /\ Written(row, loaded, new).confirmed \in {row.confirmed, new.confirmed}
  BY <1>1 DEF Written, Target
<1>3. Written(row, row, new) = new
  BY <1>1 DEF Written, Target
<1>4. QED
  BY <1>2, <1>3

\* An UPDATE of a backed row with a backed one leaves a backed row.
LEMMA WrittenIsBacked ==
  ASSUME NEW t \in Targets, NEW row \in Target, NEW loaded \in Target, NEW new \in Target,
         RowIsBacked(t, row), RowIsBacked(t, new)
  PROVE  RowIsBacked(t, Written(row, loaded, new))
<1>1. /\ Written(row, loaded, new).status \in {row.status, new.status}
      /\ Written(row, loaded, new).confirmed \in {row.confirmed, new.confirmed}
  BY WrittenTarget
<1>2. QED
  BY <1>1 DEF RowIsBacked

\* What an active process has loaded has the types of the rows.
LEMMA ActiveProcess ==
  ASSUME TypeOK, NEW p \in Procs, Active(p)
  PROVE  /\ proc[p] \in Process /\ proc[p].base \in Run /\ proc[p].mine \in Run
         /\ proc[p].at \in 1..(TargetCount + 1)
         /\ \A t \in Targets : /\ Seen(p, t) \in Target
                               /\ proc[p].targets[t] # Nil => proc[p].targets[t] = Seen(p, t)
                               /\ proc[p].targets[t] = Nil => target[t] = Seen(p, t)
<1>1. proc[p] \in Process
  BY DEF TypeOK, Active
<1>2. proc[p].base \in Run /\ proc[p].mine \in Run /\ proc[p].at \in 1..(TargetCount + 1)
      /\ proc[p].targets \in [Targets -> Target \cup {Nil}]
  BY <1>1 DEF Process
<1>3. \A t \in Targets : target[t] \in Target
  BY DEF TypeOK
<1>4. QED
  BY <1>1, <1>2, <1>3 DEF Seen

\* A loaded row is backed, and is the database's row while nothing overlaps.
LEMMA SeenIsBacked ==
  ASSUME BackfillInv, NEW p \in Procs, Active(p), NEW t \in Targets
  PROVE  Seen(p, t) \in Target /\ RowIsBacked(t, Seen(p, t))
         /\ (~overlap => Seen(p, t) = target[t])
<1>1. TypeOK /\ RowsAreBacked /\ ProcessIsBacked(proc[p])
  BY DEF BackfillInv
<1>2. Seen(p, t) \in Target
  BY <1>1, ActiveProcess
<1>3. RowIsBacked(t, Seen(p, t))
  BY <1>1 DEF Seen, ProcessIsBacked, CopiesAreBacked, RowsAreBacked
<1>4. ~overlap => Seen(p, t) = target[t]
  BY <1>1 DEF Seen, ProcessIsBacked, CopiesAreCurrent
<1>5. QED
  BY <1>2, <1>3, <1>4

-----------------------------------------------------------------------------
(* One process steps.                                                      *)

\* Once overlapping, what a process has loaded stays backed while others
\* store prices, charge requests and are approved budget.
LEMMA OthersStayBacked ==
  ASSUME NEW x, ProcessIsBacked(x), x \in Process, overlap', TypeOK,
         \A t \in Targets : Priced(t) \subseteq Priced(t)',
         held' = held, approved' \in Nat, made' \in Nat, approved <= approved', made <= made'
  PROVE  ProcessIsBacked(x)'
<1>1. /\ x.base.budget \in Nat /\ x.mine.budget \in Nat
      /\ x.base.used \in Nat /\ x.mine.used \in Nat /\ approved \in Nat /\ made \in Nat
  BY DEF Process, Run, TypeOK
<1>2. CopiesAreBacked(x)'
  BY DEF ProcessIsBacked, CopiesAreBacked, RowIsBacked
<1>3. PagesAreBacked(x)'
  BY DEF ProcessIsBacked, PagesAreBacked
<1>4. ChargesAreBacked(x)'
  BY <1>1 DEF ProcessIsBacked, ChargesAreBacked
<1>5. CopiesAreCurrent(x)'
  BY DEF CopiesAreCurrent
<1>6. QED
  BY <1>2, <1>3, <1>4, <1>5 DEF ProcessIsBacked

\* A step of a process, which ends with x or gone, keeps the invariant if it
\* keeps what the invariant says of the database and of the process itself.
LEMMA ProcessSteps ==
  ASSUME BackfillInv, NEW p \in Procs, Active(p), NEW x \in Process \cup {Nil},
         proc' = [proc EXCEPT ![p] = x], TypeOK', RowsAreBacked', RunIsBacked',
         \A t \in Targets : Priced(t) \subseteq Priced(t)', made <= made',
         UNCHANGED <<held, approved, overlap>>,
         x # Nil => ProcessIsBacked(x)'
  PROVE  BackfillInv'
<1>1. /\ TypeOK /\ proc \in [Procs -> Process \cup {Nil}]
      /\ approved \in Nat /\ made' \in Nat
  BY DEF BackfillInv, TypeOK
<1>2. proc'[p] = x /\ \A q \in Procs : q # p => proc'[q] = proc[q]
  BY <1>1
<1>3. ASSUME NEW q \in Procs, NEW y \in Process, proc'[q] = y
      PROVE  ProcessIsBacked(y)'
  <2>1. CASE q = p
    BY <1>2, <1>3, <2>1, NilIsNoRecord
  <2>2. CASE q # p
    <3>1. proc[q] = y /\ Active(q)
      BY <1>2, <1>3, <2>2, NilIsNoRecord DEF Active
    <3>2. overlap' /\ ProcessIsBacked(y)
      BY <2>2, <3>1 DEF BackfillInv
    <3>3. QED
      BY <1>1, <3>2, OthersStayBacked
  <2>3. QED
    BY <2>1, <2>2
<1>4. ~overlap' => \A q, r \in Procs : Active(q)' /\ Active(r)' => q = r
  BY <1>2 DEF BackfillInv, Active
<1>5. \A q \in Procs : proc'[q] # Nil => proc'[q] \in Process
  BY DEF TypeOK
<1>6. \A q \in Procs : Active(q)' => ProcessIsBacked(proc[q])'
  BY <1>3, <1>5 DEF Active
<1>7. QED
  BY <1>4, <1>6 DEF BackfillInv

\* A step that changes nothing but the process, and at most asks the source,
\* keeps the invariant if it keeps what the invariant says of the process.
LEMMA QuietSteps ==
  ASSUME BackfillInv, NEW p \in Procs, Active(p), NEW x \in Process \cup {Nil},
         proc' = [proc EXCEPT ![p] = x],
         UNCHANGED <<run, target, price, conflicts, held, approved, overlap>>,
         made' \in made..MaxMade,
         x # Nil => /\ CopiesAreBacked(x) /\ PagesAreBacked(x) /\ CopiesAreCurrent(x)
                    /\ ChargesAreBacked(x)'
  PROVE  BackfillInv'
<1>1. TypeOK'
  BY DEF BackfillInv, TypeOK
<1>2. RowsAreBacked'
  BY DEF BackfillInv, RowsAreBacked, RowIsBacked, Priced
<1>3. RunIsBacked'
  BY DEF BackfillInv, TypeOK, Run, RunIsBacked, RequestsAreCounted, RunOutcomeIsEarned
<1>4. made <= made' /\ \A t \in Targets : Priced(t) \subseteq Priced(t)'
  BY DEF BackfillInv, TypeOK, Priced
<1>5. x # Nil => ProcessIsBacked(x)'
  BY DEF ProcessIsBacked, CopiesAreBacked, RowIsBacked, Priced, PagesAreBacked, CopiesAreCurrent
<1>6. QED
  BY <1>1, <1>2, <1>3, <1>4, <1>5, ProcessSteps

\* The next target; its row is loaded now if it was not.
LEMMA SkipKeepsBackfill ==
  ASSUME BackfillInv, NEW p \in Procs, SkipTarget(p)
  PROVE  BackfillInv'
<1> DEFINE t == Current(p)
           X == [proc[p] EXCEPT !.at = @ + 1, !.targets[t] = Seen(p, t)]
<1>1. Active(p) /\ t \in Targets /\ proc[p].pc = "next" /\ t = proc[p].at
  BY DEF SkipTarget, At, Current
<1>2. proc[p] \in Process /\ Seen(p, t) \in Target /\ ProcessIsBacked(proc[p])
  BY <1>1, SeenIsBacked, ActiveProcess DEF BackfillInv
<1>3. /\ X \in Process /\ X.pc = "next" /\ X.base = proc[p].base /\ X.mine = proc[p].mine
      /\ X.remaining = proc[p].remaining /\ X.page = proc[p].page
      /\ \A u \in Targets : X.targets[u] = IF u = t THEN Seen(p, t) ELSE proc[p].targets[u]
  <2>1. t \in 1..TargetCount /\ t + 1 \in 1..(TargetCount + 1)
    BY <1>1 DEF Targets
  <2>2. proc[p].targets \in [Targets -> Target \cup {Nil}]
    BY <1>2 DEF Process
  <2>3. QED
    BY <1>1, <1>2, <2>1, <2>2 DEF Process
<1>4. PICK x \in Process : x = X
  BY <1>3
<1>5. proc' = [proc EXCEPT ![p] = x]
  BY <1>4 DEF SkipTarget
<1> HIDE DEF X
<1>6. CopiesAreBacked(x)
  BY <1>1, <1>2, <1>3, <1>4, SeenIsBacked DEF ProcessIsBacked, CopiesAreBacked
<1>7. PagesAreBacked(x)
  BY <1>1, <1>2, <1>3, <1>4 DEF ProcessIsBacked, PagesAreBacked, Working
<1>8. CopiesAreCurrent(x)
  BY <1>1, <1>2, <1>3, <1>4, SeenIsBacked DEF ProcessIsBacked, CopiesAreCurrent, Working
<1>9. ChargesAreBacked(x)'
  BY <1>2, <1>3, <1>4 DEF SkipTarget, ProcessIsBacked, ChargesAreBacked
<1>10. made' \in made..MaxMade
  BY DEF SkipTarget, BackfillInv, TypeOK
<1>11. QED
  BY <1>1, <1>5, <1>6, <1>7, <1>8, <1>9, <1>10, QuietSteps DEF SkipTarget

\* The source is read for a target that is open: while nothing overlaps, the
\* run has no outcome yet.
LEMMA FacingIsOpen ==
  ASSUME BackfillInv, NEW p \in Procs, NEW t \in Targets, Facing(p, t)
  PROVE  /\ Active(p) /\ proc[p].pc = "next" /\ t = proc[p].at /\ proc[p] \in Process
         /\ ~overlap => run.status \notin Over
<1>1. /\ Active(p) /\ proc[p].pc = "next" /\ t = proc[p].at /\ proc[p] \in Process
      /\ Seen(p, t).status \in {"pending", "running"}
  BY ActiveProcess DEF Facing, At, Current, BackfillInv
<1>2. ~overlap => target[t].status \notin {"completed", "failed"}
  BY <1>1, SeenIsBacked
<1>3. QED
  BY <1>1, <1>2 DEF BackfillInv, RunIsBacked, RunOutcomeIsEarned

\* The reading of a target starts with all the source holds to come.
LEMMA OpenKeepsBackfill ==
  ASSUME BackfillInv, NEW p \in Procs, OpenPages(p)
  PROVE  BackfillInv'
<1>1. PICK t \in Targets \ Unresolved :
        /\ Facing(p, t)
        /\ proc' = [proc EXCEPT ![p] =
             [@ EXCEPT !.pc = "fetch", !.limit = proc[p].remaining, !.asked = 0,
                       !.left = held[t], !.targets[t] = Seen(p, t)]]
  BY DEF OpenPages
<1> DEFINE X == [proc[p] EXCEPT !.pc = "fetch", !.limit = proc[p].remaining, !.asked = 0,
                   !.left = held[t], !.targets[t] = Seen(p, t)]
<1>2. /\ Active(p) /\ proc[p].pc = "next" /\ t = proc[p].at
      /\ ~overlap => run.status \notin Over
  BY <1>1, FacingIsOpen
<1>3. /\ proc[p] \in Process /\ Seen(p, t) \in Target /\ ProcessIsBacked(proc[p])
      /\ held[t] \in SUBSET Days /\ proc \in [Procs -> Process \cup {Nil}]
  BY <1>2, SeenIsBacked, ActiveProcess DEF BackfillInv, TypeOK
<1>4. /\ X \in Process /\ X.pc = "fetch" /\ X.at = t /\ X.base = proc[p].base
      /\ X.mine = proc[p].mine /\ X.remaining = proc[p].remaining
      /\ X.left = held[t] /\ X.page = proc[p].page /\ X.asked = 0 /\ X.limit \in Nat
      /\ \A u \in Targets : X.targets[u] = IF u = t THEN Seen(p, t) ELSE proc[p].targets[u]
  <2>1. proc[p].targets \in [Targets -> Target \cup {Nil}] /\ proc[p].remaining \in 0..MaxBudget
    BY <1>3 DEF Process
  <2>2. 0 \in 0..MaxBudget
    OBVIOUS
  <2>3. X \in Process
    BY <1>2, <1>3, <2>1, <2>2 DEF Process
  <2>4. /\ X.pc = "fetch" /\ X.at = t /\ X.base = proc[p].base
        /\ X.mine = proc[p].mine /\ X.remaining = proc[p].remaining
        /\ X.left = held[t] /\ X.page = proc[p].page /\ X.asked = 0 /\ X.limit = proc[p].remaining
    BY <1>2, <1>3 DEF Process
  <2>5. \A u \in Targets : X.targets[u] = IF u = t THEN Seen(p, t) ELSE proc[p].targets[u]
    BY <1>3, <2>1 DEF Process
  <2>6. QED
    BY <2>1, <2>3, <2>4, <2>5
<1>5. PICK x \in Process : x = X
  BY <1>4
<1>6. proc' = [proc EXCEPT ![p] = x]
  BY <1>1, <1>5
<1> HIDE DEF X
<1>7. CopiesAreBacked(x)
  BY <1>2, <1>3, <1>4, <1>5, SeenIsBacked DEF ProcessIsBacked, CopiesAreBacked
<1>8. PagesAreBacked(x)
  <2>1. proc[p].page = {}
    BY <1>2, <1>3 DEF ProcessIsBacked, PagesAreBacked
  <2>2. x.at = t /\ x.page = {} /\ x.left = held[t] /\ x.pc = "fetch" /\ x.asked <= x.limit
    BY <1>4, <1>5, <2>1
  <2>3. QED
    BY <2>2 DEF PagesAreBacked
<1>9. CopiesAreCurrent(x)
  BY <1>2, <1>3, <1>4, <1>5, SeenIsBacked DEF ProcessIsBacked, CopiesAreCurrent, Working
<1>10. ChargesAreBacked(x)'
  BY <1>3, <1>4, <1>5 DEF OpenPages, ProcessIsBacked, ChargesAreBacked
<1>11. made' \in made..MaxMade
  BY DEF OpenPages, BackfillInv, TypeOK
<1>12. QED
  BY <1>2, <1>6, <1>7, <1>8, <1>9, <1>10, <1>11, QuietSteps DEF OpenPages

\* A process that reads on has loaded nothing new and charges what it asked.
LEMMA ReadingSteps ==
  ASSUME BackfillInv, NEW p \in Procs, Active(p), NEW x \in Process, NEW d \in {0, 1},
         proc' = [proc EXCEPT ![p] = x],
         UNCHANGED <<run, target, price, conflicts, held, approved, overlap>>,
         made + d <= made', made' \in 0..MaxMade,
         x.base = proc[p].base, x.targets = proc[p].targets,
         x.mine = [proc[p].mine EXCEPT !.used = @ + d], x.remaining = proc[p].remaining - d,
         x.pc \in Working => proc[p].pc \in Working,
         PagesAreBacked(x)
  PROVE  BackfillInv'
<1>1. proc[p] \in Process /\ ProcessIsBacked(proc[p]) /\ made \in Nat /\ approved \in Nat
  BY ActiveProcess DEF BackfillInv, TypeOK
<1>2. /\ proc[p].mine \in Run /\ proc[p].mine.used \in Nat /\ proc[p].base.used \in Nat
      /\ proc[p].remaining \in Nat
  BY <1>1 DEF Process, Run
<1>3. /\ x.mine.used = proc[p].mine.used + d /\ x.mine.status = proc[p].mine.status
      /\ x.mine.budget = proc[p].mine.budget
  BY <1>2 DEF Run
<1>4. CopiesAreBacked(x) /\ CopiesAreCurrent(x)
  BY <1>1, <1>3 DEF ProcessIsBacked, CopiesAreBacked, CopiesAreCurrent
<1>5. ChargesAreBacked(x)'
  BY <1>1, <1>2, <1>3 DEF ProcessIsBacked, ChargesAreBacked
<1>6. made' \in made..MaxMade
  BY <1>1
<1>7. QED
  BY <1>4, <1>5, <1>6, QuietSteps

\* An answered request is charged once; with the limit not yet reached nothing
\* else of the process changes.
LEMMA AnsweredProcess ==
  ASSUME BackfillInv, NEW p \in Procs, MayAsk(p), made < MaxMade
  PROVE  \E d \in {0, 1} : \E a \in Process :
           /\ a = Answered(p) /\ made + 1 \in 0..MaxMade
           /\ a.base = proc[p].base /\ a.targets = proc[p].targets
           /\ a.mine = [proc[p].mine EXCEPT !.used = @ + d] /\ a.remaining = proc[p].remaining - d
           /\ a.at = proc[p].at /\ a.left = proc[p].left /\ a.page = proc[p].page
           /\ a.limit = proc[p].limit /\ a.asked <= a.limit
<1>1. /\ Active(p) /\ proc[p] \in Process /\ ProcessIsBacked(proc[p]) /\ made \in Nat
      /\ proc[p].asked < proc[p].limit
  BY ActiveProcess DEF BackfillInv, TypeOK, MayAsk, At
<1>2. /\ proc[p].mine \in Run /\ proc[p].mine.used \in Nat /\ proc[p].mine.used <= made
      /\ proc[p].remaining \in 0..MaxBudget /\ proc[p].asked \in 0..MaxBudget
      /\ proc[p].limit \in 0..MaxBudget
  BY <1>1 DEF Process, Run, ProcessIsBacked, ChargesAreBacked
<1>3. PICK d \in {0, 1} : /\ d = Charge(proc[p].asked + 1, proc[p].asked, proc[p].remaining)
                          /\ d <= proc[p].remaining
  BY <1>2 DEF Charge
<1> DEFINE X == [proc[p] EXCEPT !.asked = proc[p].asked + 1, !.remaining = @ - d,
                                !.mine.used = @ + d]
<1>4. Answered(p) = X
  BY <1>3 DEF Answered
<1>5. [proc[p].mine EXCEPT !.used = @ + d] \in Run
  <2>1. proc[p].mine.used + d \in 0..MaxMade
    BY <1>1, <1>2, <1>3
  <2>2. QED
    BY <1>2, <2>1 DEF Run
<1>6. proc[p].remaining - d \in 0..MaxBudget /\ proc[p].asked + 1 \in 0..MaxBudget
  BY <1>1, <1>2, <1>3
<1>7. X = [proc[p] EXCEPT !.asked = proc[p].asked + 1, !.remaining = proc[p].remaining - d,
                          !.mine = [proc[p].mine EXCEPT !.used = @ + d]]
  BY <1>1 DEF Process
<1>8. /\ X \in Process /\ X.asked = proc[p].asked + 1
      /\ X.base = proc[p].base /\ X.targets = proc[p].targets
      /\ X.mine = [proc[p].mine EXCEPT !.used = @ + d] /\ X.remaining = proc[p].remaining - d
      /\ X.at = proc[p].at /\ X.left = proc[p].left /\ X.page = proc[p].page
      /\ X.limit = proc[p].limit
  BY <1>1, <1>5, <1>6, <1>7 DEF Process
<1>9. made + 1 \in 0..MaxMade /\ proc[p].asked + 1 <= proc[p].limit
  BY <1>1, <1>2
<1> HIDE DEF X
<1>10. QED
  BY <1>3, <1>4, <1>8, <1>9

\* Steps of the page iterator: an answer moves days from what is to come to
\* the page in hand, newest first, and the first expected day ends them.
LEMMA AnswerPageKeepsBackfill ==
  ASSUME BackfillInv, NEW p \in Procs, AnswerPage(p)
  PROVE  BackfillInv'
<1>1. MayAsk(p) /\ made < MaxMade /\ Active(p) /\ proc[p].pc = "fetch"
  BY DEF AnswerPage, MayAsk, At
<1>2. /\ proc[p] \in Process /\ PagesAreBacked(proc[p]) /\ RowsAreBacked
      /\ proc \in [Procs -> Process \cup {Nil}]
  BY <1>1, ActiveProcess DEF BackfillInv, ProcessIsBacked, TypeOK
<1>3. PICK d \in {0, 1}, a \in Process :
        /\ a = Answered(p) /\ made + 1 \in 0..MaxMade
        /\ a.base = proc[p].base /\ a.targets = proc[p].targets
        /\ a.mine = [proc[p].mine EXCEPT !.used = @ + d] /\ a.remaining = proc[p].remaining - d
        /\ a.at = proc[p].at /\ a.left = proc[p].left /\ a.page = proc[p].page
        /\ a.limit = proc[p].limit /\ a.asked <= a.limit
  BY <1>1, AnsweredProcess
<1>4. PICK rest \in SUBSET proc[p].left,
           reason \in {"more", "pagination_anomaly"} \cup Complete :
        /\ \A f \in proc[p].left \ rest, e \in rest : e < f
        /\ reason \in Complete => rest = {}
        /\ proc' = [proc EXCEPT ![p] =
             [a EXCEPT !.pc = "store", !.page = proc[p].left \ rest, !.left = rest,
                       !.reason = reason]]
  <2>1. PICK rest \in SUBSET proc[p].left :
          /\ \A f \in proc[p].left \ rest, e \in rest : e < f
          /\ \E reason \in {"more", "pagination_anomaly"} \cup (IF rest = {} THEN Complete ELSE {}) :
               proc' = [proc EXCEPT ![p] =
                 [a EXCEPT !.pc = "store", !.page = proc[p].left \ rest, !.left = rest,
                           !.reason = reason]]
    BY <1>3, Zenon DEF AnswerPage
  <2>2. PICK reason \in {"more", "pagination_anomaly"} \cup (IF rest = {} THEN Complete ELSE {}) :
          proc' = [proc EXCEPT ![p] =
            [a EXCEPT !.pc = "store", !.page = proc[p].left \ rest, !.left = rest,
                      !.reason = reason]]
    BY <2>1, Zenon
  <2>3. /\ reason \in {"more", "pagination_anomaly"} \cup Complete
        /\ reason \in Complete => rest = {}
    BY <2>2 DEF Complete
  <2>4. QED
    BY <2>1, <2>2, <2>3, Zenon
<1> DEFINE X == [a EXCEPT !.pc = "store", !.page = proc[p].left \ rest, !.left = rest,
                          !.reason = reason]
<1>5. X \in Process
  <2>1. proc[p].left \ rest \in SUBSET Days /\ rest \in SUBSET Days /\ reason \in Reasons
    BY <1>2, <1>4 DEF Process, Reasons
  <2>2. QED
    BY <1>3, <2>1 DEF Process
<1>6. /\ X.base = a.base /\ X.targets = a.targets /\ X.mine = a.mine /\ X.remaining = a.remaining
      /\ X.at = a.at /\ X.limit = a.limit /\ X.asked = a.asked
      /\ X.pc = "store" /\ X.page = proc[p].left \ rest /\ X.left = rest /\ X.reason = reason
  BY <1>3 DEF Process
<1>7. PICK x \in Process : x = X
  BY <1>5
<1>8. proc' = [proc EXCEPT ![p] = x]
  BY <1>4, <1>7
<1> HIDE DEF X
<1>9. PagesAreBacked(x)
  <2>1. /\ x.at = proc[p].at /\ x.left \cup x.page = proc[p].left /\ proc[p].page = {}
        /\ x.left = rest /\ x.page = proc[p].left \ rest
        /\ x.reason = reason /\ x.pc = "store" /\ x.asked <= x.limit
    BY <1>1, <1>2, <1>3, <1>6, <1>7 DEF PagesAreBacked
  <2>2. x.at \in Targets \ Unresolved /\ proc[p].left \subseteq held[x.at]
    BY <1>1, <1>2, <2>1 DEF PagesAreBacked, Working
  <2>3. First(x.at) \in x.page => x.left = {}
    <3>1. SUFFICES ASSUME First(x.at) \in x.page, NEW e \in rest PROVE FALSE
      BY <2>1
    <3>2. e < First(x.at)
      BY <1>4, <2>1, <3>1
    <3>3. e \in Expected[x.at]
      BY <1>2, <2>2, <3>1 DEF RowsAreBacked
    <3>4. First(x.at) <= e /\ First(x.at) \in Nat /\ e \in Nat
      BY <2>2, <3>3, FirstIsEarliest, ExpectedAssumption
    <3>5. QED
      BY <3>2, <3>4
  <2>4. /\ held[x.at] \ (x.left \cup x.page) \subseteq Priced(x.at)
        /\ ~overlap => held[x.at] \ (x.left \cup x.page)
                         \subseteq target[x.at].confirmed \cup conflicts[x.at]
    BY <1>1, <1>2, <2>1 DEF PagesAreBacked, Working
  <2>5. x.reason \in Complete => x.left = {}
    BY <1>4, <2>1
  <2>6. QED
    BY <2>1, <2>2, <2>3, <2>4, <2>5 DEF PagesAreBacked
<1>10. /\ x.base = proc[p].base /\ x.targets = proc[p].targets
       /\ x.mine = [proc[p].mine EXCEPT !.used = @ + d] /\ x.remaining = proc[p].remaining - d
  BY <1>3, <1>6, <1>7
<1>11. /\ UNCHANGED <<run, target, price, conflicts, held, approved, overlap>>
       /\ made' = made + 1 /\ made' \in 0..MaxMade
  BY <1>3 DEF AnswerPage
<1>12. proc[p].pc \in Working
  BY <1>1 DEF Working
<1>13. made \in Nat /\ made + d <= made'
  BY <1>11 DEF BackfillInv, TypeOK
<1>14. QED
  BY <1>1, <1>8, <1>9, <1>10, <1>11, <1>12, <1>13, ReadingSteps

\* An answer without usable rows ends the target where it stands.
LEMMA AnswerUnusableKeepsBackfill ==
  ASSUME BackfillInv, NEW p \in Procs, AnswerUnusable(p)
  PROVE  BackfillInv'
<1>1. MayAsk(p) /\ made < MaxMade /\ Active(p) /\ proc[p].pc = "fetch"
  BY DEF AnswerUnusable, MayAsk, At
<1>2. proc[p] \in Process /\ PagesAreBacked(proc[p])
  BY <1>1, ActiveProcess DEF BackfillInv, ProcessIsBacked
<1>3. PICK d \in {0, 1}, a \in Process :
        /\ a = Answered(p) /\ made + 1 \in 0..MaxMade
        /\ a.base = proc[p].base /\ a.targets = proc[p].targets
        /\ a.mine = [proc[p].mine EXCEPT !.used = @ + d] /\ a.remaining = proc[p].remaining - d
        /\ a.at = proc[p].at /\ a.left = proc[p].left /\ a.page = proc[p].page
        /\ a.limit = proc[p].limit /\ a.asked <= a.limit
  BY <1>1, AnsweredProcess
<1>4. PICK reason \in {"provider_unsupported", "pagination_anomaly"} :
        proc' = [proc EXCEPT ![p] = [a EXCEPT !.pc = "ended", !.reason = reason]]
  BY <1>3 DEF AnswerUnusable
<1> DEFINE X == [a EXCEPT !.pc = "ended", !.reason = reason]
<1>5. /\ X \in Process
      /\ X.base = a.base /\ X.targets = a.targets /\ X.mine = a.mine /\ X.remaining = a.remaining
      /\ X.at = a.at /\ X.limit = a.limit /\ X.asked = a.asked
      /\ X.pc = "ended" /\ X.page = a.page /\ X.left = a.left /\ X.reason \notin Complete
  <2>1. reason \in Reasons /\ reason \notin Complete
    BY DEF Reasons, Failure, Complete
  <2>2. QED
    BY <1>3, <2>1 DEF Process
<1>6. PICK x \in Process : x = X
  BY <1>5
<1>7. proc' = [proc EXCEPT ![p] = x]
  BY <1>4, <1>6
<1> HIDE DEF X
<1>8. PagesAreBacked(x) /\ proc[p].pc \in Working
  BY <1>1, <1>2, <1>3, <1>5, <1>6 DEF PagesAreBacked, Working
<1>9. /\ x.base = proc[p].base /\ x.targets = proc[p].targets
      /\ x.mine = [proc[p].mine EXCEPT !.used = @ + d] /\ x.remaining = proc[p].remaining - d
  BY <1>3, <1>5, <1>6
<1>10. /\ UNCHANGED <<run, target, price, conflicts, held, approved, overlap>>
       /\ made' = made + 1 /\ made' \in 0..MaxMade /\ made \in Nat
  BY <1>3 DEF AnswerUnusable, BackfillInv, TypeOK
<1>11. made + d <= made'
  BY <1>10
<1>12. QED
  BY <1>1, <1>7, <1>8, <1>9, <1>10, <1>11, ReadingSteps

\* Without an answer nothing is charged: the iterator ends, an empty page is
\* passed over, a target is left as it is.
LEMMA NoAnswerKeepsBackfill ==
  ASSUME BackfillInv, NEW p \in Procs,
         FetchFails(p) \/ BudgetEnds(p) \/ PassPage(p) \/ LeaveTarget(p)
  PROVE  BackfillInv'
<1>1. /\ Active(p) /\ proc[p].pc \in Working
      /\ UNCHANGED <<run, target, price, conflicts, held, made, approved, overlap>>
  BY DEF FetchFails, BudgetEnds, PassPage, LeaveTarget, MayAsk, At, Working
<1>2. /\ proc[p] \in Process /\ PagesAreBacked(proc[p]) /\ made \in 0..MaxMade
      /\ proc[p].mine \in Run /\ proc[p].remaining \in Nat /\ proc[p].at \in Targets
      /\ proc \in [Procs -> Process \cup {Nil}]
  BY <1>1, ActiveProcess DEF BackfillInv, ProcessIsBacked, PagesAreBacked, TypeOK, Process
<1>3. \E x \in Process :
        /\ proc' = [proc EXCEPT ![p] = x] /\ PagesAreBacked(x)
        /\ x.base = proc[p].base /\ x.targets = proc[p].targets
        /\ x.mine = proc[p].mine /\ x.remaining = proc[p].remaining
  <2>1. CASE FetchFails(p) \/ BudgetEnds(p)
    <3>1. PICK reason \in {"fetch_failed", "request_budget_exhausted"} :
            proc' = [proc EXCEPT ![p].pc = "ended", ![p].reason = reason]
      BY <2>1 DEF FetchFails, BudgetEnds
    <3> DEFINE X == [proc[p] EXCEPT !.pc = "ended", !.reason = reason]
    <3>2. /\ X \in Process
          /\ X.base = proc[p].base /\ X.targets = proc[p].targets /\ X.mine = proc[p].mine
          /\ X.remaining = proc[p].remaining
          /\ X.at = proc[p].at /\ X.limit = proc[p].limit /\ X.asked = proc[p].asked
          /\ X.pc = "ended" /\ X.page = proc[p].page /\ X.left = proc[p].left
          /\ X.reason \notin Complete
      BY <1>2 DEF Process, Reasons, Failure, Complete
    <3>3. proc' = [proc EXCEPT ![p] = X]
      BY <1>2, <3>1
    <3> HIDE DEF X
    <3>4. PagesAreBacked(X)
      BY <1>2, <2>1, <3>2 DEF PagesAreBacked, FetchFails, BudgetEnds, MayAsk, At, Working
    <3>5. QED
      BY <3>2, <3>3, <3>4
  <2>2. CASE PassPage(p)
    <3> DEFINE X == AfterPage(p)
    <3>1. /\ X \in Process
          /\ X.base = proc[p].base /\ X.targets = proc[p].targets /\ X.mine = proc[p].mine
          /\ X.remaining = proc[p].remaining
          /\ X.at = proc[p].at /\ X.limit = proc[p].limit /\ X.asked = proc[p].asked
          /\ X.pc = (IF proc[p].reason = "more" THEN "fetch" ELSE "ended")
          /\ X.page = {} /\ X.left = proc[p].left /\ X.reason = proc[p].reason
      BY <1>2 DEF Process, AfterPage
    <3>2. proc' = [proc EXCEPT ![p] = X]
      BY <2>2 DEF PassPage
    <3> HIDE DEF X
    <3>3. PagesAreBacked(X)
      BY <1>2, <2>2, <3>1 DEF PagesAreBacked, PassPage, At, Working
    <3>4. QED
      BY <3>1, <3>2, <3>3
  <2>3. CASE LeaveTarget(p)
    <3> DEFINE X == [proc[p] EXCEPT !.pc = "next", !.at = @ + 1]
    <3>1. proc[p].at + 1 \in 1..(TargetCount + 1)
      BY <1>2 DEF Targets
    <3>2. /\ X \in Process
          /\ X.base = proc[p].base /\ X.targets = proc[p].targets /\ X.mine = proc[p].mine
          /\ X.remaining = proc[p].remaining /\ X.pc = "next" /\ X.page = proc[p].page
      BY <1>2, <3>1 DEF Process
    <3>3. proc' = [proc EXCEPT ![p] = X]
      BY <1>2, <2>3 DEF LeaveTarget
    <3> HIDE DEF X
    <3>4. PagesAreBacked(X)
      BY <1>2, <2>3, <3>2 DEF PagesAreBacked, LeaveTarget, At, Working
    <3>5. QED
      BY <3>2, <3>3, <3>4
  <2>4. QED
    BY <2>1, <2>2, <2>3
<1>4. PICK x \in Process :
        /\ proc' = [proc EXCEPT ![p] = x] /\ PagesAreBacked(x)
        /\ x.base = proc[p].base /\ x.targets = proc[p].targets
        /\ x.mine = proc[p].mine /\ x.remaining = proc[p].remaining
  BY <1>3
<1>5. x.mine = [proc[p].mine EXCEPT !.used = @ + 0] /\ x.remaining = proc[p].remaining - 0
  BY <1>2, <1>4 DEF Run
<1>6. made + 0 <= made' /\ made' \in 0..MaxMade
  BY <1>1, <1>2
<1>7. QED
  BY <1>1, <1>4, <1>5, <1>6, ReadingSteps

-----------------------------------------------------------------------------
(* Commits.                                                                *)

\* A commit leaves a run's row within what was approved and made; alone, it
\* leaves the process's own.
LEMMA CommittedRun ==
  ASSUME BackfillInv, NEW p \in Procs, Active(p), NEW mine \in Run,
         mine.budget <= approved, mine.used <= made, ~overlap => mine.used <= approved,
         run' = Written(run, proc[p].base, mine)
  PROVE  /\ run' \in Run /\ run'.budget <= approved /\ run'.used <= made
         /\ ~overlap => run' = mine /\ run'.used <= approved
<1>1. /\ run \in Run /\ proc[p].base \in Run /\ ProcessIsBacked(proc[p])
      /\ run.budget <= approved /\ run.used <= made
  BY ActiveProcess DEF BackfillInv, TypeOK, RunIsBacked, RequestsAreCounted
<1>2. ~overlap => run = proc[p].base
  BY <1>1 DEF ProcessIsBacked, CopiesAreCurrent
<1>3. QED
  BY <1>1, <1>2, WrittenRun

\* The commit of a target's row, and of what its page stored, keeps the
\* invariant if the row is backed by what is stored then.
LEMMA CommitKeepsBackfill ==
  ASSUME BackfillInv, NEW p \in Procs, Active(p), NEW t \in Targets,
         ~overlap => run.status \notin Over,
         NEW row \in Target, NEW y \in Process, CommitTarget(p, t, row, y),
         y.targets = proc[p].targets, y.remaining = proc[p].remaining,
         price' \in [Targets -> [Days -> {"none", "same", "differs"}]],
         conflicts' \in [Targets -> SUBSET Days],
         \A u \in Targets : Priced(u) \subseteq Priced(u)' /\ conflicts'[u] \subseteq Priced(u)',
         \A u \in Targets : conflicts[u] \subseteq conflicts'[u],
         RowIsBacked(t, row)', PagesAreBacked(y)',
         ~overlap /\ (row.status = "completed" \/ First(t) \in row.confirmed) =>
           held[t] \subseteq row.confirmed \cup conflicts'[t],
         UNCHANGED <<held, made, approved, overlap>>
  PROVE  BackfillInv'
<1> DEFINE mine == proc[p].mine
           X == [[y EXCEPT !.targets[t] = row] EXCEPT !.base = mine, !.mine = mine]
<1>1. /\ TypeOK /\ proc[p] \in Process /\ ProcessIsBacked(proc[p])
      /\ proc[p].base \in Run /\ mine \in Run /\ RowsAreBacked
      /\ Seen(p, t) \in Target /\ (~overlap => Seen(p, t) = target[t])
      /\ target \in [Targets -> Target]
  BY ActiveProcess, SeenIsBacked DEF BackfillInv, TypeOK
<1>2. /\ proc[p].remaining \in Nat /\ mine.used \in Nat /\ mine.budget \in Nat
      /\ approved \in Nat /\ made \in Nat
  BY <1>1 DEF Process, Run, TypeOK
<1>3. /\ mine.budget <= approved /\ mine.used <= made
      /\ ~overlap => mine.used + proc[p].remaining <= approved /\ mine.used <= approved
  BY <1>1, <1>2 DEF ProcessIsBacked, ChargesAreBacked
<1>4. /\ run' = Written(run, proc[p].base, mine)
      /\ proc' = [proc EXCEPT ![p] = X]
      /\ target' = [target EXCEPT ![t] = Written(target[t], Seen(p, t), row)]
  BY <1>1 DEF CommitTarget, CommitRun
<1>5. /\ run' \in Run /\ run'.budget <= approved /\ run'.used <= made
      /\ ~overlap => run' = mine /\ run'.used <= approved
  BY <1>1, <1>3, <1>4, CommittedRun
<1>6. /\ X \in Process /\ X.pc = y.pc /\ X.at = y.at /\ X.left = y.left /\ X.page = y.page
      /\ X.reason = y.reason /\ X.asked = y.asked /\ X.limit = y.limit
      /\ X.remaining = y.remaining /\ X.base = mine /\ X.mine = mine
      /\ \A u \in Targets : X.targets[u] = IF u = t THEN row ELSE y.targets[u]
  <2>1. y.targets \in [Targets -> Target \cup {Nil}]
    BY DEF Process
  <2>2. [y.targets EXCEPT ![t] = row] \in [Targets -> Target \cup {Nil}]
    BY <2>1
  <2>3. X = [y EXCEPT !.targets = [y.targets EXCEPT ![t] = row], !.base = mine, !.mine = mine]
    BY DEF Process
  <2>4. /\ X \in Process /\ X.pc = y.pc /\ X.at = y.at /\ X.left = y.left /\ X.page = y.page
        /\ X.reason = y.reason /\ X.asked = y.asked /\ X.limit = y.limit
        /\ X.remaining = y.remaining /\ X.base = mine /\ X.mine = mine
        /\ X.targets = [y.targets EXCEPT ![t] = row]
    BY <1>1, <2>2, <2>3 DEF Process
  <2>5. QED
    BY <2>1, <2>4
<1>7. PICK x \in Process : x = X
  BY <1>6
<1> HIDE DEF X
<1>8. proc' = [proc EXCEPT ![p] = x]
  BY <1>4, <1>7
<1>9. /\ target' \in [Targets -> Target]
      /\ \A u \in Targets : u # t => target'[u] = target[u]
      /\ ~overlap => target'[t] = row
      /\ target'[t].status \in {target[t].status, row.status}
      /\ target'[t].confirmed \in {target[t].confirmed, row.confirmed}
  <2>1. Written(target[t], Seen(p, t), row) \in Target
    BY <1>1, WrittenTarget
  <2>2. target'[t] = Written(target[t], Seen(p, t), row)
    BY <1>1, <1>4
  <2>3. QED
    BY <1>1, <1>4, <2>1, <2>2, WrittenTarget
<1>10. \A u \in Targets : RowIsBacked(u, target[u]) => RowIsBacked(u, target[u])'
  <2>1. \A u \in Targets : u # t /\ RowIsBacked(u, target[u]) => RowIsBacked(u, target[u])'
    BY <1>9 DEF RowIsBacked
  <2>2. RowIsBacked(t, target[t]) => RowIsBacked(t, target[t])'
    BY <1>9 DEF RowIsBacked
  <2>3. QED
    BY <2>1, <2>2
<1>11. TypeOK'
  <2>1. \A u \in Targets : target'[u].confirmed \subseteq Expected[u]
    BY <1>1, <1>10 DEF RowsAreBacked, RowIsBacked
  <2>2. proc' \in [Procs -> Process \cup {Nil}]
    BY <1>1, <1>8 DEF TypeOK
  <2>3. QED
    BY <1>1, <1>5, <1>9, <2>1, <2>2 DEF TypeOK
<1>12. RowsAreBacked'
  <2>1. ASSUME NEW u \in Targets, ~overlap,
               target'[u].status = "completed" \/ First(u) \in target'[u].confirmed
        PROVE  held[u] \subseteq target'[u].confirmed \cup conflicts'[u]
    <3>1. CASE u = t
      BY <1>9, <2>1, <3>1
    <3>2. CASE u # t
      BY <1>1, <1>9, <2>1, <3>2 DEF RowsAreBacked
    <3>3. QED
      BY <3>1, <3>2
  <2>2. \A u \in Targets : held[u] \subseteq Expected[u] /\ conflicts'[u] \subseteq Priced(u)'
                           /\ RowIsBacked(u, target[u])'
    BY <1>1, <1>10 DEF RowsAreBacked
  <2>3. QED
    BY <2>1, <2>2 DEF RowsAreBacked, First
<1>13. ~overlap => run'.status \notin Over
  BY <1>1, <1>5 DEF ProcessIsBacked, CopiesAreCurrent, Over
<1>14. RunIsBacked'
  BY <1>5, <1>13 DEF BackfillInv, RunIsBacked, RequestsAreCounted, RunOutcomeIsEarned
<1>15. ProcessIsBacked(x)'
  <2>1. CopiesAreBacked(x)'
    BY <1>1, <1>6, <1>7 DEF ProcessIsBacked, CopiesAreBacked, RowIsBacked
  <2>2. PagesAreBacked(x)'
    BY <1>6, <1>7 DEF PagesAreBacked
  <2>3. ChargesAreBacked(x)'
    BY <1>2, <1>3, <1>6, <1>7 DEF ChargesAreBacked
  <2>4. CopiesAreCurrent(x)'
    <3>1. SUFFICES ASSUME ~overlap
          PROVE  /\ x.base = run'
                 /\ \A u \in Targets : x.targets[u] = Nil \/ x.targets[u] = target'[u]
                 /\ x.mine.status = x.base.status
                 /\ run'.status \notin Over
      BY DEF CopiesAreCurrent
    <3>2. \A u \in Targets : proc[p].targets[u] = Nil \/ proc[p].targets[u] = target[u]
      BY <1>1, <3>1 DEF ProcessIsBacked, CopiesAreCurrent
    <3>3. \A u \in Targets : x.targets[u] = Nil \/ x.targets[u] = target'[u]
      BY <1>6, <1>7, <1>9, <3>1, <3>2
    <3>4. QED
      BY <1>5, <1>6, <1>7, <1>13, <3>1, <3>3
  <2>5. QED
    BY <2>1, <2>2, <2>3, <2>4 DEF ProcessIsBacked
<1>16. made <= made'
  BY <1>2
<1>17. QED
  BY <1>8, <1>11, <1>12, <1>14, <1>15, <1>16, ProcessSteps

\* A stored page moves its days from the page in hand to the prices; those
\* that disagree with the source are conflicts, the others confirmed.
LEMMA StoreKeepsBackfill ==
  ASSUME BackfillInv, NEW p \in Procs, StorePage(p)
  PROVE  BackfillInv'
<1>1. /\ Active(p) /\ proc[p] \in Process /\ PagesAreBacked(proc[p]) /\ TypeOK /\ RowsAreBacked
      /\ proc[p].pc = "store" /\ proc[p].pc \in Working
  BY ActiveProcess DEF StorePage, At, BackfillInv, ProcessIsBacked, Working
<1>2. PICK t \in Targets, page \in SUBSET Days : t = proc[p].at /\ page = proc[p].page
  BY <1>1 DEF PagesAreBacked, Process
<1> DEFINE row == Progress(t, Seen(p, t), Confirmed(t, page))
           Y == AfterPage(p)
<1>3. /\ t \in Targets /\ page \subseteq held[t] /\ page \subseteq Expected[t]
      /\ page \subseteq Days /\ Expected[t] \subseteq Days
  BY <1>2, <1>1 DEF PagesAreBacked, RowsAreBacked, Days
<1>4. /\ Seen(p, t) \in Target /\ RowIsBacked(t, Seen(p, t))
      /\ ~overlap => Seen(p, t) = target[t] /\ run.status \notin Over
  BY <1>1, <1>3, SeenIsBacked DEF BackfillInv, ProcessIsBacked, CopiesAreCurrent
<1>5. /\ price' = [price EXCEPT ![t] =
           [d \in Days |-> IF d \in page /\ @[d] = "none" THEN "same" ELSE @[d]]]
      /\ conflicts' = [conflicts EXCEPT ![t] = @ \cup {d \in page : price[t][d] = "differs"}]
      /\ CommitTarget(p, t, row, Y)
      /\ UNCHANGED <<held, made, approved, overlap>>
  BY <1>2 DEF StorePage, Current
<1>6. /\ price \in [Targets -> [Days -> {"none", "same", "differs"}]]
      /\ conflicts \in [Targets -> SUBSET Days]
  BY <1>1 DEF TypeOK
<1>7. /\ \A u \in Targets : u # t => price'[u] = price[u] /\ conflicts'[u] = conflicts[u]
      /\ \A d \in Days : price'[t][d] = IF d \in page /\ price[t][d] = "none" THEN "same" ELSE price[t][d]
      /\ conflicts'[t] = conflicts[t] \cup {d \in page : price[t][d] = "differs"}
      /\ price' \in [Targets -> [Days -> {"none", "same", "differs"}]]
      /\ conflicts' \in [Targets -> SUBSET Days]
  <2>1. [d \in Days |-> IF d \in page /\ price[t][d] = "none" THEN "same" ELSE price[t][d]]
          \in [Days -> {"none", "same", "differs"}]
    BY <1>3, <1>6
  <2>2. price' = [price EXCEPT ![t] =
           [d \in Days |-> IF d \in page /\ price[t][d] = "none" THEN "same" ELSE price[t][d]]]
    BY <1>3, <1>5, <1>6
  <2>3. conflicts[t] \cup {d \in page : price[t][d] = "differs"} \in SUBSET Days
    BY <1>3, <1>6
  <2>4. QED
    BY <1>3, <1>5, <1>6, <2>1, <2>2, <2>3
<1>8. /\ \A u \in Targets : Priced(u) \subseteq Priced(u)' /\ conflicts[u] \subseteq conflicts'[u]
      /\ page \subseteq Priced(t)'
  <2>1. \A u \in Targets : \A d \in Days : price[u][d] # "none" => price'[u][d] # "none"
    BY <1>3, <1>7
  <2>2. \A d \in page : price'[t][d] # "none"
    BY <1>3, <1>7
  <2>3. QED
    BY <1>3, <1>7, <2>1, <2>2 DEF Priced
<1>9. \A u \in Targets : conflicts'[u] \subseteq Priced(u)'
  <2>1. \A u \in Targets : conflicts[u] \subseteq Priced(u)
    BY <1>1 DEF RowsAreBacked
  <2>2. QED
    BY <1>7, <1>8, <2>1
<1>10. /\ row \in Target
       /\ row.confirmed = Seen(p, t).confirmed \cup Confirmed(t, page)
       /\ row.status = "completed" <=> row.confirmed = Expected[t]
       /\ Confirmed(t, page) \subseteq page
  BY <1>1, <1>3, <1>4 DEF Progress, Confirmed, Target, TargetStatus
<1>11. /\ Y \in Process /\ Y.targets = proc[p].targets /\ Y.remaining = proc[p].remaining
       /\ Y.pc \in {"fetch", "ended"} /\ Y.at = t /\ Y.left = proc[p].left /\ Y.page = {}
       /\ Y.reason = proc[p].reason /\ Y.asked = proc[p].asked /\ Y.limit = proc[p].limit
  BY <1>2, <1>1 DEF Process, AfterPage
<1>12. PICK y \in Process : y = Y
  BY <1>11
<1>13. PICK r \in Target : r = row
  BY <1>10
<1>14. First(t) \in Expected[t]
  BY <1>3, FirstIsEarliest
<1>15. /\ t \in Targets \ Unresolved /\ proc[p].left \subseteq held[t]
       /\ held[t] \ (proc[p].left \cup page) \subseteq Priced(t)
       /\ ~overlap => held[t] \ (proc[p].left \cup page) \subseteq target[t].confirmed \cup conflicts[t]
       /\ proc[p].reason \in Complete => proc[p].left = {}
       /\ First(t) \in page => proc[p].left = {}
       /\ proc[p].asked <= proc[p].limit
  BY <1>2, <1>1 DEF PagesAreBacked
<1> HIDE DEF row, Y
<1>16. held[t] \ proc[p].left \subseteq Priced(t)'
  BY <1>3, <1>8, <1>15
<1>17. ~overlap => held[t] \ proc[p].left \subseteq r.confirmed \cup conflicts'[t]
  <2>1. ~overlap => target[t].confirmed \subseteq r.confirmed
    BY <1>4, <1>10, <1>13
  <2>2. page \subseteq Confirmed(t, page) \cup conflicts'[t]
    BY <1>3, <1>7 DEF Confirmed
  <2>3. QED
    BY <1>7, <1>10, <1>13, <1>15, <2>1, <2>2
<1>18. RowIsBacked(t, r)'
  <2>1. r.confirmed \subseteq Expected[t] \cap Priced(t)'
    BY <1>3, <1>4, <1>8, <1>10, <1>13 DEF RowIsBacked
  <2>2. ASSUME r.status = "completed" PROVE held'[t] \subseteq Priced(t)'
    BY <1>1, <1>3, <1>5, <1>10, <1>13, <2>1, <2>2 DEF RowsAreBacked
  <2>3. ASSUME First(t) \in r.confirmed PROVE held'[t] \subseteq Priced(t)'
    <3>1. CASE First(t) \in Seen(p, t).confirmed
      BY <1>3, <1>4, <1>5, <1>8, <3>1 DEF RowIsBacked
    <3>2. CASE First(t) \in page
      BY <1>5, <1>15, <1>16, <3>2
    <3>3. QED
      BY <1>10, <1>13, <2>3, <3>1, <3>2
  <2>4. First(t)' = First(t)
    BY DEF First
  <2>5. QED
    BY <2>1, <2>2, <2>3, <2>4 DEF RowIsBacked
<1>19. ASSUME ~overlap, r.status = "completed" \/ First(t) \in r.confirmed
       PROVE  held[t] \subseteq r.confirmed \cup conflicts'[t]
  <2>1. CASE r.status = "completed"
    BY <1>1, <1>3, <1>10, <1>13, <2>1 DEF RowsAreBacked
  <2>2. CASE First(t) \in Seen(p, t).confirmed
    <3>1. held[t] \subseteq target[t].confirmed \cup conflicts[t]
      BY <1>1, <1>3, <1>4, <1>19, <2>2 DEF RowsAreBacked
    <3>2. target[t].confirmed \subseteq r.confirmed /\ conflicts[t] \subseteq conflicts'[t]
      BY <1>3, <1>4, <1>8, <1>10, <1>13, <1>19
    <3>3. QED
      BY <3>1, <3>2
  <2>3. CASE First(t) \in page
    BY <1>15, <1>17, <1>19, <2>3
  <2>4. QED
    BY <1>10, <1>13, <1>19, <2>1, <2>2, <2>3
<1>20. PagesAreBacked(y)'
  <2>1. ~overlap => target'[t].confirmed = r.confirmed
    <3>1. target' = [target EXCEPT ![t] = Written(target[t], Seen(p, t), r)]
      BY <1>1, <1>3, <1>5, <1>13 DEF CommitTarget, TypeOK
    <3>2. ~overlap => Written(target[t], Seen(p, t), r) = r
      BY <1>4, WrittenTarget
    <3>3. QED
      BY <1>1, <1>3, <3>1, <3>2 DEF TypeOK
  <2>2. /\ y.at = t /\ y.left = proc[p].left /\ y.page = {} /\ y.reason = proc[p].reason
        /\ y.asked = proc[p].asked /\ y.limit = proc[p].limit
    BY <1>11, <1>12
  <2>3. ~overlap' => held'[y.at] \ (y.left \cup y.page) \subseteq target'[y.at].confirmed \cup conflicts'[y.at]
    BY <1>5, <1>17, <2>1, <2>2
  <2>4. held'[y.at] \ (y.left \cup y.page) \subseteq Priced(y.at)'
    BY <1>5, <1>16, <2>2
  <2>5. QED
    BY <1>5, <1>15, <2>2, <2>3, <2>4 DEF PagesAreBacked
<1>21. CommitTarget(p, t, r, y) /\ y.targets = proc[p].targets /\ y.remaining = proc[p].remaining
  BY <1>5, <1>11, <1>12, <1>13
<1>22. QED
  BY <1>1, <1>3, <1>4, <1>5, <1>7, <1>8, <1>9, <1>18, <1>19, <1>20, <1>21, CommitKeepsBackfill

\* The end of a target: completed after all the source holds was read, or
\* failed.
LEMMA EndKeepsBackfill ==
  ASSUME BackfillInv, NEW p \in Procs,
         CompleteCollection(p) \/ FailTarget(p) \/ FailUnresolved(p)
  PROVE  BackfillInv'
<1> DEFINE Y == [proc[p] EXCEPT !.pc = "next", !.at = @ + 1]
<1>1. Active(p) /\ proc[p] \in Process /\ TypeOK /\ RowsAreBacked /\ ProcessIsBacked(proc[p])
      /\ UNCHANGED <<price, conflicts, held, made, approved, overlap>>
  BY ActiveProcess
     DEF CompleteCollection, FailTarget, FailUnresolved, Facing, At, BackfillInv
<1>2. PICK t : t = proc[p].at
  OBVIOUS
<1>3. /\ t \in Targets /\ (~overlap => run.status \notin Over) /\ proc[p].page = {}
      /\ \E status \in {"completed", "failed"} :
           /\ CommitTarget(p, t, [Seen(p, t) EXCEPT !.status = status], Y)
           /\ status = "completed" => proc[p].pc = "ended" /\ proc[p].reason \in Complete
  <2>1. CASE CompleteCollection(p) \/ FailTarget(p)
    <3>1. proc[p].pc = "ended" /\ proc[p].pc \in Working
      BY <2>1 DEF CompleteCollection, FailTarget, At, Working
    <3>2. \E status \in {"completed", "failed"} :
           /\ CommitTarget(p, t, [Seen(p, t) EXCEPT !.status = status], Y)
           /\ status = "completed" => proc[p].pc = "ended" /\ proc[p].reason \in Complete
      BY <1>2, <2>1, <3>1 DEF CompleteCollection, FailTarget, MarkFailure, Current, Completes
    <3>3. QED
      BY <1>2, <1>1, <3>1, <3>2 DEF ProcessIsBacked, PagesAreBacked, CopiesAreCurrent
  <2>2. CASE FailUnresolved(p)
    <3>1. PICK u \in Unresolved : Facing(p, u) /\ MarkFailure(p, u)
      BY <2>2 DEF FailUnresolved
    <3>2. u \in Targets /\ u = t /\ proc[p].pc = "next" /\ (~overlap => run.status \notin Over)
      BY <1>2, <3>1, FacingIsOpen
    <3>3. CommitTarget(p, t, [Seen(p, t) EXCEPT !.status = "failed"], Y)
      BY <3>1, <3>2 DEF MarkFailure
    <3>4. QED
      BY <1>1, <3>2, <3>3 DEF ProcessIsBacked, PagesAreBacked
  <2>3. QED
    BY <2>1, <2>2
<1>4. PICK status \in {"completed", "failed"} :
        /\ CommitTarget(p, t, [Seen(p, t) EXCEPT !.status = status], Y)
        /\ status = "completed" => proc[p].pc = "ended" /\ proc[p].reason \in Complete
  BY <1>3
<1> DEFINE row == [Seen(p, t) EXCEPT !.status = status]
<1>5. /\ Seen(p, t) \in Target /\ RowIsBacked(t, Seen(p, t))
      /\ ~overlap => Seen(p, t) = target[t]
  BY <1>1, <1>3, SeenIsBacked
<1>6. row \in Target /\ row.confirmed = Seen(p, t).confirmed /\ row.status = status
  BY <1>5 DEF Target, TargetStatus
<1>7. PICK r \in Target : r = row
  BY <1>6
<1>8. /\ Y \in Process /\ Y.targets = proc[p].targets /\ Y.remaining = proc[p].remaining
      /\ Y.pc = "next" /\ Y.page = proc[p].page
  <2>1. t + 1 \in 1..(TargetCount + 1)
    BY <1>3 DEF Targets
  <2>2. QED
    BY <1>2, <1>1, <2>1 DEF Process
<1>9. PICK y \in Process : y = Y
  BY <1>8
<1> HIDE DEF row, Y
<1>10. status = "completed" =>
        /\ held[t] \subseteq Priced(t)
        /\ ~overlap => held[t] \subseteq target[t].confirmed \cup conflicts[t]
  BY <1>2, <1>1, <1>3, <1>4 DEF ProcessIsBacked, PagesAreBacked, Working
<1>11. \A u \in Targets : Priced(u)' = Priced(u) /\ First(u)' = First(u)
  BY <1>1 DEF Priced, First
<1>12. RowIsBacked(t, r)'
  BY <1>1, <1>3, <1>5, <1>6, <1>7, <1>10, <1>11 DEF RowIsBacked
<1>13. ~overlap /\ (r.status = "completed" \/ First(t) \in r.confirmed) =>
         held[t] \subseteq r.confirmed \cup conflicts'[t]
  BY <1>1, <1>3, <1>5, <1>6, <1>7, <1>10 DEF RowsAreBacked
<1>14. PagesAreBacked(y)'
  BY <1>3, <1>8, <1>9 DEF PagesAreBacked, Working
<1>15. /\ price' \in [Targets -> [Days -> {"none", "same", "differs"}]]
       /\ conflicts' \in [Targets -> SUBSET Days]
       /\ \A u \in Targets : Priced(u) \subseteq Priced(u)' /\ conflicts'[u] \subseteq Priced(u)'
       /\ \A u \in Targets : conflicts[u] \subseteq conflicts'[u]
  BY <1>1, <1>11 DEF TypeOK, RowsAreBacked
<1>16. CommitTarget(p, t, r, y) /\ y.targets = proc[p].targets /\ y.remaining = proc[p].remaining
  BY <1>4, <1>7, <1>8, <1>9 DEF row
<1>17. QED
  BY <1>1, <1>3, <1>12, <1>13, <1>14, <1>15, <1>16, CommitKeepsBackfill

\* A process that finds its budget spent stops before an open target.
LEMMA ExhaustKeepsBackfill ==
  ASSUME BackfillInv, NEW p \in Procs, ExhaustBudget(p)
  PROVE  BackfillInv'
<1>1. PICK t \in Targets : Facing(p, t)
  BY DEF ExhaustBudget
<1>2. /\ Active(p) /\ proc[p] \in Process /\ proc[p].pc = "next"
      /\ ~overlap => run.status \notin Over
  BY <1>1, FacingIsOpen
<1>3. /\ TypeOK /\ ProcessIsBacked(proc[p]) /\ proc[p].mine \in Run
      /\ proc[p].remaining \in Nat /\ approved \in Nat /\ made \in Nat
      /\ \A u \in Targets : Seen(p, u) \in Target
  BY <1>2, ActiveProcess DEF BackfillInv, Process, TypeOK
<1> DEFINE mine == [proc[p].mine EXCEPT !.status = "budget_exhausted"]
           seen == [u \in Targets |-> IF u >= Current(p) THEN Seen(p, u) ELSE proc[p].targets[u]]
           X == [[proc[p] EXCEPT !.pc = "finalize", !.targets = seen]
                   EXCEPT !.base = mine, !.mine = mine]
<1>4. /\ mine \in Run /\ mine.status = "budget_exhausted" /\ mine.used = proc[p].mine.used
      /\ mine.budget = proc[p].mine.budget
  BY <1>3 DEF Run, RunStatus
<1>5. /\ run' = Written(run, proc[p].base, mine)
      /\ proc' = [proc EXCEPT ![p] = X]
      /\ UNCHANGED <<target, price, conflicts, held, made, approved, overlap>>
  BY <1>2 DEF ExhaustBudget, CommitRun, Stopped
<1>6. PICK m \in Run : m = mine
  BY <1>4
<1> HIDE DEF mine
<1>7. /\ m.budget <= approved /\ m.used <= made
      /\ ~overlap => m.used + proc[p].remaining <= approved /\ m.used <= approved
  BY <1>3, <1>4, <1>6 DEF ProcessIsBacked, ChargesAreBacked, Run
<1>8. /\ run' \in Run /\ run'.budget <= approved /\ run'.used <= made
      /\ ~overlap => run' = m /\ run'.used <= approved
  BY <1>2, <1>5, <1>6, <1>7, CommittedRun
<1>9. seen \in [Targets -> Target \cup {Nil}]
  BY <1>2, <1>3 DEF Process
<1> HIDE DEF seen
<1>10. /\ X \in Process /\ X.pc = "finalize" /\ X.page = proc[p].page /\ X.targets = seen
       /\ X.remaining = proc[p].remaining /\ X.base = m /\ X.mine = m
  BY <1>2, <1>4, <1>6, <1>9 DEF Process
<1>11. PICK x \in Process : x = X
  BY <1>10
<1> HIDE DEF X
<1>12. proc' = [proc EXCEPT ![p] = x]
  BY <1>5, <1>11
<1>13. TypeOK'
  BY <1>3, <1>5, <1>8, <1>12 DEF TypeOK
<1>14. RowsAreBacked'
  BY <1>5 DEF BackfillInv, RowsAreBacked, RowIsBacked, Priced, First
<1>15. ~overlap => run'.status \notin Over
  BY <1>4, <1>6, <1>8 DEF Over
<1>16. RunIsBacked'
  BY <1>5, <1>8, <1>15 DEF BackfillInv, RunIsBacked, RequestsAreCounted, RunOutcomeIsEarned
<1>17. \A u \in Targets : x.targets[u] = Seen(p, u) \/ x.targets[u] = proc[p].targets[u]
  BY <1>10, <1>11 DEF seen
<1>18. ProcessIsBacked(x)'
  <2>1. CopiesAreBacked(x)
    BY <1>2, <1>3, <1>17, SeenIsBacked DEF ProcessIsBacked, CopiesAreBacked
  <2>2. CopiesAreBacked(x)'
    BY <1>5, <2>1 DEF CopiesAreBacked, RowIsBacked, Priced, First
  <2>3. PagesAreBacked(x)'
    BY <1>2, <1>3, <1>10, <1>11 DEF ProcessIsBacked, PagesAreBacked, Working
  <2>4. ChargesAreBacked(x)'
    BY <1>3, <1>5, <1>7, <1>10, <1>11 DEF ChargesAreBacked, Run
  <2>5. \A u \in Targets : ~overlap => x.targets[u] = Nil \/ x.targets[u] = target[u]
    BY <1>2, <1>3, <1>17, SeenIsBacked DEF ProcessIsBacked, CopiesAreCurrent
  <2>6. CopiesAreCurrent(x)'
    BY <1>5, <1>8, <1>10, <1>11, <1>15, <2>5 DEF CopiesAreCurrent
  <2>7. QED
    BY <2>2, <2>3, <2>4, <2>6 DEF ProcessIsBacked
<1>19. made <= made' /\ \A u \in Targets : Priced(u) \subseteq Priced(u)'
  BY <1>3, <1>5 DEF Priced
<1>20. QED
  BY <1>2, <1>5, <1>12, <1>13, <1>14, <1>16, <1>18, <1>19, ProcessSteps

\* The end of a run: alone, its outcome is earned by the targets' rows.
LEMMA FinalizeKeepsBackfill ==
  ASSUME BackfillInv, NEW p \in Procs, FinalizeRun(p)
  PROVE  BackfillInv'
<1> DEFINE statuses == {Seen(p, t).status : t \in Targets}
           mine == IF statuses \subseteq {"completed", "failed"}
                     THEN [proc[p].mine EXCEPT !.status = Outcome(statuses)] ELSE proc[p].mine
<1>1. /\ Active(p) /\ proc[p] \in Process /\ TypeOK /\ ProcessIsBacked(proc[p])
      /\ run' = Written(run, proc[p].base, mine) /\ proc' = [proc EXCEPT ![p] = Nil]
      /\ UNCHANGED <<target, price, conflicts, held, made, approved, overlap>>
  BY ActiveProcess DEF FinalizeRun, At, BackfillInv
<1>2. proc[p].mine \in Run /\ proc[p].remaining \in Nat /\ approved \in Nat /\ made \in Nat
  BY <1>1 DEF Process, TypeOK
<1>3. Outcome(statuses) \in Over /\ (Outcome(statuses) = "completed" <=> statuses = {"completed"})
  BY DEF Outcome, Over
<1>4. /\ mine \in Run /\ mine.used = proc[p].mine.used /\ mine.budget = proc[p].mine.budget
      /\ IF statuses \subseteq {"completed", "failed"} THEN mine.status = Outcome(statuses)
         ELSE mine.status = proc[p].mine.status
  BY <1>2, <1>3 DEF Run, RunStatus, Over
<1> HIDE DEF mine
<1>5. /\ mine.budget <= approved /\ mine.used <= made /\ (~overlap => mine.used <= approved)
  BY <1>1, <1>2, <1>4 DEF ProcessIsBacked, ChargesAreBacked, Run
<1>6. /\ run' \in Run /\ run'.budget <= approved /\ run'.used <= made
      /\ ~overlap => run' = mine /\ run'.used <= approved
  BY <1>1, <1>4, <1>5, CommittedRun
<1>7. RunOutcomeIsEarned'
  <2> SUFFICES ASSUME ~overlap, mine.status \in Over
               PROVE  /\ \A t \in Targets : target[t].status \in {"completed", "failed"}
                      /\ mine.status = "completed" <=>
                           \A t \in Targets : target[t].status = "completed"
    BY <1>1, <1>6 DEF RunOutcomeIsEarned
  <2>1. statuses = {target[t].status : t \in Targets} /\ Targets # {}
    BY <1>1, SeenIsBacked DEF Targets
  <2>2. CASE statuses \subseteq {"completed", "failed"}
    BY <1>3, <1>4, <2>1, <2>2
  <2>3. CASE ~ (statuses \subseteq {"completed", "failed"})
    <3>1. mine.status = run.status
      BY <1>1, <1>4, <2>3 DEF ProcessIsBacked, CopiesAreCurrent, Over
    <3>2. \A t \in Targets : target[t].status \in {"completed", "failed"}
      BY <3>1 DEF BackfillInv, RunIsBacked, RunOutcomeIsEarned
    <3>3. QED
      BY <2>1, <2>3, <3>2
  <2>4. QED
    BY <2>2, <2>3
<1>8. RunIsBacked'
  BY <1>1, <1>6, <1>7 DEF BackfillInv, RunIsBacked, RequestsAreCounted
<1>9. TypeOK'
  BY <1>1, <1>6 DEF TypeOK
<1>10. RowsAreBacked'
  BY <1>1 DEF BackfillInv, RowsAreBacked, RowIsBacked, Priced, First
<1>11. made <= made' /\ \A u \in Targets : Priced(u) \subseteq Priced(u)'
  BY <1>1, <1>2 DEF Priced
<1>12. QED
  BY <1>1, <1>8, <1>9, <1>10, <1>11, ProcessSteps

\* A killed process leaves the database as it is.
LEMMA CrashKeepsBackfill ==
  ASSUME BackfillInv, NEW p \in Procs, Crash(p)
  PROVE  BackfillInv'
<1>1. made' \in made..MaxMade
  BY DEF Crash, BackfillInv, TypeOK
<1>2. QED
  BY <1>1, QuietSteps DEF Crash

\* A failure rolls the session back: the target fails in a transaction of its
\* own, the run's row is loaded again, and all other rows have to be.
LEMMA WriteFailsKeepsBackfill ==
  ASSUME BackfillInv, NEW p \in Procs, WriteFails(p)
  PROVE  BackfillInv'
<1> DEFINE copies(t) == [u \in Targets |-> IF u = t THEN target'[t] ELSE Nil]
<1>1. /\ Active(p) /\ proc[p] \in Process /\ TypeOK /\ RowsAreBacked /\ RunIsBacked
      /\ ProcessIsBacked(proc[p]) /\ run \in Run /\ run.status # "none" /\ made \in 0..MaxMade
      /\ UNCHANGED <<run, price, conflicts, held, approved, overlap>>
  BY ActiveProcess DEF WriteFails, BackfillInv, TypeOK
<1>2. PICK t \in Targets : t = proc[p].at
  BY DEF WriteFails, Current
<1>3. /\ target' = [target EXCEPT ![t].status = "failed"]
      /\ proc' = [proc EXCEPT ![p] =
           [proc[p] EXCEPT !.pc = "next", !.at = @ + 1, !.page = {},
                           !.base = run, !.mine = run, !.targets = copies(t)]]
      /\ proc[p].pc \in Working \/ Facing(p, t)
  BY <1>2 DEF WriteFails, Current, Working
<1>4. ~overlap => run.status \notin Over
  BY <1>1, <1>3, FacingIsOpen DEF ProcessIsBacked, CopiesAreCurrent
<1>5. made' \in Nat /\ made <= made' /\ made' \in 0..MaxMade
  <2>1. CASE made' = made
    BY <1>1, <2>1
  <2>2. CASE made' = made + 1 /\ made < MaxMade
    BY <1>1, <2>2
  <2>3. QED
    BY <2>1, <2>2 DEF WriteFails
<1>6. /\ target \in [Targets -> Target] /\ target' \in [Targets -> Target]
      /\ \A u \in Targets : u # t => target'[u] = target[u]
      /\ target'[t].status = "failed" /\ target'[t].confirmed = target[t].confirmed
  <2>1. target \in [Targets -> Target]
    BY <1>1 DEF TypeOK
  <2>2. [target[t] EXCEPT !.status = "failed"] \in Target
    BY <2>1 DEF Target, TargetStatus
  <2>3. target' = [target EXCEPT ![t] = [target[t] EXCEPT !.status = "failed"]]
    BY <1>3, <2>1
  <2>4. QED
    BY <2>1, <2>2, <2>3 DEF Target
<1>7. /\ copies(t) \in [Targets -> Target \cup {Nil}] /\ copies(t)[t] = target'[t]
      /\ \A u \in Targets : copies(t)[u] # Nil => u = t
  BY <1>6
<1> HIDE DEF copies
<1>8. PICK s \in [Targets -> Target \cup {Nil}] : s = copies(t)
  BY <1>7
<1> DEFINE X == [proc[p] EXCEPT !.pc = "next", !.at = @ + 1, !.page = {}, !.base = run,
                                !.mine = run, !.targets = s]
<1>9. proc' = [proc EXCEPT ![p] = X]
  BY <1>3, <1>8
<1>10. /\ X \in Process /\ X.pc = "next" /\ X.page = {} /\ X.base = run /\ X.mine = run
       /\ X.targets = s /\ X.remaining = proc[p].remaining
  <2>1. t + 1 \in 1..(TargetCount + 1)
    BY DEF Targets
  <2>2. QED
    BY <1>1, <1>2, <1>8, <2>1 DEF Process
<1>11. PICK x \in Process : x = X
  BY <1>10
<1> HIDE DEF X
<1>12. proc' = [proc EXCEPT ![p] = x]
  BY <1>9, <1>11
<1>13. TypeOK'
  <2>1. proc' \in [Procs -> Process \cup {Nil}]
    BY <1>1, <1>12 DEF TypeOK
  <2>2. \A u \in Targets : target'[u].confirmed \subseteq Expected[u]
    BY <1>1, <1>6 DEF TypeOK
  <2>3. QED
    BY <1>1, <1>5, <1>6, <2>1, <2>2 DEF TypeOK
<1>14. \A u \in Targets : Priced(u)' = Priced(u) /\ First(u)' = First(u)
  BY <1>1 DEF Priced, First
<1>15. \A u \in Targets : RowIsBacked(u, target[u])'
  BY <1>1, <1>6, <1>14 DEF RowsAreBacked, RowIsBacked
<1>16. RowsAreBacked'
  <2>1. \A u \in Targets :
          ~overlap /\ (target'[u].status = "completed" \/ First(u) \in target'[u].confirmed) =>
            held[u] \subseteq target'[u].confirmed \cup conflicts[u]
    BY <1>1, <1>6 DEF RowsAreBacked
  <2>2. \A u \in Targets : held[u] \subseteq Expected[u] /\ conflicts[u] \subseteq Priced(u)
    BY <1>1 DEF RowsAreBacked
  <2>3. QED
    BY <1>1, <1>14, <1>15, <2>1, <2>2 DEF RowsAreBacked
<1>17. RunIsBacked'
  BY <1>1, <1>4, <1>5 DEF RunIsBacked, RequestsAreCounted, RunOutcomeIsEarned, TypeOK, Run
<1>18. ProcessIsBacked(x)'
  <2>1. CopiesAreBacked(x)'
    BY <1>7, <1>8, <1>10, <1>11, <1>15 DEF CopiesAreBacked
  <2>2. PagesAreBacked(x)'
    BY <1>10, <1>11 DEF PagesAreBacked, Working
  <2>3. ~overlap => run.used + proc[p].remaining <= approved
    <3>1. ~overlap => run.used <= proc[p].mine.used
      BY <1>1 DEF ProcessIsBacked, CopiesAreCurrent, ChargesAreBacked
    <3>2. /\ proc[p].mine.used \in Nat /\ proc[p].remaining \in Nat
          /\ run.used \in Nat /\ approved \in Nat
      BY <1>1 DEF Process, Run, TypeOK
    <3>3. ~overlap => proc[p].mine.used + proc[p].remaining <= approved
      BY <1>1 DEF ProcessIsBacked, ChargesAreBacked
    <3>4. QED
      BY <3>1, <3>2, <3>3
  <2>4. run.budget <= approved /\ run.used <= made /\ run.used <= made' /\ run.used <= run.used
    BY <1>1, <1>5 DEF RunIsBacked, RequestsAreCounted, Run
  <2>5. ChargesAreBacked(x)'
    BY <1>1, <1>10, <1>11, <2>3, <2>4 DEF ChargesAreBacked
  <2>6. CopiesAreCurrent(x)'
    BY <1>1, <1>7, <1>8, <1>10, <1>11 DEF CopiesAreCurrent, Working
  <2>7. QED
    BY <2>1, <2>2, <2>5, <2>6 DEF ProcessIsBacked
<1>19. \A u \in Targets : Priced(u) \subseteq Priced(u)'
  BY <1>14
<1>20. QED
  BY <1>1, <1>5, <1>12, <1>13, <1>16, <1>17, <1>18, <1>19, ProcessSteps

-----------------------------------------------------------------------------
(* Operators and the batch.                                                *)

\* A process that has loaded the run and its targets keeps the invariant; with
\* another one at work the two overlap from here on.
LEMMA SessionKeepsBackfill ==
  ASSUME BackfillInv, NEW p \in Procs, ~Active(p), NEW mine \in Run, NEW only \in BOOLEAN,
         proc' = [proc EXCEPT ![p] = Session(run, mine, only)],
         mine.status = run.status \/ (run.status = "none" /\ mine.status = "running"),
         mine.used <= run.used, run.status # "none" => mine.used = run.used,
         mine.budget <= approved', approved <= approved', approved' \in 0..MaxBudget,
         overlap' = (overlap \/ Others(p) # {}),
         UNCHANGED <<run, target, price, conflicts, held, made>>
  PROVE  BackfillInv'
<1>1. /\ TypeOK /\ RowsAreBacked /\ RunIsBacked /\ run \in Run
      /\ target \in [Targets -> Target] /\ proc \in [Procs -> Process \cup {Nil}]
      /\ made \in Nat /\ approved \in Nat /\ approved' \in Nat /\ overlap \in BOOLEAN
  BY DEF BackfillInv, TypeOK
<1> DEFINE remaining == IF mine.used < mine.budget THEN mine.budget - mine.used ELSE 0
           X == Session(run, mine, only)
<1>2. /\ remaining \in 0..MaxBudget /\ (mine.used + remaining <= approved' \/ run.used > approved)
      /\ mine.used <= made /\ run.used <= made /\ run.budget <= approved
  <2>1. /\ mine.used \in Nat /\ mine.budget \in 0..MaxBudget /\ run.used \in Nat
        /\ run.used <= made /\ run.budget <= approved
    BY <1>1 DEF Run, RunIsBacked, RequestsAreCounted
  <2>2. CASE mine.used < mine.budget
    BY <1>1, <2>1, <2>2
  <2>3. CASE ~ (mine.used < mine.budget)
    BY <1>1, <2>1, <2>3
  <2>4. QED
    BY <2>1, <2>2, <2>3
<1>3. PICK r \in 0..MaxBudget : r = remaining
  <2>1. mine.used \in Nat /\ mine.budget \in 0..MaxBudget
    BY DEF Run
  <2>2. QED
    BY <2>1
<1>4. X = [pc |-> "next", at |-> 1, only |-> only, remaining |-> r,
           limit |-> 0, asked |-> 0, left |-> {}, page |-> {}, reason |-> "more",
           base |-> run, mine |-> mine, targets |-> target]
  BY <1>3 DEF Session
<1> HIDE DEF X
<1>5. X \in Process
  <2>1. 1 \in 1..(TargetCount + 1) /\ 0 \in 0..MaxBudget /\ "more" \in Reasons
    BY DEF Reasons
  <2>2. QED
    BY <1>1, <1>4, <2>1 DEF Process
<1>6. PICK x \in Process : x = X
  BY <1>5
<1>7. /\ x.pc = "next" /\ x.page = {} /\ x.base = run /\ x.mine = mine /\ x.targets = target
      /\ x.remaining = r
  BY <1>4, <1>6
<1>8. proc'[p] = x /\ \A q \in Procs : q # p => proc'[q] = proc[q]
  BY <1>1, <1>6 DEF X
<1>9. proc' \in [Procs -> Process \cup {Nil}]
  BY <1>1, <1>6 DEF X
<1>10. TypeOK'
  BY <1>1, <1>9 DEF TypeOK
<1>11. \A u \in Targets : Priced(u)' = Priced(u) /\ First(u)' = First(u)
  BY DEF Priced, First
<1>12. RowsAreBacked'
  BY <1>1, <1>11 DEF RowsAreBacked, RowIsBacked
<1>13. RunIsBacked'
  <2>1. RequestBudget <= approved' /\ run.budget <= approved'
    BY <1>1 DEF RunIsBacked, Run
  <2>2. ~overlap' => run.used <= approved'
    BY <1>1 DEF RunIsBacked, RequestsAreCounted, Run
  <2>3. RunOutcomeIsEarned'
    BY <1>1 DEF RunIsBacked, RunOutcomeIsEarned
  <2>4. QED
    BY <1>2, <2>1, <2>2, <2>3 DEF RunIsBacked, RequestsAreCounted
<1>14. ProcessIsBacked(x)'
  <2>1. CopiesAreBacked(x)'
    BY <1>7, <1>12 DEF CopiesAreBacked, RowsAreBacked
  <2>2. PagesAreBacked(x)'
    BY <1>7 DEF PagesAreBacked, Working
  <2>3. ~overlap' => mine.used + r <= approved'
    BY <1>1, <1>2, <1>3 DEF RunIsBacked, RequestsAreCounted, Run
  <2>4. run.budget <= approved'
    BY <1>1 DEF RunIsBacked, Run
  <2>5. run.status # "none" => run.used <= mine.used
    BY <1>1 DEF Run
  <2>6. ChargesAreBacked(x)'
    BY <1>2, <1>7, <2>3, <2>4, <2>5 DEF ChargesAreBacked
  <2>7. CopiesAreCurrent(x)'
    BY <1>7 DEF CopiesAreCurrent, Working
  <2>8. QED
    BY <2>1, <2>2, <2>6, <2>7 DEF ProcessIsBacked
<1>15. ASSUME NEW q \in Procs, NEW y \in Process, proc'[q] = y
       PROVE  ProcessIsBacked(y)'
  <2>1. CASE q = p
    BY <1>8, <1>14, <1>15, <2>1
  <2>2. CASE q # p
    <3>1. proc[q] = y /\ Active(q)
      BY <1>8, <1>15, <2>2, NilIsNoRecord DEF Active
    <3>2. overlap' /\ ProcessIsBacked(y)
      BY <2>2, <3>1 DEF BackfillInv, Others
    <3>3. made <= made' /\ made' \in Nat
      BY <1>1
    <3>4. \A u \in Targets : Priced(u) \subseteq Priced(u)'
      BY <1>11
    <3>5. QED
      BY <1>1, <3>2, <3>3, <3>4, OthersStayBacked
  <2>3. QED
    BY <2>1, <2>2
<1>16. \A q \in Procs : Active(q)' => ProcessIsBacked(proc[q])'
  BY <1>9, <1>15 DEF Active
<1>17. ~overlap' => \A q, s \in Procs : Active(q)' /\ Active(s)' => q = s
  BY <1>8 DEF Others, Active
<1>18. QED
  BY <1>10, <1>12, <1>13, <1>16, <1>17 DEF BackfillInv

\* An operator starts the run or resumes it.
LEMMA CommandsKeepBackfill ==
  ASSUME BackfillInv, NEW p \in Procs,
         \/ StartRun(p)
         \/ \E add \in 0..MaxBudget, only \in BOOLEAN : ResumeRun(p, add, only)
  PROVE  BackfillInv'
<1>1. /\ run \in Run /\ approved \in 0..MaxBudget /\ overlap \in BOOLEAN
      /\ run.budget <= approved /\ RequestBudget <= approved
  BY DEF BackfillInv, TypeOK, RunIsBacked
<1>2. CASE StartRun(p)
  <2>1. /\ NewRun \in Run /\ NewRun.status = "running" /\ NewRun.used = 0
        /\ NewRun.budget = RequestBudget
    BY DEF NewRun, Run, RunStatus
  <2>2. PICK mine \in Run : mine = NewRun
    BY <2>1
  <2>3. /\ mine.used <= run.used /\ approved <= approved'
    BY <1>1, <1>2, <2>1, <2>2 DEF StartRun, Run
  <2>4. overlap' = (overlap \/ Others(p) # {})
    BY <1>1, <1>2 DEF StartRun
  <2>5. QED
    BY <1>1, <1>2, <2>1, <2>2, <2>3, <2>4, SessionKeepsBackfill DEF StartRun
<1>3. CASE \E add \in 0..MaxBudget, only \in BOOLEAN : ResumeRun(p, add, only)
  <2>1. PICK add \in 0..MaxBudget, only \in BOOLEAN : ResumeRun(p, add, only)
    BY <1>3
  <2>2. approved' = approved + add /\ approved' \in 0..MaxBudget /\ approved <= approved'
    BY <1>1, <2>1 DEF ResumeRun
  <2>3. run.budget \in 0..MaxBudget /\ run.budget + add \in 0..MaxBudget
        /\ run.budget + add <= approved'
    BY <1>1, <2>1, <2>2 DEF ResumeRun, Run
  <2>4. PICK budget \in 0..MaxBudget : budget = run.budget + add
    BY <2>3
  <2>5. PICK mine \in Run : mine = [run EXCEPT !.budget = budget]
    BY <1>1 DEF Run
  <2>6. /\ mine.status = run.status /\ mine.used = run.used /\ mine.budget = budget
        /\ mine.used <= run.used
    BY <1>1, <2>5 DEF Run
  <2>7. proc' = [proc EXCEPT ![p] = Session(run, mine, only)]
    BY <2>1, <2>4, <2>5 DEF ResumeRun
  <2>8. /\ ~Active(p) /\ overlap' = (overlap \/ Others(p) # {})
        /\ UNCHANGED <<run, target, price, conflicts, held, made>>
    BY <2>1 DEF ResumeRun
  <2>9. QED
    BY <2>2, <2>3, <2>4, <2>6, <2>7, <2>8, SessionKeepsBackfill
<1>4. QED
  BY <1>2, <1>3

\* --finalize-confirmed-start: a target whose first expected day is confirmed
\* has been read to its start.
LEMMA ReconcileKeepsBackfill ==
  ASSUME BackfillInv, Reconcile
  PROVE  BackfillInv'
<1> DEFINE Row(t) == IF target[t].status = "running" /\ First(t) \in target[t].confirmed
                       THEN [target[t] EXCEPT !.status = "completed"] ELSE target[t]
           statuses == {Row(t).status : t \in Targets}
<1>1. /\ TypeOK /\ RowsAreBacked /\ RunIsBacked /\ run \in Run /\ run.status # "none"
      /\ target \in [Targets -> Target] /\ proc \in [Procs -> Process \cup {Nil}]
      /\ made \in Nat /\ approved \in Nat /\ overlap \in BOOLEAN
      /\ UNCHANGED <<price, conflicts, held, proc, made, approved>>
  BY DEF BackfillInv, TypeOK, Reconcile
<1>2. /\ target' = [t \in Targets |-> Row(t)]
      /\ run' = IF statuses \subseteq {"completed", "failed"}
                  THEN [run EXCEPT !.status = Outcome(statuses)] ELSE run
      /\ overlap' = (overlap \/ \E p \in Procs : Active(p))
  BY DEF Reconcile
<1>3. \A t \in Targets :
        /\ Row(t) \in Target /\ Row(t).confirmed = target[t].confirmed
        /\ Row(t).status = "completed" =>
             target[t].status = "completed" \/ First(t) \in target[t].confirmed
  BY <1>1 DEF Target, TargetStatus
<1>4. Outcome(statuses) \in Over /\ (Outcome(statuses) = "completed" <=> statuses = {"completed"})
  BY DEF Outcome, Over
<1>5. /\ run' \in Run /\ run'.used = run.used /\ run'.budget = run.budget
      /\ IF statuses \subseteq {"completed", "failed"} THEN run'.status = Outcome(statuses)
         ELSE run'.status = run.status
  BY <1>1, <1>2, <1>4 DEF Run, RunStatus, Over
<1>6. /\ target' \in [Targets -> Target] /\ \A t \in Targets : target'[t] = Row(t)
      /\ statuses = {target'[t].status : t \in Targets}
  BY <1>2, <1>3
<1>7. \A t \in Targets : target'[t].confirmed = target[t].confirmed
  BY <1>3, <1>6
<1>8. /\ \A t \in Targets : Priced(t)' = Priced(t) /\ First(t)' = First(t)
      /\ Targets # {}
  BY <1>1 DEF Priced, First, Targets
<1>9. \A t \in Targets :
        target'[t].status = "completed" =>
          target[t].status = "completed" \/ First(t) \in target[t].confirmed
  BY <1>3, <1>6
<1>10. \A t \in Targets : target'[t].status \in {"completed", "failed"} \/ target'[t] = target[t]
  BY <1>1, <1>2 DEF Target
<1> HIDE DEF Row, statuses
<1>11. TypeOK'
  <2>1. \A t \in Targets : target'[t].confirmed \subseteq Expected[t]
    BY <1>1, <1>7 DEF TypeOK
  <2>2. overlap' \in BOOLEAN
    BY <1>1, <1>2
  <2>3. QED
    BY <1>1, <1>5, <1>6, <2>1, <2>2 DEF TypeOK
<1>12. \A t \in Targets : RowIsBacked(t, target[t])'
  BY <1>1, <1>7, <1>8, <1>9 DEF RowsAreBacked, RowIsBacked
<1>13. RowsAreBacked'
  <2>1. \A t \in Targets :
          ~overlap' /\ (target'[t].status = "completed" \/ First(t) \in target'[t].confirmed) =>
            held[t] \subseteq target'[t].confirmed \cup conflicts[t]
    BY <1>1, <1>2, <1>7, <1>9 DEF RowsAreBacked
  <2>2. \A t \in Targets : held[t] \subseteq Expected[t] /\ conflicts[t] \subseteq Priced(t)
    BY <1>1 DEF RowsAreBacked
  <2>3. QED
    BY <1>1, <1>8, <1>12, <2>1, <2>2 DEF RowsAreBacked
<1>14. RunOutcomeIsEarned'
  <2> SUFFICES ASSUME ~overlap', run'.status \in Over
               PROVE  /\ \A t \in Targets : target'[t].status \in {"completed", "failed"}
                      /\ run'.status = "completed" <=>
                           \A t \in Targets : target'[t].status = "completed"
    BY DEF RunOutcomeIsEarned, Over
  <2>1. CASE statuses \subseteq {"completed", "failed"}
    <3>1. \A t \in Targets : target'[t].status \in {"completed", "failed"}
      BY <1>6, <2>1
    <3>2. run'.status = "completed" <=> \A t \in Targets : target'[t].status = "completed"
      <4>1. statuses = {"completed"} <=> \A t \in Targets : target'[t].status = "completed"
        BY ONLY <1>6, <1>8
      <4>2. run'.status = "completed" <=> statuses = {"completed"}
        BY <1>4, <1>5, <2>1
      <4>3. QED
        BY <4>1, <4>2
    <3>3. QED
      BY <3>1, <3>2
  <2>2. CASE ~ (statuses \subseteq {"completed", "failed"})
    <3>1. ~overlap /\ run'.status = run.status
      BY <1>2, <1>5, <2>2
    <3>2. \A t \in Targets : target[t].status \in {"completed", "failed"}
      BY <1>1, <3>1 DEF RunIsBacked, RunOutcomeIsEarned
    <3>3. \A t \in Targets : target'[t].status \in {"completed", "failed"}
      BY <1>10, <3>2
    <3>4. QED
      BY <1>6, <2>2, <3>3
  <2>3. QED
    BY <2>1, <2>2
<1>15. RunIsBacked'
  BY <1>1, <1>2, <1>5, <1>14 DEF RunIsBacked, RequestsAreCounted
<1>16. \A p \in Procs : Active(p) => ProcessIsBacked(proc[p])'
  <2>1. TAKE p \in Procs
  <2>2. HAVE Active(p)
  <2>3. PICK x \in Process : x = proc[p]
    BY <1>1, <2>2 DEF Active
  <2>4. ProcessIsBacked(x) /\ overlap'
    BY <1>2, <2>2, <2>3 DEF BackfillInv
  <2>5. \A t \in Targets : Priced(t) \subseteq Priced(t)'
    BY <1>8
  <2>6. approved <= approved' /\ made <= made'
    BY <1>1
  <2>7. ProcessIsBacked(x)'
    BY <1>1, <2>4, <2>5, <2>6, OthersStayBacked
  <2>8. x' = x /\ proc[p]' = x
    BY <1>1, <2>3
  <2>9. QED
    BY <2>7, <2>8
<1>17. \A p \in Procs : Active(p)' => Active(p)
  BY <1>1 DEF Active
<1>18. ~overlap' => \A p, q \in Procs : Active(p)' /\ Active(q)' => p = q
  BY <1>2, <1>17
<1>19. QED
  BY <1>11, <1>13, <1>15, <1>16, <1>17, <1>18 DEF BackfillInv

\* A price another source stores is still a price, and a step that changes
\* nothing keeps all.
LEMMA BatchKeepsBackfill ==
  ASSUME BackfillInv,
         \/ \E t \in Targets, d \in Days, value \in {"same", "differs"} : BatchWrites(t, d, value)
         \/ UNCHANGED vars
  PROVE  BackfillInv'
<1>1. /\ UNCHANGED <<run, target, conflicts, held, proc, made, approved, overlap>>
      /\ price' \in [Targets -> [Days -> {"none", "same", "differs"}]]
      /\ \A t \in Targets : \A d \in Days : price[t][d] # "none" => price'[t][d] # "none"
  <2>1. price \in [Targets -> [Days -> {"none", "same", "differs"}]]
    BY DEF BackfillInv, TypeOK
  <2>2. ASSUME NEW t \in Targets, NEW d \in Days, NEW value \in {"same", "differs"},
               BatchWrites(t, d, value)
        PROVE  <1>1!1 /\ <1>1!2 /\ <1>1!3
    <3>1. price' = [price EXCEPT ![t] = [price[t] EXCEPT ![d] = value]]
      BY <2>1, <2>2 DEF BatchWrites
    <3>2. [price[t] EXCEPT ![d] = value] \in [Days -> {"none", "same", "differs"}]
      BY <2>1
    <3>3. QED
      BY <2>1, <2>2, <3>1, <3>2 DEF BatchWrites
  <2>3. CASE UNCHANGED vars
    BY <2>1, <2>3 DEF vars
  <2>4. QED
    BY <2>2, <2>3
<1>2. \A t \in Targets : Priced(t) \subseteq Priced(t)' /\ First(t)' = First(t)
  BY <1>1 DEF Priced, First
<1>3. TypeOK'
  BY <1>1 DEF BackfillInv, TypeOK
<1>4. \A t \in Targets : RowIsBacked(t, target[t])'
  BY <1>1, <1>2 DEF BackfillInv, RowsAreBacked, RowIsBacked
<1>5. RowsAreBacked'
  BY <1>1, <1>2, <1>4 DEF BackfillInv, RowsAreBacked
<1>6. RunIsBacked'
  BY <1>1 DEF BackfillInv, RunIsBacked, RequestsAreCounted, RunOutcomeIsEarned
<1>7. ASSUME NEW p \in Procs, Active(p)
      PROVE  ProcessIsBacked(proc[p])'
  <2>1. ProcessIsBacked(proc[p])
    BY <1>7 DEF BackfillInv
  <2>2. CopiesAreBacked(proc[p])'
    BY <1>1, <1>2, <2>1 DEF ProcessIsBacked, CopiesAreBacked, RowIsBacked
  <2>3. proc[p].pc \in Working => proc[p].at \in Targets
    BY <2>1 DEF ProcessIsBacked, PagesAreBacked
  <2>4. PagesAreBacked(proc[p])'
    BY <1>1, <1>2, <2>1, <2>3 DEF ProcessIsBacked, PagesAreBacked
  <2>5. ChargesAreBacked(proc[p])'
    BY <1>1, <2>1 DEF ProcessIsBacked, ChargesAreBacked
  <2>6. CopiesAreCurrent(proc[p])'
    BY <1>1, <2>1 DEF ProcessIsBacked, CopiesAreCurrent
  <2>7. QED
    BY <2>2, <2>4, <2>5, <2>6 DEF ProcessIsBacked
<1>8. \A p \in Procs : Active(p)' <=> Active(p)
  BY <1>1 DEF Active
<1>9. QED
  BY <1>1, <1>3, <1>5, <1>6, <1>7, <1>8 DEF BackfillInv

-----------------------------------------------------------------------------
(* What every run of the program keeps.                                    *)

\* Nothing is stored, read or charged at the start.
LEMMA BackfillStarts == Init => BackfillInv
<1> SUFFICES ASSUME Init PROVE BackfillInv
  OBVIOUS
<1>1. \A p \in Procs : ~Active(p)
  BY DEF Init, Active
<1>2. \A t \in Targets : held[t] \in SUBSET Days /\ held[t] \subseteq Expected[t]
  BY DEF Init, Days
<1>3. TypeOK
  <2>1. run \in Run
    BY DEF Init, Run, RunStatus
  <2>2. target \in [Targets -> Target] /\ \A t \in Targets : target[t].confirmed = {}
    BY DEF Init, Target, TargetStatus
  <2>3. held \in [Targets -> SUBSET Days] /\ made \in 0..MaxMade /\ approved \in 0..MaxBudget
    BY DEF Init
  <2>4. /\ price \in [Targets -> [Days -> {"none", "same", "differs"}]]
        /\ conflicts \in [Targets -> SUBSET Days] /\ overlap \in BOOLEAN
        /\ proc \in [Procs -> Process \cup {Nil}]
    BY DEF Init
  <2>5. QED
    BY <2>1, <2>2, <2>3, <2>4 DEF TypeOK
<1>4. RowsAreBacked
  BY <1>2 DEF Init, RowsAreBacked, RowIsBacked
<1>5. RunIsBacked
  BY DEF Init, RunIsBacked, RequestsAreCounted, RunOutcomeIsEarned, Over
<1>6. QED
  BY <1>1, <1>3, <1>4, <1>5 DEF BackfillInv

\* Every step keeps the invariant.
LEMMA BackfillSteps == BackfillInv /\ [Next]_vars => BackfillInv'
<1> SUFFICES ASSUME BackfillInv, [Next]_vars PROVE BackfillInv'
  OBVIOUS
<1>1. ASSUME NEW p \in Procs, Step(p)
      PROVE  BackfillInv'
  BY <1>1, SkipKeepsBackfill, ExhaustKeepsBackfill, EndKeepsBackfill, OpenKeepsBackfill,
     NoAnswerKeepsBackfill, AnswerUnusableKeepsBackfill, AnswerPageKeepsBackfill,
     StoreKeepsBackfill, WriteFailsKeepsBackfill, FinalizeKeepsBackfill DEF Step
<1>2. QED
  BY <1>1, CommandsKeepBackfill, CrashKeepsBackfill, ReconcileKeepsBackfill, BatchKeepsBackfill
     DEF Next

\* The inductive invariant holds of every behaviour.
LEMMA BackfillInvariant == Spec => []BackfillInv
<1>1. BackfillInv /\ [Next]_vars => BackfillInv'
  BY BackfillSteps
<1>2. QED
  BY <1>1, BackfillStarts, PTL DEF Spec

\* Rows, copies and counters have their types.
THEOREM BackfillTypeTheorem == Spec => []TypeOK
<1>1. BackfillInv => TypeOK
  BY DEF BackfillInv
<1>2. QED
  BY <1>1, BackfillInvariant, PTL

\* No crash, rollback or second process leaves a checkpoint, or a recorded
\* conflict, ahead of the stored prices.
THEOREM ConfirmedTheorem == Spec => []ConfirmedIsStored
<1>1. BackfillInv => ConfirmedIsStored
  BY DEF BackfillInv, RowsAreBacked, RowIsBacked, Priced, ConfirmedIsStored
<1>2. QED
  BY <1>1, BackfillInvariant, PTL

\* A target is completed only when all the source holds of it is stored, and,
\* while commands do not overlap, accounted for by its checkpoint.
THEOREM CollectedTheorem == Spec => []CompletedTargetIsCollected
<1>1. BackfillInv => CompletedTargetIsCollected
  BY DEF BackfillInv, RowsAreBacked, RowIsBacked, Priced, CompletedTargetIsCollected
<1>2. QED
  BY <1>1, BackfillInvariant, PTL

\* The run is charged no more requests than were made, and no more than were
\* approved while commands do not overlap.
THEOREM ChargesTheorem == Spec => []RequestsAreCounted
<1>1. BackfillInv => RequestsAreCounted
  BY DEF BackfillInv, RunIsBacked
<1>2. QED
  BY <1>1, BackfillInvariant, PTL

\* While commands do not overlap, a run with an outcome has earned it.
THEOREM OutcomeTheorem == Spec => []RunOutcomeIsEarned
<1>1. BackfillInv => RunOutcomeIsEarned
  BY DEF BackfillInv, RunIsBacked
<1>2. QED
  BY <1>1, BackfillInvariant, PTL

\* A process alone with a finished run faces and reads no target, and has the
\* run's status as it is.
LEMMA NothingLeftToDo ==
  ASSUME BackfillInv, ~overlap, run.status \in Over, NEW p \in Procs, Active(p)
  PROVE  /\ proc[p].pc \notin Working /\ \A t \in Targets : ~Facing(p, t)
         /\ proc[p].base = run /\ proc[p].mine.status = run.status
         /\ \A t \in Targets : Seen(p, t) = target[t]
<1>1. ProcessIsBacked(proc[p])
  BY DEF BackfillInv
<1>2. /\ proc[p].pc \notin Working /\ proc[p].base = run
      /\ proc[p].mine.status = run.status
  BY <1>1 DEF ProcessIsBacked, CopiesAreCurrent, Over
<1>3. \A t \in Targets : ~Facing(p, t)
  BY FacingIsOpen
<1>4. \A t \in Targets : Seen(p, t) = target[t]
  BY SeenIsBacked
<1>5. QED
  BY <1>2, <1>3, <1>4

\* Looking at the targets of a finished run again gives its outcome again.
LEMMA SameOutcome ==
  ASSUME RunOutcomeIsEarned, ~overlap, run.status \in Over
  PROVE  Outcome({target[t].status : t \in Targets}) = run.status
<1>1. /\ \A t \in Targets : target[t].status \in {"completed", "failed"}
      /\ run.status = "completed" <=> \A t \in Targets : target[t].status = "completed"
  BY DEF RunOutcomeIsEarned
<1>2. Targets # {}
  BY DEF Targets
<1>3. {target[t].status : t \in Targets} = {"completed"} <=>
        \A t \in Targets : target[t].status = "completed"
  BY <1>2
<1>4. QED
  BY <1>1, <1>3 DEF Outcome, Over

\* While commands do not overlap, neither a finished run nor its targets
\* change any more.
THEOREM FinalTheorem == Spec => RunOutcomeIsFinal
<1>1. ASSUME BackfillInv, [Next]_vars, ~overlap', run.status \in Over
      PROVE  run'.status = run.status /\ target' = target
  <2>1. TypeOK /\ RunOutcomeIsEarned /\ run \in Run /\ overlap \in BOOLEAN
        /\ target \in [Targets -> Target]
    BY <1>1 DEF BackfillInv, RunIsBacked, TypeOK
  <2>2. ASSUME NEW p \in Procs, Step(p)
        PROVE  run'.status = run.status /\ target' = target
    <3>1. Active(p)
      BY <2>2 DEF Step, SkipTarget, ExhaustBudget, FailUnresolved, OpenPages, FetchFails,
         AnswerUnusable, AnswerPage, BudgetEnds, PassPage, StorePage, CompleteCollection,
         FailTarget, LeaveTarget, WriteFails, FinalizeRun, Facing, MayAsk, At
    <3>2. ~overlap
      BY <1>1, <2>2 DEF Step, SkipTarget, ExhaustBudget, FailUnresolved, OpenPages, FetchFails,
         AnswerUnusable, AnswerPage, BudgetEnds, PassPage, StorePage, CompleteCollection,
         FailTarget, LeaveTarget, WriteFails, FinalizeRun
    <3>3. /\ proc[p].pc \notin {"fetch", "store", "ended"} /\ \A t \in Targets : ~Facing(p, t)
          /\ proc[p].base = run /\ proc[p].mine.status = run.status
          /\ \A t \in Targets : Seen(p, t) = target[t]
      BY <1>1, <3>1, <3>2, NothingLeftToDo DEF Working
    <3>4. SkipTarget(p) \/ FinalizeRun(p)
      BY <2>2, <3>3 DEF Step, ExhaustBudget, FailUnresolved, OpenPages, FetchFails,
         AnswerUnusable, AnswerPage, BudgetEnds, PassPage, StorePage, CompleteCollection,
         FailTarget, LeaveTarget, WriteFails, At, MayAsk, Current
    <3>5. CASE SkipTarget(p)
      BY <3>5 DEF SkipTarget
    <3>6. CASE FinalizeRun(p)
      <4> DEFINE statuses == {Seen(p, t).status : t \in Targets}
                 mine == IF statuses \subseteq {"completed", "failed"}
                           THEN [proc[p].mine EXCEPT !.status = Outcome(statuses)]
                           ELSE proc[p].mine
      <4>1. run' = Written(run, run, mine) /\ target' = target
        BY <3>3, <3>6 DEF FinalizeRun
      <4>2. proc[p].mine \in Run
        BY <2>1, <3>1, ActiveProcess
      <4>3. Outcome(statuses) = run.status
        <5>1. statuses = {target[t].status : t \in Targets}
          BY <3>3
        <5>2. QED
          BY <1>1, <2>1, <3>2, <5>1, SameOutcome
      <4>4. mine \in Run /\ mine.status = run.status
        BY <3>3, <4>2, <4>3, <2>1 DEF Run
      <4> HIDE DEF mine
      <4>5. Written(run, run, mine) = mine
        BY <2>1, <4>4, WrittenRun
      <4>6. QED
        BY <4>1, <4>4, <4>5
    <3>7. QED
      BY <3>4, <3>5, <3>6
  <2>3. CASE Reconcile
    <3> DEFINE Row(t) == IF target[t].status = "running" /\ First(t) \in target[t].confirmed
                           THEN [target[t] EXCEPT !.status = "completed"] ELSE target[t]
               statuses == {Row(t).status : t \in Targets}
    <3>1. ~overlap
      BY <1>1, <2>1, <2>3 DEF Reconcile
    <3>2. \A t \in Targets : Row(t) = target[t]
      BY <1>1, <2>1, <3>1 DEF RunOutcomeIsEarned
    <3>3. /\ target' = [t \in Targets |-> Row(t)]
          /\ run' = IF statuses \subseteq {"completed", "failed"}
                      THEN [run EXCEPT !.status = Outcome(statuses)] ELSE run
      BY <2>3 DEF Reconcile
    <3> HIDE DEF Row
    <3>4. target' = target
      BY <2>1, <3>2, <3>3
    <3>5. statuses = {target[t].status : t \in Targets}
      BY <3>2
    <3>6. Outcome(statuses) = run.status
      BY <1>1, <2>1, <3>1, <3>5, SameOutcome
    <3> HIDE DEF statuses
    <3>7. QED
      BY <2>1, <3>3, <3>4, <3>6 DEF Run
  <2>4. QED
    BY <1>1, <2>2, <2>3 DEF Next, vars, StartRun, ResumeRun, Crash, BatchWrites
<1>2. BackfillInv /\ [Next]_vars =>
        [~overlap' /\ run.status \in Over => run'.status = run.status /\ target' = target]_vars
  BY <1>1
<1>3. QED
  BY <1>2, BackfillInvariant, PTL DEF Spec, RunOutcomeIsFinal

-----------------------------------------------------------------------------
(* The ledger of the backfill: HistoricalBackfill implements BackfillLedger. *)

\* A process alone reads pages only for a target that is open, or that its own
\* pages have completed.
WorkIsPursued ==
  ~overlap =>
    \A p \in Procs : Active(p) /\ proc[p].pc \in Working => Promise!Pursued(proc[p].at)

\* Commands that overlap have overlapped for good.
LEMMA OverlapStays ==
  ASSUME [Next]_vars, ~overlap'
  PROVE  ~overlap
<1>1. ASSUME NEW p \in Procs, Step(p)
      PROVE  UNCHANGED overlap
  BY <1>1 DEF Step, SkipTarget, ExhaustBudget, FailUnresolved, OpenPages, FetchFails,
         AnswerUnusable, AnswerPage, BudgetEnds, PassPage, StorePage, CompleteCollection,
         FailTarget, LeaveTarget, WriteFails, FinalizeRun
<1>2. QED
  BY <1>1 DEF Next, StartRun, ResumeRun, Crash, Reconcile, BatchWrites, vars

\* Only a process that is there takes a step.
LEMMA StepperIsActive ==
  ASSUME NEW p \in Procs, Step(p)
  PROVE  Active(p)
BY DEF Step, SkipTarget, ExhaustBudget, FailUnresolved, OpenPages, FetchFails,
       AnswerUnusable, AnswerPage, BudgetEnds, PassPage, StorePage, CompleteCollection,
       FailTarget, LeaveTarget, WriteFails, FinalizeRun, Facing, MayAsk, At

\* Alone, a commit writes the process's own row of the run, which charges what
\* the process has asked.
LEMMA CommitBooks ==
  ASSUME BackfillInv, BackfillInv', ~overlap, ~overlap', NEW p \in Procs, Active(p),
         NEW mine \in Run, mine.used = proc[p].mine.used,
         run' = Written(run, proc[p].base, mine), UNCHANGED <<made, approved>>
  PROVE  run' = mine /\ Promise!Booked
<1>1. /\ run \in Run /\ proc[p].base \in Run /\ proc[p].base = run
      /\ proc[p].base.status # "none" => proc[p].base.used <= proc[p].mine.used
  BY ActiveProcess DEF BackfillInv, TypeOK, ProcessIsBacked, ChargesAreBacked, CopiesAreCurrent
<1>2. run' = mine
  BY <1>1, WrittenRun
<1>3. run'.used <= made' /\ run'.used <= approved' /\ run'.budget <= approved'
  BY DEF BackfillInv, RunIsBacked, RequestsAreCounted
<1>4. QED
  BY <1>1, <1>2, <1>3 DEF Promise!Booked

\* The same of a commit that leaves the run's status to the process.
LEMMA CommitContinues ==
  ASSUME BackfillInv, BackfillInv', ~overlap, ~overlap', NEW p \in Procs, Active(p),
         run' = Written(run, proc[p].base, proc[p].mine), UNCHANGED <<made, approved>>
  PROVE  Promise!Booked /\ Promise!Continued
<1>1. proc[p].mine \in Run /\ ProcessIsBacked(proc[p])
  BY ActiveProcess DEF BackfillInv
<1>2. run' = proc[p].mine /\ Promise!Booked
  BY <1>1, CommitBooks
<1>3. QED
  BY <1>1, <1>2 DEF ProcessIsBacked, CopiesAreCurrent, Promise!Continued

\* Alone, a commit of a target's row writes that row.
LEMMA CommitWrites ==
  ASSUME BackfillInv, ~overlap, NEW p \in Procs, Active(p), NEW t \in Targets,
         NEW r \in Target, NEW y, CommitTarget(p, t, r, y)
  PROVE  /\ target' = [target EXCEPT ![t] = r]
         /\ run' = Written(run, proc[p].base, proc[p].mine)
<1>1. target \in [Targets -> Target] /\ Seen(p, t) = target[t] /\ target[t] \in Target
  BY SeenIsBacked DEF BackfillInv, TypeOK
<1>2. Written(target[t], Seen(p, t), r) = r
  BY <1>1, WrittenTarget
<1>3. target' = [target EXCEPT ![t] = Written(target[t], Seen(p, t), r)]
  BY <1>1 DEF CommitTarget
<1>4. QED
  BY <1>2, <1>3 DEF CommitTarget, CommitRun

\* A page's commit, for a process alone.
PageWrites(p, t, page) ==
  LET confirmed == target[t].confirmed \cup {d \in page : price[t][d] # "differs"} IN
  /\ page \subseteq held[t] /\ page \subseteq Days
  /\ price' = [price EXCEPT ![t] =
       [d \in Days |-> IF d \in page /\ price[t][d] = "none" THEN "same" ELSE price[t][d]]]
  /\ conflicts' = [conflicts EXCEPT ![t] = conflicts[t] \cup {d \in page : price[t][d] = "differs"}]
  /\ target' = [target EXCEPT ![t] =
       [status |-> IF confirmed = Expected[t] THEN "completed" ELSE "running",
        confirmed |-> confirmed]]
  /\ run' = Written(run, proc[p].base, proc[p].mine)

\* That is what storing a page writes.
LEMMA StoreWrites ==
  ASSUME BackfillInv, ~overlap, NEW p \in Procs, StorePage(p)
  PROVE  \E t \in Targets, page \in SUBSET Days : t = proc[p].at /\ PageWrites(p, t, page)
<1>1. /\ Active(p) /\ proc[p] \in Process /\ PagesAreBacked(proc[p]) /\ TypeOK /\ RowsAreBacked
      /\ proc[p].pc = "store" /\ proc[p].pc \in Working
  BY ActiveProcess DEF StorePage, At, BackfillInv, ProcessIsBacked, Working
<1>2. PICK t \in Targets, page \in SUBSET Days : t = proc[p].at /\ page = proc[p].page
  BY <1>1 DEF PagesAreBacked, Process
<1>3. page \subseteq held[t] /\ held[t] \subseteq Expected[t]
  BY <1>1, <1>2 DEF PagesAreBacked, RowsAreBacked
<1>4. Seen(p, t) = target[t] /\ target[t] \in Target
  BY <1>1, SeenIsBacked
<1> DEFINE confirmed == target[t].confirmed \cup {d \in page : price[t][d] # "differs"}
           row == [status |-> IF confirmed = Expected[t] THEN "completed" ELSE "running",
                   confirmed |-> confirmed]
<1>5. row \in Target
  BY <1>4 DEF Target, TargetStatus
<1>6. CommitTarget(p, t, row, AfterPage(p))
  <2>1. row = Progress(t, Seen(p, t), Confirmed(t, page))
    BY <1>4 DEF Progress, Confirmed
  <2>2. CommitTarget(p, t, Progress(t, Seen(p, t), Confirmed(t, page)), AfterPage(p))
    BY <1>2 DEF StorePage, Current
  <2> HIDE DEF row
  <2>3. QED
    BY <2>1, <2>2
<1>7. PICK r \in Target : r = row
  BY <1>5
<1> HIDE DEF row
<1>8. PICK y : y = AfterPage(p)
  OBVIOUS
<1>9. /\ target' = [target EXCEPT ![t] = r]
      /\ run' = Written(run, proc[p].base, proc[p].mine)
  BY <1>1, <1>6, <1>7, <1>8, CommitWrites
<1>10. /\ price' = [price EXCEPT ![t] =
            [d \in Days |-> IF d \in page /\ price[t][d] = "none" THEN "same" ELSE price[t][d]]]
       /\ conflicts' = [conflicts EXCEPT ![t] = conflicts[t] \cup {d \in page : price[t][d] = "differs"}]
  <2>1. /\ price' = [price EXCEPT ![t] =
             [d \in Days |-> IF d \in page /\ @[d] = "none" THEN "same" ELSE @[d]]]
        /\ conflicts' = [conflicts EXCEPT ![t] = @ \cup {d \in page : price[t][d] = "differs"}]
    BY <1>2 DEF StorePage, Current
  <2>2. QED
    BY <1>1, <2>1 DEF TypeOK
<1>11. PageWrites(p, t, page)
  BY <1>3, <1>7, <1>9, <1>10 DEF PageWrites, row
<1>12. QED
  BY <1>2, <1>11

\* A page and its checkpoint are one step of the ledger.
LEMMA StoreCollects ==
  ASSUME BackfillInv, BackfillInv', WorkIsPursued, ~overlap, ~overlap',
         NEW p \in Procs, StorePage(p)
  PROVE  Promise!LedgerNext
<1>1. PICK t \in Targets, page \in SUBSET Days : t = proc[p].at /\ PageWrites(p, t, page)
  BY StoreWrites
<1>2. /\ Active(p) /\ proc[p].pc \in Working /\ run.status \notin Over
  BY DEF StorePage, At, BackfillInv, ProcessIsBacked, CopiesAreCurrent, Working
<1>3. Promise!Pursued(t)
  BY <1>1, <1>2 DEF WorkIsPursued
<1>4. UNCHANGED <<held, made, approved>>
  BY DEF StorePage
<1>5. Promise!Booked /\ Promise!Continued
  BY <1>1, <1>2, <1>4, CommitContinues DEF PageWrites
<1> DEFINE differing == {d \in page : price[t][d] = "differs"}
           confirmed == target[t].confirmed \cup (page \ differing)
<1>6. /\ page \in SUBSET held[t]
      /\ price' = [price EXCEPT ![t] =
           [d \in Days |-> IF d \in page /\ price[t][d] = "none" THEN "same" ELSE price[t][d]]]
      /\ conflicts' = [conflicts EXCEPT ![t] = conflicts[t] \cup differing]
      /\ target' = [target EXCEPT ![t] =
           [status |-> IF confirmed = Expected[t] THEN "completed" ELSE "running",
            confirmed |-> confirmed]]
  <2>1. confirmed = target[t].confirmed \cup {d \in page : price[t][d] # "differs"}
    OBVIOUS
  <2> HIDE DEF confirmed
  <2>2. QED
    BY <1>1, <2>1 DEF PageWrites
<1>7. Promise!Collect(t)
  BY <1>2, <1>3, <1>4, <1>5, <1>6 DEF Promise!Collect, Promise!Undisturbed, Promise!Outcomes, Over
<1>8. QED
  BY <1>7 DEF Promise!LedgerNext

\* The end of a target, for a process alone: completed only when the source
\* has been read to its end.
LEMMA EndSettles ==
  ASSUME BackfillInv, BackfillInv', WorkIsPursued, ~overlap, ~overlap',
         NEW p \in Procs, CompleteCollection(p) \/ FailTarget(p) \/ FailUnresolved(p)
  PROVE  Promise!LedgerNext
<1> DEFINE Y == [proc[p] EXCEPT !.pc = "next", !.at = @ + 1]
<1>1. Active(p) /\ TypeOK /\ RowsAreBacked /\ ProcessIsBacked(proc[p])
      /\ UNCHANGED <<price, conflicts, held, made, approved>>
  BY DEF CompleteCollection, FailTarget, FailUnresolved, Facing, At, BackfillInv
<1>2. \E t \in Targets, status \in {"completed", "failed"} :
        /\ CommitTarget(p, t, [Seen(p, t) EXCEPT !.status = status], Y)
        /\ Promise!Pursued(t) /\ run.status \notin Over
        /\ status = "completed" => Promise!Collected(t)
  <2>1. CASE CompleteCollection(p) \/ FailTarget(p)
    <3>1. proc[p].pc = "ended" /\ proc[p].pc \in Working
      BY <2>1 DEF CompleteCollection, FailTarget, At, Working
    <3>2. PICK t \in Targets : t = proc[p].at
      BY <1>1, <3>1 DEF ProcessIsBacked, PagesAreBacked
    <3>3. Promise!Pursued(t) /\ run.status \notin Over /\ proc[p].page = {}
      BY <1>1, <3>1, <3>2 DEF WorkIsPursued, ProcessIsBacked, CopiesAreCurrent, PagesAreBacked
    <3>4. proc[p].reason \in Complete => Promise!Collected(t)
      BY <1>1, <3>1, <3>2, <3>3 DEF ProcessIsBacked, PagesAreBacked, Promise!Collected
    <3>5. \E status \in {"completed", "failed"} :
            /\ CommitTarget(p, t, [Seen(p, t) EXCEPT !.status = status], Y)
            /\ status = "completed" => proc[p].reason \in Complete
      BY <2>1, <3>2 DEF CompleteCollection, FailTarget, MarkFailure, Current, Completes
    <3>6. QED
      BY <3>3, <3>4, <3>5
  <2>2. CASE FailUnresolved(p)
    <3>1. PICK t \in Unresolved : Facing(p, t) /\ MarkFailure(p, t)
      BY <2>2 DEF FailUnresolved
    <3>2. t \in Targets /\ run.status \notin Over
      BY <3>1, FacingIsOpen
    <3>3. Promise!Pursued(t)
      <4>1. Seen(p, t).status \in {"pending", "running"}
        BY <3>1 DEF Facing
      <4>2. Seen(p, t) = target[t]
        BY <1>1, <3>2, SeenIsBacked
      <4>3. QED
        BY <4>1, <4>2 DEF Promise!Pursued, Promise!Open
    <3>4. CommitTarget(p, t, [Seen(p, t) EXCEPT !.status = "failed"], Y)
      BY <3>1 DEF MarkFailure
    <3>5. QED
      BY <3>2, <3>3, <3>4
  <2>3. QED
    BY <2>1, <2>2
<1>3. PICK t \in Targets, status \in {"completed", "failed"} :
        /\ CommitTarget(p, t, [Seen(p, t) EXCEPT !.status = status], Y)
        /\ Promise!Pursued(t) /\ run.status \notin Over
        /\ status = "completed" => Promise!Collected(t)
  BY <1>2
<1> HIDE DEF Y
<1>4. Seen(p, t) = target[t] /\ target[t] \in Target
  BY <1>1, SeenIsBacked DEF TypeOK
<1>5. PICK r \in Target : /\ r = [Seen(p, t) EXCEPT !.status = status]
                          /\ r = [status |-> status, confirmed |-> target[t].confirmed]
  <2>1. PICK x \in Target : x = target[t]
    BY <1>4
  <2>2. /\ [x EXCEPT !.status = status] = [status |-> status, confirmed |-> x.confirmed]
        /\ [x EXCEPT !.status = status] \in Target
    BY <2>1 DEF Target, TargetStatus
  <2>3. QED
    BY <1>4, <2>1, <2>2
<1>6. CommitTarget(p, t, r, Y)
  BY <1>3, <1>5
<1>7. PICK y : y = Y
  OBVIOUS
<1>8. /\ target' = [target EXCEPT ![t] = r]
      /\ run' = Written(run, proc[p].base, proc[p].mine)
  BY <1>1, <1>6, <1>7, CommitWrites
<1>9. Promise!Booked /\ Promise!Continued
  BY <1>1, <1>8, CommitContinues
<1>10. Promise!Settle(t)
  BY <1>1, <1>3, <1>5, <1>8, <1>9 DEF Promise!Settle, Promise!Undisturbed, Promise!Outcomes, Over
<1>11. QED
  BY <1>10 DEF Promise!LedgerNext

\* An exception fails the target in hand, the rest of the session is forgotten.
LEMMA ErrorSettles ==
  ASSUME BackfillInv, BackfillInv', WorkIsPursued, ~overlap, ~overlap',
         NEW p \in Procs, WriteFails(p)
  PROVE  Promise!LedgerNext
<1>1. /\ Active(p) /\ TypeOK /\ ProcessIsBacked(proc[p])
      /\ UNCHANGED <<run, price, conflicts, held, approved>>
      /\ made' \in {made, made + 1}
  <2>1. made' \in {made, made + 1}
    BY DEF WriteFails
  <2>2. QED
    BY <2>1 DEF WriteFails, BackfillInv
<1>2. PICK t \in Targets : t = proc[p].at
  BY DEF WriteFails, Current
<1>3. Promise!Pursued(t) /\ run.status \notin Over
  <2>1. CASE proc[p].pc \in {"fetch", "store", "ended"}
    BY <1>1, <1>2, <2>1 DEF WorkIsPursued, ProcessIsBacked, CopiesAreCurrent, Working
  <2>2. CASE Facing(p, t)
    <3>1. Seen(p, t).status \in {"pending", "running"}
      BY <2>2 DEF Facing
    <3>2. Seen(p, t) = target[t]
      BY <1>1, SeenIsBacked
    <3>3. QED
      BY <2>2, <3>1, <3>2, FacingIsOpen DEF Promise!Pursued, Promise!Open
  <2>3. QED
    BY <1>2, <2>1, <2>2 DEF WriteFails, Current
<1>4. target' = [target EXCEPT ![t] = [status |-> "failed", confirmed |-> target[t].confirmed]]
  <2>1. target' = [target EXCEPT ![t].status = "failed"]
    BY <1>2 DEF WriteFails, Current
  <2>2. target \in [Targets -> Target] /\ target[t] \in Target
    BY <1>1 DEF TypeOK
  <2>3. [target[t] EXCEPT !.status = "failed"] = [status |-> "failed", confirmed |-> target[t].confirmed]
    BY <2>2 DEF Target
  <2>4. QED
    BY <2>1, <2>2, <2>3
<1>5. Promise!Booked /\ Promise!Continued
  <2>1. run'.used <= made' /\ run'.used <= approved' /\ run'.budget <= approved'
    BY DEF BackfillInv, RunIsBacked, RequestsAreCounted
  <2>2. run.used \in Nat
    BY <1>1 DEF TypeOK, Run
  <2>3. QED
    BY <1>1, <2>1, <2>2 DEF Promise!Booked, Promise!Continued
<1>6. Promise!Settle(t)
  BY <1>1, <1>3, <1>4, <1>5 DEF Promise!Settle, Promise!Undisturbed, Promise!Outcomes, Over
<1>7. QED
  BY <1>6 DEF Promise!LedgerNext

\* The budget ends with a target open.
LEMMA ExhaustionExhausts ==
  ASSUME BackfillInv, BackfillInv', ~overlap, ~overlap', NEW p \in Procs, ExhaustBudget(p)
  PROVE  Promise!LedgerNext
<1>1. PICK t \in Targets : Facing(p, t)
  BY DEF ExhaustBudget
<1>2. Active(p) /\ run.status \notin Over
  BY <1>1, FacingIsOpen
<1>3. Promise!Open(t)
  <2>1. Seen(p, t).status \in {"pending", "running"} /\ Seen(p, t) = target[t]
    BY <1>1, <1>2, SeenIsBacked DEF Facing
  <2>2. QED
    BY <2>1 DEF Promise!Open
<1>4. PICK mine \in Run : mine = [proc[p].mine EXCEPT !.status = "budget_exhausted"]
  <2>1. proc[p].mine \in Run
    BY <1>2, ActiveProcess DEF BackfillInv
  <2>2. QED
    BY <2>1 DEF Run, RunStatus
<1>5. mine.used = proc[p].mine.used /\ mine.status = "budget_exhausted"
  <2>1. proc[p].mine \in Run
    BY <1>2, ActiveProcess DEF BackfillInv
  <2>2. QED
    BY <1>4, <2>1 DEF Run
<1>6. /\ run' = Written(run, proc[p].base, mine)
      /\ UNCHANGED <<target, price, conflicts, held, made, approved>>
  BY <1>4 DEF ExhaustBudget, CommitRun
<1>7. run' = mine /\ Promise!Booked
  BY <1>2, <1>5, <1>6, CommitBooks
<1>8. Promise!Exhaust
  BY <1>2, <1>3, <1>5, <1>6, <1>7 DEF Promise!Exhaust, Promise!Undisturbed, Promise!Outcomes, Over
<1>9. QED
  BY <1>8 DEF Promise!LedgerNext

\* The outcome of a run whose targets are all settled.
LEMMA OutcomeOfTargets ==
  ASSUME NEW row, {row[t].status : t \in Targets} \subseteq {"completed", "failed"}
  PROVE  /\ \A t \in Targets : row[t].status \in {"completed", "failed"}
         /\ Outcome({row[t].status : t \in Targets}) =
              IF \A t \in Targets : row[t].status = "completed"
                THEN "completed" ELSE "completed_partial"
<1>1. Targets # {}
  BY DEF Targets
<1>2. {row[t].status : t \in Targets} = {"completed"} <=> \A t \in Targets : row[t].status = "completed"
  BY <1>1
<1>3. \A t \in Targets : row[t].status \in {"completed", "failed"}
  OBVIOUS
<1>4. QED
  BY <1>2, <1>3 DEF Outcome

\* The end of a run, for a process alone.
LEMMA FinalizeConcludes ==
  ASSUME BackfillInv, BackfillInv', ~overlap, ~overlap', NEW p \in Procs, FinalizeRun(p)
  PROVE  Promise!LedgerNext
<1> DEFINE statuses == {target[t].status : t \in Targets}
           mine == IF statuses \subseteq {"completed", "failed"}
                     THEN [proc[p].mine EXCEPT !.status = Outcome(statuses)] ELSE proc[p].mine
<1>1. /\ Active(p) /\ TypeOK /\ ProcessIsBacked(proc[p]) /\ proc[p].mine \in Run
      /\ UNCHANGED <<target, price, conflicts, held, made, approved>>
  BY ActiveProcess DEF FinalizeRun, At, BackfillInv
<1>2. \A t \in Targets : Seen(p, t) = target[t]
  BY <1>1, SeenIsBacked
<1>3. run' = Written(run, proc[p].base, mine)
  <2>1. {Seen(p, t).status : t \in Targets} = statuses
    BY <1>2
  <2> HIDE DEF statuses
  <2>2. QED
    BY <2>1 DEF FinalizeRun
<1>4. Outcome(statuses) \in RunStatus
  BY DEF Outcome, RunStatus
<1>5. PICK m \in Run : m = mine
  BY <1>1, <1>4 DEF Run
<1>6. /\ m.used = proc[p].mine.used
      /\ IF statuses \subseteq {"completed", "failed"}
           THEN m.status = Outcome(statuses) ELSE m.status = proc[p].mine.status
  BY <1>1, <1>5 DEF Run
<1> HIDE DEF mine
<1>7. run' = m /\ Promise!Booked
  BY <1>1, <1>3, <1>5, <1>6, CommitBooks
<1>8. target' = [t \in Targets |-> [status |-> IF t \in {} THEN "completed" ELSE target[t].status,
                                    confirmed |-> target[t].confirmed]]
  <2>1. target \in [Targets -> Target]
    BY <1>1 DEF TypeOK
  <2>2. \A t \in Targets : target[t] = [status |-> target[t].status, confirmed |-> target[t].confirmed]
    BY <2>1 DEF Target
  <2>3. QED
    BY <1>1, <2>1, <2>2
<1>9. \/ Promise!Continued
      \/ /\ \A t \in Targets : target'[t].status \in {"completed", "failed"}
         /\ run'.status = IF \A t \in Targets : target'[t].status = "completed"
                            THEN "completed" ELSE "completed_partial"
  <2>1. CASE statuses \subseteq {"completed", "failed"}
    BY <1>1, <1>6, <1>7, <2>1, OutcomeOfTargets
  <2>2. CASE ~ (statuses \subseteq {"completed", "failed"})
    BY <1>1, <1>6, <1>7, <2>2 DEF ProcessIsBacked, CopiesAreCurrent, Promise!Continued
  <2>3. QED
    BY <2>1, <2>2
<1>10. PICK collected \in SUBSET {t \in Targets : target[t].status = "running" /\ Promise!Collected(t)} :
         collected = {}
  OBVIOUS
<1>11. Promise!Conclude
  BY <1>1, <1>7, <1>8, <1>9, <1>10 DEF Promise!Conclude, Promise!Undisturbed
<1>12. QED
  BY <1>11 DEF Promise!LedgerNext

\* An operator's look at the targets, while no process is there.
LEMMA ReconcileConcludes ==
  ASSUME BackfillInv, BackfillInv', ~overlap, ~overlap', Reconcile
  PROVE  Promise!LedgerNext
<1> DEFINE Row(t) == IF target[t].status = "running" /\ First(t) \in target[t].confirmed
                       THEN [target[t] EXCEPT !.status = "completed"] ELSE target[t]
           collected == {t \in Targets : target[t].status = "running" /\ First(t) \in target[t].confirmed}
<1>1. TypeOK /\ RowsAreBacked /\ UNCHANGED <<price, conflicts, held, made, approved>>
  BY DEF Reconcile, BackfillInv
<1>2. /\ target' = [t \in Targets |-> Row(t)]
      /\ run' = IF {Row(t).status : t \in Targets} \subseteq {"completed", "failed"}
                  THEN [run EXCEPT !.status = Outcome({Row(t).status : t \in Targets})] ELSE run
  BY DEF Reconcile
<1>3. \A t \in Targets :
        Row(t) = [status |-> IF t \in collected THEN "completed" ELSE target[t].status,
                  confirmed |-> target[t].confirmed]
  <2>1. \A t \in Targets : target[t] \in Target
    BY <1>1 DEF TypeOK
  <2>2. QED
    BY <2>1 DEF Target
<1>4. \A t \in collected : Promise!Collected(t)
  BY <1>1 DEF RowsAreBacked, Promise!Collected
<1> HIDE DEF Row
<1>5. target' = [t \in Targets |-> [status |-> IF t \in collected THEN "completed" ELSE target[t].status,
                                    confirmed |-> target[t].confirmed]]
  BY <1>2, <1>3
<1>6. {Row(t).status : t \in Targets} = {target'[t].status : t \in Targets}
  BY <1>2
<1>7. PICK statuses : statuses = {target'[t].status : t \in Targets}
  OBVIOUS
<1>8. run' = IF statuses \subseteq {"completed", "failed"}
               THEN [run EXCEPT !.status = Outcome(statuses)] ELSE run
  BY <1>2, <1>6, <1>7
<1>9. run \in Run /\ run.used \in Nat
  BY <1>1 DEF TypeOK, Run
<1>10. /\ run'.used = run.used
       /\ IF statuses \subseteq {"completed", "failed"} THEN run'.status = Outcome(statuses)
          ELSE run'.status = run.status
  BY <1>8, <1>9 DEF Run
<1>11. Promise!Booked
  <2>1. run'.used <= made' /\ run'.used <= approved' /\ run'.budget <= approved'
    BY DEF BackfillInv, RunIsBacked, RequestsAreCounted
  <2>2. QED
    BY <1>1, <1>9, <1>10, <2>1 DEF Promise!Booked
<1>12. \/ Promise!Continued
       \/ /\ \A t \in Targets : target'[t].status \in {"completed", "failed"}
          /\ run'.status = IF \A t \in Targets : target'[t].status = "completed"
                             THEN "completed" ELSE "completed_partial"
  <2>1. CASE statuses \subseteq {"completed", "failed"}
    BY <1>7, <1>10, <2>1, OutcomeOfTargets
  <2>2. CASE ~ (statuses \subseteq {"completed", "failed"})
    BY <1>10, <2>2 DEF Promise!Continued
  <2>3. QED
    BY <2>1, <2>2
<1>13. collected \in SUBSET {t \in Targets : target[t].status = "running" /\ Promise!Collected(t)}
  BY <1>4
<1> HIDE DEF collected
<1>14. Promise!Conclude
  BY <1>1, <1>5, <1>11, <1>12, <1>13 DEF Promise!Conclude, Promise!Undisturbed
<1>15. QED
  BY <1>14 DEF Promise!LedgerNext

\* Every other step of a process leaves it between targets, or ends it.
LEMMA RestingSteps ==
  ASSUME TypeOK, NEW p \in Procs, Active(p),
         \/ SkipTarget(p) \/ ExhaustBudget(p) \/ FailUnresolved(p) \/ CompleteCollection(p)
         \/ FailTarget(p) \/ LeaveTarget(p) \/ WriteFails(p) \/ FinalizeRun(p)
  PROVE  \E x : proc' = [proc EXCEPT ![p] = x] /\ (x = Nil \/ x.pc \notin Working)
<1>1. proc[p] \in Process
  BY ActiveProcess
<1>2. CASE SkipTarget(p)
  <2>1. PICK u, s : proc' = [proc EXCEPT ![p] = [proc[p] EXCEPT !.at = proc[p].at + 1, !.targets[u] = s]]
    BY <1>2 DEF SkipTarget
  <2>2. [proc[p] EXCEPT !.at = proc[p].at + 1, !.targets[u] = s].pc = "next"
    BY <1>1, <1>2 DEF SkipTarget, At, Process
  <2>3. QED
    BY <2>1, <2>2 DEF Working
<1>3. CASE ExhaustBudget(p)
  <2>1. PICK mine, s : proc' = [proc EXCEPT ![p] =
          [[proc[p] EXCEPT !.pc = "finalize", !.targets = s] EXCEPT !.base = mine, !.mine = mine]]
    BY <1>3 DEF ExhaustBudget, CommitRun, Stopped
  <2>2. [[proc[p] EXCEPT !.pc = "finalize", !.targets = s] EXCEPT !.base = mine, !.mine = mine].pc
          = "finalize"
    BY <1>1 DEF Process
  <2>3. QED
    BY <2>1, <2>2 DEF Working
<1>4. CASE FailUnresolved(p) \/ CompleteCollection(p) \/ FailTarget(p)
  <2>1. PICK t, r : CommitTarget(p, t, r, [proc[p] EXCEPT !.pc = "next", !.at = @ + 1])
    BY <1>4 DEF FailUnresolved, CompleteCollection, FailTarget, MarkFailure
  <2>2. PICK mine : proc' = [proc EXCEPT ![p] =
          [[[proc[p] EXCEPT !.pc = "next", !.at = proc[p].at + 1] EXCEPT !.targets[t] = r]
             EXCEPT !.base = mine, !.mine = mine]]
    BY <1>1, <2>1 DEF CommitTarget, CommitRun
  <2>3. [[[proc[p] EXCEPT !.pc = "next", !.at = proc[p].at + 1] EXCEPT !.targets[t] = r]
             EXCEPT !.base = mine, !.mine = mine].pc = "next"
    BY <1>1 DEF Process
  <2>4. QED
    BY <2>2, <2>3 DEF Working
<1>5. CASE LeaveTarget(p)
  <2>1. proc' = [proc EXCEPT ![p] = [proc[p] EXCEPT !.pc = "next", !.at = @ + 1]]
    BY <1>5 DEF LeaveTarget, TypeOK
  <2>2. [proc[p] EXCEPT !.pc = "next", !.at = @ + 1].pc = "next"
    BY <1>1 DEF Process
  <2>3. QED
    BY <2>1, <2>2 DEF Working
<1>6. CASE WriteFails(p)
  <2>1. PICK s : proc' = [proc EXCEPT ![p] =
          [proc[p] EXCEPT !.pc = "next", !.at = @ + 1, !.page = {}, !.base = run, !.mine = run,
                          !.targets = s]]
    BY <1>6 DEF WriteFails
  <2>2. [proc[p] EXCEPT !.pc = "next", !.at = @ + 1, !.page = {}, !.base = run, !.mine = run,
                        !.targets = s].pc = "next"
    BY <1>1 DEF Process
  <2>3. QED
    BY <2>1, <2>2 DEF Working
<1>7. CASE FinalizeRun(p)
  BY <1>7 DEF FinalizeRun
<1>8. QED
  BY <1>2, <1>3, <1>4, <1>5, <1>6, <1>7

\* What a process alone works on stays pursued.
LEMMA WorkStaysPursued ==
  ASSUME BackfillInv, WorkIsPursued, [Next]_vars
  PROVE  WorkIsPursued'
<1>1. SUFFICES ASSUME ~overlap', NEW p \in Procs, Active(p)', proc'[p].pc \in Working
               PROVE  Promise!Pursued(proc[p].at)'
  BY DEF WorkIsPursued
<1>2. ~overlap /\ TypeOK /\ proc \in [Procs -> Process \cup {Nil}] /\ target \in [Targets -> Target]
  BY <1>1, OverlapStays DEF BackfillInv, TypeOK
<1>3. ASSUME Active(p), proc[p].pc \in Working, proc'[p].at = proc[p].at, target' = target
      PROVE  Promise!Pursued(proc[p].at)'
  <2>1. Promise!Pursued(proc[p].at)
    BY <1>2, <1>3 DEF WorkIsPursued
  <2>2. QED
    BY <1>3, <2>1 DEF Promise!Pursued, Promise!Open
<1>4. CASE proc' = proc /\ target' = target
  <2>1. Active(p) /\ proc[p].pc \in Working
    BY <1>1, <1>4 DEF Active
  <2>2. QED
    BY <1>3, <1>4, <2>1
<1>5. ASSUME NEW q \in Procs, Step(q)
      PROVE  Promise!Pursued(proc[p].at)'
  <2>1. Active(q) /\ proc[q] \in Process
    BY <1>2, <1>5, StepperIsActive, ActiveProcess
  <2>2. ASSUME q # p, proc'[p] = proc[p]
        PROVE  FALSE
    BY <1>1, <1>2, <2>1, <2>2 DEF BackfillInv, Active
  <2>3. CASE OpenPages(q)
    <3>1. PICK t \in Targets \ Unresolved :
            /\ Facing(q, t)
            /\ proc' = [proc EXCEPT ![q] =
                 [proc[q] EXCEPT !.pc = "fetch", !.limit = proc[q].remaining, !.asked = 0,
                                 !.left = held[t], !.targets[t] = Seen(q, t)]]
      BY <2>3 DEF OpenPages
    <3>2. q = p
      BY <1>2, <2>2, <3>1
    <3>3. proc'[p].at = t
      BY <1>2, <2>1, <3>1, <3>2, FacingIsOpen DEF Process
    <3>4. target'[t].status \in {"pending", "running"}
      <4>1. Seen(q, t) = target[t]
        BY <1>2, <2>1, SeenIsBacked
      <4>2. QED
        BY <2>3, <3>1, <4>1 DEF Facing, OpenPages
    <3>5. QED
      BY <3>3, <3>4 DEF Promise!Pursued, Promise!Open
  <2>4. CASE StorePage(q)
    <3>1. PICK t \in Targets, page \in SUBSET Days : t = proc[q].at /\ PageWrites(q, t, page)
      BY <1>2, <2>4, StoreWrites
    <3>2. \E x : x.at = t /\ proc' = [proc EXCEPT ![q] = x]
      <4>1. PICK y \in Process : y = AfterPage(q)
        <5>1. AfterPage(q) \in Process
          BY <2>1 DEF AfterPage, Process
        <5>2. QED
          BY <5>1
      <4>2. y.at = t
        BY <2>1, <3>1, <4>1 DEF AfterPage, Process
      <4>3. PICK r : r = Progress(t, Seen(q, t), Confirmed(t, proc[q].page))
        OBVIOUS
      <4>4. CommitTarget(q, t, r, y)
        BY <2>4, <3>1, <4>1, <4>3 DEF StorePage, Current
      <4>5. proc' = [proc EXCEPT ![q] =
              [[y EXCEPT !.targets[t] = r] EXCEPT !.base = proc[q].mine, !.mine = proc[q].mine]]
        BY <4>4 DEF CommitTarget, CommitRun
      <4>6. [[y EXCEPT !.targets[t] = r] EXCEPT !.base = proc[q].mine, !.mine = proc[q].mine].at = t
        BY <4>1, <4>2 DEF Process
      <4>7. QED
        BY <4>5, <4>6
    <3>3. q = p
      BY <1>2, <2>2, <3>2
    <3>4. proc'[p].at = t
      BY <1>2, <3>2, <3>3
    <3>5. \E c : target'[t] = [status |-> IF c = Expected[t] THEN "completed" ELSE "running",
                               confirmed |-> c]
      BY <1>2, <3>1 DEF PageWrites
    <3>6. Expected' = Expected
      OBVIOUS
    <3>7. QED
      BY <3>4, <3>5 DEF Promise!Pursued, Promise!Open
  <2>5. CASE AnswerPage(q) \/ AnswerUnusable(q) \/ FetchFails(q) \/ BudgetEnds(q) \/ PassPage(q)
    <3>1. \E x : x.at = proc[q].at /\ proc' = [proc EXCEPT ![q] = x]
      <4>1. CASE AnswerPage(q)
        <5>1. PICK rest, page, reason :
                proc' = [proc EXCEPT ![q] =
                  [Answered(q) EXCEPT !.pc = "store", !.page = page, !.left = rest, !.reason = reason]]
          BY <4>1 DEF AnswerPage
        <5>2. Answered(q).at = proc[q].at /\ Answered(q) \in [DOMAIN Answered(q) -> {Answered(q)[f] : f \in DOMAIN Answered(q)}]
              /\ "at" \in DOMAIN Answered(q)
          BY <2>1 DEF Answered, Process
        <5>3. QED
          BY <5>1, <5>2
      <4>2. CASE AnswerUnusable(q)
        <5>1. PICK reason :
                proc' = [proc EXCEPT ![q] = [Answered(q) EXCEPT !.pc = "ended", !.reason = reason]]
          BY <4>2 DEF AnswerUnusable
        <5>2. Answered(q).at = proc[q].at /\ Answered(q) \in [DOMAIN Answered(q) -> {Answered(q)[f] : f \in DOMAIN Answered(q)}]
              /\ "at" \in DOMAIN Answered(q)
          BY <2>1 DEF Answered, Process
        <5>3. QED
          BY <5>1, <5>2
      <4>3. CASE FetchFails(q) \/ BudgetEnds(q)
        <5>1. PICK reason : proc' = [proc EXCEPT ![q] = [proc[q] EXCEPT !.pc = "ended", !.reason = reason]]
          BY <1>2, <4>3 DEF FetchFails, BudgetEnds
        <5>2. [proc[q] EXCEPT !.pc = "ended", !.reason = reason].at = proc[q].at
          BY <2>1 DEF Process
        <5>3. QED
          BY <5>1, <5>2
      <4>4. CASE PassPage(q)
        <5>1. AfterPage(q).at = proc[q].at
          BY <2>1 DEF AfterPage, Process
        <5>2. QED
          BY <4>4, <5>1 DEF PassPage
      <4>5. QED
        BY <2>5, <4>1, <4>2, <4>3, <4>4
    <3>2. q = p /\ proc'[p].at = proc[p].at
      BY <1>2, <2>2, <3>1
    <3>3. proc[p].pc \in Working /\ target' = target
      BY <2>5, <3>2 DEF AnswerPage, AnswerUnusable, FetchFails, BudgetEnds, PassPage, MayAsk, At,
                        Working
    <3>4. QED
      BY <1>3, <2>1, <3>2, <3>3
  <2>6. CASE \E x : proc' = [proc EXCEPT ![q] = x] /\ (x = Nil \/ x.pc \notin Working)
    <3>1. PICK x : proc' = [proc EXCEPT ![q] = x] /\ (x = Nil \/ x.pc \notin Working)
      BY <2>6
    <3>2. q = p /\ proc'[p] = x
      BY <1>2, <2>2, <3>1
    <3>3. QED
      BY <1>1, <3>1, <3>2 DEF Active
  <2>7. CASE \/ SkipTarget(q) \/ ExhaustBudget(q) \/ FailUnresolved(q) \/ CompleteCollection(q)
             \/ FailTarget(q) \/ LeaveTarget(q) \/ WriteFails(q) \/ FinalizeRun(q)
    <3>1. \E x : proc' = [proc EXCEPT ![q] = x] /\ (x = Nil \/ x.pc \notin Working)
      BY <1>2, <2>1, <2>7, RestingSteps
    <3>2. QED
      BY <2>6, <3>1
  <2>8. QED
    BY <1>5, <2>3, <2>4, <2>5, <2>7 DEF Step
<1>6. ASSUME NEW q \in Procs,
             \/ StartRun(q) \/ Crash(q)
             \/ \E add \in 0..MaxBudget, only \in BOOLEAN : ResumeRun(q, add, only)
      PROVE  Promise!Pursued(proc[p].at)'
  <2>1. \E x : proc' = [proc EXCEPT ![q] = x] /\ (x = Nil \/ x.pc \notin Working)
    <3>1. CASE StartRun(q)
      <4>1. proc' = [proc EXCEPT ![q] = Session(run, NewRun, FALSE)]
        BY <3>1 DEF StartRun
      <4>2. Session(run, NewRun, FALSE).pc = "next"
        BY DEF Session
      <4>3. QED
        BY <4>1, <4>2 DEF Working
    <3>2. CASE Crash(q)
      BY <3>2 DEF Crash
    <3>3. CASE \E add \in 0..MaxBudget, only \in BOOLEAN : ResumeRun(q, add, only)
      <4>1. PICK mine, only : proc' = [proc EXCEPT ![q] = Session(run, mine, only)]
        BY <3>3 DEF ResumeRun
      <4>2. Session(run, mine, only).pc = "next"
        BY DEF Session
      <4>3. QED
        BY <4>1, <4>2 DEF Working
    <3>4. QED
      BY <1>6, <3>1, <3>2, <3>3
  <2>2. PICK x : proc' = [proc EXCEPT ![q] = x] /\ (x = Nil \/ x.pc \notin Working)
    BY <2>1
  <2>3. p # q
    BY <1>1, <1>2, <2>2 DEF Active
  <2>4. proc'[p] = proc[p] /\ Active(p) /\ proc[p].pc \in Working
    BY <1>1, <1>2, <2>2, <2>3 DEF Active
  <2>5. target' = target
    BY <1>6 DEF StartRun, Crash, ResumeRun
  <2>6. QED
    BY <1>3, <2>4, <2>5
<1>7. CASE Reconcile
  <2>1. proc' = proc /\ Active(p)
    BY <1>1, <1>7 DEF Reconcile, Active
  <2>2. QED
    BY <1>1, <1>7, <2>1 DEF Reconcile
<1>8. CASE \/ \E t \in Targets, d \in Days, value \in {"same", "differs"} : BatchWrites(t, d, value)
           \/ UNCHANGED vars
  BY <1>4, <1>8 DEF BatchWrites, vars
<1>9. QED
  BY <1>5, <1>6, <1>7, <1>8 DEF Next

\* The ledger begins with nothing collected, nothing charged.
LEMMA BackfillOpens == Init => Promise!LedgerInit /\ WorkIsPursued
<1>1. ASSUME Init
      PROVE  \A t \in Targets : held[t] \subseteq Expected[t]
  BY <1>1 DEF Init
<1>2. Init => WorkIsPursued
  BY DEF Init, WorkIsPursued, Active
<1>3. QED
  BY <1>1, <1>2 DEF Init, Promise!LedgerInit

\* Commands that overlap still store only what the source has and is missing,
\* and leave no row ahead of the prices and no charge ahead of the requests.
LEMMA OverlapDisturbs ==
  ASSUME BackfillInv, BackfillInv', overlap', held' = held, made <= made', approved <= approved',
         \A t \in Targets : conflicts[t] \subseteq conflicts'[t],
         \A t \in Targets, d \in Days :
           price'[t][d] = price[t][d] \/ (price[t][d] = "none" /\ d \in held[t] /\ price'[t][d] = "same")
  PROVE  Promise!Disturb
<1>1. run'.used <= made'
  BY DEF BackfillInv, RunIsBacked, RequestsAreCounted
<1>2. ASSUME NEW t \in Targets
      PROVE  /\ \A d \in target'[t].confirmed : d \in Expected[t] /\ price'[t][d] # "none"
             /\ target'[t].status = "completed" => \A d \in held[t] : price'[t][d] # "none"
  <2>1. RowIsBacked(t, target[t])'
    BY <1>2 DEF BackfillInv, RowsAreBacked
  <2>2. QED
    BY <2>1 DEF RowIsBacked, Priced
<1>3. QED
  BY <1>1, <1>2 DEF Promise!Disturb

\* A page stored beside another command.
LEMMA StoreDisturbs ==
  ASSUME BackfillInv, BackfillInv', overlap', NEW p \in Procs, StorePage(p)
  PROVE  Promise!Disturb
<1>1. /\ TypeOK /\ Active(p) /\ proc[p].pc \in Working /\ PagesAreBacked(proc[p])
      /\ UNCHANGED <<held, made, approved>>
  BY DEF StorePage, At, BackfillInv, ProcessIsBacked, Working
<1>2. PICK t \in Targets : t = proc[p].at /\ proc[p].page \subseteq held[t]
  BY <1>1 DEF PagesAreBacked
<1> DEFINE page == proc[p].page
<1>3. /\ price' = [price EXCEPT ![t] =
           [d \in Days |-> IF d \in page /\ @[d] = "none" THEN "same" ELSE @[d]]]
      /\ conflicts' = [conflicts EXCEPT ![t] = @ \cup {d \in page : price[t][d] = "differs"}]
  BY <1>2 DEF StorePage, Current
<1>4. /\ price \in [Targets -> [Days -> {"none", "same", "differs"}]]
      /\ conflicts \in [Targets -> SUBSET Days] /\ made \in Nat /\ approved \in Nat
  BY <1>1 DEF TypeOK
<1>5. \A u \in Targets : conflicts[u] \subseteq conflicts'[u]
  BY <1>3, <1>4
<1>6. ASSUME NEW u \in Targets, NEW d \in Days
      PROVE  price'[u][d] = price[u][d] \/ (price[u][d] = "none" /\ d \in held[u] /\ price'[u][d] = "same")
  <2>1. CASE u = t
    BY <1>2, <1>3, <1>4, <2>1
  <2>2. CASE u # t
    BY <1>3, <1>4, <2>2
  <2>3. QED
    BY <2>1, <2>2
<1>7. QED
  BY <1>1, <1>4, <1>5, <1>6, OverlapDisturbs

\* A step that only what a process has in hand takes part in.
LEMMA HandsOnly ==
  ASSUME NEW p \in Procs,
         \/ SkipTarget(p) \/ OpenPages(p) \/ FetchFails(p) \/ BudgetEnds(p) \/ PassPage(p)
         \/ LeaveTarget(p) \/ StartRun(p) \/ Crash(p)
  PROVE  UNCHANGED <<run, target, price, conflicts, held, made, approved, overlap>>
BY DEF SkipTarget, OpenPages, FetchFails, BudgetEnds, PassPage, LeaveTarget, StartRun, Crash

\* Each step of a process is a step of the ledger, or none.
LEMMA StepIsPromised ==
  ASSUME BackfillInv, BackfillInv', WorkIsPursued, NEW p \in Procs, Step(p)
  PROVE  [Promise!LedgerNext]_Promise!bvars
<1>1. UNCHANGED overlap /\ TypeOK /\ made \in Nat /\ approved \in Nat /\ overlap \in BOOLEAN
  <2>1. UNCHANGED overlap
    BY DEF Step, SkipTarget, ExhaustBudget, FailUnresolved, OpenPages, FetchFails,
           AnswerUnusable, AnswerPage, BudgetEnds, PassPage, StorePage, CompleteCollection,
           FailTarget, LeaveTarget, WriteFails, FinalizeRun
  <2>2. QED
    BY <2>1 DEF BackfillInv, TypeOK
<1>2. CASE SkipTarget(p) \/ OpenPages(p) \/ FetchFails(p) \/ BudgetEnds(p) \/ PassPage(p) \/ LeaveTarget(p)
  BY <1>2, HandsOnly DEF Promise!bvars
<1>3. CASE AnswerPage(p) \/ AnswerUnusable(p)
  <2>1. Promise!Ask
    BY <1>3 DEF AnswerPage, AnswerUnusable, Promise!Ask
  <2>2. QED
    BY <2>1 DEF Promise!LedgerNext
<1>4. CASE \/ StorePage(p) \/ CompleteCollection(p) \/ FailTarget(p) \/ FailUnresolved(p)
           \/ WriteFails(p) \/ ExhaustBudget(p) \/ FinalizeRun(p)
  <2>1. CASE overlap
    <3>1. CASE StorePage(p)
      BY <1>1, <2>1, <3>1, StoreDisturbs DEF Promise!LedgerNext
    <3>2. CASE ~ StorePage(p)
      <4>1. UNCHANGED <<price, conflicts, held, approved>> /\ made <= made'
        <5>1. made' = made \/ made' = made + 1
          BY <1>4, <3>2 DEF CompleteCollection, FailTarget, FailUnresolved, WriteFails,
                            ExhaustBudget, FinalizeRun
        <5>2. QED
          BY <1>1, <1>4, <3>2, <5>1 DEF CompleteCollection, FailTarget, FailUnresolved, WriteFails,
                                        ExhaustBudget, FinalizeRun
      <4>2. QED
        BY <1>1, <2>1, <4>1, OverlapDisturbs DEF Promise!LedgerNext
    <3>3. QED
      BY <3>1, <3>2
  <2>2. CASE ~overlap
    BY <1>1, <1>4, <2>2, StoreCollects, EndSettles, ErrorSettles, ExhaustionExhausts, FinalizeConcludes
  <2>3. QED
    BY <2>1, <2>2
<1>5. QED
  BY <1>2, <1>3, <1>4 DEF Step

\* A resume approves budget, or disturbs another command.
LEMMA ResumeIsPromised ==
  ASSUME BackfillInv, BackfillInv', NEW p \in Procs, NEW add \in 0..MaxBudget, NEW only \in BOOLEAN,
         ResumeRun(p, add, only)
  PROVE  [Promise!LedgerNext]_Promise!bvars
<1>1. /\ UNCHANGED <<run, target, price, conflicts, held, made>> /\ approved' = approved + add
      /\ approved \in Nat /\ made \in Nat /\ overlap \in BOOLEAN
      /\ overlap' = (overlap \/ Others(p) # {})
  BY DEF ResumeRun, BackfillInv, TypeOK
<1>2. CASE overlap'
  <2>1. made <= made' /\ approved <= approved'
    BY <1>1
  <2>2. QED
    BY <1>1, <1>2, <2>1, OverlapDisturbs DEF Promise!LedgerNext
<1>3. CASE ~overlap'
  <2>1. UNCHANGED overlap
    BY <1>1, <1>3
  <2>2. CASE add = 0
    BY <1>1, <2>1, <2>2 DEF Promise!bvars
  <2>3. CASE add > 0
    <3>1. Promise!Approve
      BY <1>1, <2>1, <2>3 DEF Promise!Approve
    <3>2. QED
      BY <3>1 DEF Promise!LedgerNext
  <2>4. QED
    BY <2>2, <2>3
<1>4. QED
  BY <1>2, <1>3

\* The daily batch rewrites a price.
LEMMA BatchRewrites ==
  ASSUME BackfillInv, NEW t \in Targets, NEW d \in Days, NEW value \in {"same", "differs"},
         BatchWrites(t, d, value)
  PROVE  Promise!LedgerNext
<1>1. price \in [Targets -> [Days -> {"none", "same", "differs"}]]
  BY DEF BackfillInv, TypeOK
<1>2. price' = [price EXCEPT ![t] = [price[t] EXCEPT ![d] = value]]
  BY <1>1 DEF BatchWrites
<1>3. Promise!Rewrite(t, d)
  BY <1>2 DEF BatchWrites, Promise!Rewrite
<1>4. QED
  BY <1>3 DEF Promise!LedgerNext

\* An operator's look at the targets concludes, or disturbs.
LEMMA ReconcileIsPromised ==
  ASSUME BackfillInv, BackfillInv', Reconcile
  PROVE  Promise!LedgerNext
<1>1. CASE overlap'
  <2>1. UNCHANGED <<price, conflicts, held, made, approved>> /\ made \in Nat /\ approved \in Nat
    BY DEF Reconcile, BackfillInv, TypeOK
  <2>2. made <= made' /\ approved <= approved'
    BY <2>1
  <2>3. QED
    BY <1>1, <2>1, <2>2, OverlapDisturbs DEF Promise!LedgerNext
<1>2. CASE ~overlap'
  BY <1>2, OverlapStays, ReconcileConcludes DEF Next
<1>3. QED
  BY <1>1, <1>2

\* Every step of the backfill is a step of the ledger, or none.
LEMMA BackfillIsPromised ==
  ASSUME BackfillInv, BackfillInv', WorkIsPursued, [Next]_vars
  PROVE  [Promise!LedgerNext]_Promise!bvars
<1>1. ASSUME NEW p \in Procs, StartRun(p) \/ Crash(p)
      PROVE  [Promise!LedgerNext]_Promise!bvars
  BY <1>1, HandsOnly DEF Promise!bvars
<1>2. CASE UNCHANGED vars
  BY <1>2 DEF vars, Promise!bvars
<1>3. QED
  BY <1>1, <1>2, StepIsPromised, ResumeIsPromised, ReconcileIsPromised, BatchRewrites DEF Next

\* The backfill's tables are those of a backfill without processes: whatever
\* crashes, rolls back or is resumed, pages and checkpoints share their steps,
\* statuses and outcomes are earned, charges are never taken back, and two
\* commands at once can spoil no more than BackfillLedger says.
THEOREM BackfillRefinement == Spec => ImplementsBackfillLedger
<1>1. Init => BackfillInv /\ WorkIsPursued /\ Promise!LedgerInit
  BY BackfillStarts, BackfillOpens
<1>2. BackfillInv /\ WorkIsPursued /\ [Next]_vars => BackfillInv' /\ WorkIsPursued'
  BY BackfillSteps, WorkStaysPursued
<1>3. BackfillInv /\ BackfillInv' /\ WorkIsPursued /\ [Next]_vars => [Promise!LedgerNext]_Promise!bvars
  BY BackfillIsPromised
<1>4. QED
  BY <1>1, <1>2, <1>3, PTL DEF Spec, ImplementsBackfillLedger, Promise!LedgerSpec
==============================================================================
