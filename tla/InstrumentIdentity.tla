-------------------------- MODULE InstrumentIdentity --------------------------
(***************************************************************************)
(* The identities of the securities that have used one short code in one   *)
(* market.  KRX membership, which names no dates, keeps one open identity; *)
(* operators reconcile identities with KRX's listing and delisting files,  *)
(* map current ones to Kiwoom's codes, and turn the files into listing     *)
(* events that are imported later.  Each of these reads the instruments in *)
(* one session and writes in another, and they overlap.                    *)
(*                                                                         *)
(* An identity is known by its dates: `from` listed_at, `to` delisted_at,  *)
(* NoDay for a missing one.                                                *)
(***************************************************************************)
EXTENDS Integers, Sequences, FiniteSets

CONSTANTS
  Operators,       \* sessions of operators and daily jobs
  KrxFiles,        \* what a set of KRX files says: lifecycles [from, ends]
  MaxIdentities    \* bound on instruments

NoDay == 0

ASSUME IdentityAssumption ==
  /\ MaxIdentities \in Nat
  /\ \A rows \in KrxFiles :   \* a CSV file
       /\ IsFiniteSet(rows)
       /\ \A l \in rows : l.from \in Nat \ {NoDay} /\ l.ends \subseteq Nat \ {NoDay}

VARIABLES
  identity,      \* instruments, in the order of their ids: from, to, status
  linked,        \* symbols.instrument_id of the code, 0 before the first
  naverMapped,   \* instruments with a matched naver provider symbol
  kiwoomMapped,  \* instruments with a matched kiwoom provider symbol
  task,          \* what each session has read and not yet written
  file,          \* the listing events prepared for import
  events,        \* listing_events: instrument, type, day
  crossed        \* history: two writing transactions were open together

identityVars ==
  <<identity, linked, naverMapped, kiwoomMapped, task, file, events, crossed>>

Identities == 1..Len(identity)
StillOpen(i) == identity[i].to = NoDay /\ identity[i].status # "delisted"

FreeTask == [kind |-> "free"]

IdentityTypeOK ==
  /\ Len(identity) <= MaxIdentities
  /\ \A i \in Identities : identity[i].status \in {"listed", "delisted"}
  /\ linked \in Identities \cup {0}
  /\ naverMapped \cup kiwoomMapped \subseteq Identities
  /\ \A o \in Operators :
       task[o].kind \in {"free", "observe", "planned", "apply", "mapping", "map"}
  /\ file \cup events \subseteq [id : Identities, type : {"listed", "delisted"}, day : Nat]
  /\ crossed \in BOOLEAN

IdentityInit ==
  /\ identity = <<>> /\ linked = 0 /\ naverMapped = {} /\ kiwoomMapped = {}
  /\ task = [o \in Operators |-> FreeTask]
  /\ file = {} /\ events = {} /\ crossed = FALSE

Lifespan(from, to, status) == [from |-> from, to |-> to, status |-> status]

-----------------------------------------------------------------------------
(* The daily observation.                                                  *)

OpenIdentities == {i \in Identities : StillOpen(i)}

\* Two open identities of the code raise.
ObserveKrx(o) ==
  /\ task[o] = FreeTask /\ Cardinality(OpenIdentities) <= 1
  /\ task' = [task EXCEPT ![o] = [kind |-> "observe", found |-> OpenIdentities]]
  /\ UNCHANGED <<identity, linked, naverMapped, kiwoomMapped, file, events, crossed>>

\* The open identity, a new one if there was none, is listed, and Naver's
\* symbol of the code is linked and mapped to it (a mapping that overlapping
\* jobs add twice counts once).
MaterializeIdentity(o) ==
  /\ task[o].kind = "observe"
  /\ task[o].found = {} => Len(identity) < MaxIdentities
  /\ LET id == IF task[o].found = {} THEN Len(identity) + 1 ELSE CHOOSE i \in task[o].found : TRUE
     IN /\ identity' = IF id > Len(identity) THEN Append(identity, Lifespan(NoDay, NoDay, "listed"))
                       ELSE [identity EXCEPT ![id].status = "listed"]
        /\ \/ linked' = id /\ naverMapped' = naverMapped \cup {id}
           \/ UNCHANGED <<linked, naverMapped>>   \* Naver does not list the code
  /\ task' = [task EXCEPT ![o] = FreeTask]
  /\ UNCHANGED <<kiwoomMapped, file, events, crossed>>

-----------------------------------------------------------------------------
(* reconcile_krx_listing_identities.py                                     *)

End(l) == IF Cardinality(l.ends) = 1 THEN CHOOSE day \in l.ends : TRUE ELSE NoDay

Conflicting(l) == Cardinality(l.ends) > 1
Inverted(l) == End(l) # NoDay /\ End(l) <= l.from
Exact(l) == {i \in Identities : identity[i].from = l.from /\ identity[i].to = End(l)}
Dated == {i \in Identities : identity[i].from # NoDay}

\* Lifecycles that are neither dropped as contradictory nor known already.
Unknown(lifecycles) ==
  {l \in lifecycles : ~Conflicting(l) /\ ~Inverted(l) /\ Exact(l) = {}}

\* Ended lifecycles, as long as no identity of the code has dates.
Creates(lifecycles) ==
  {Lifespan(l.from, End(l), "delisted") :
     l \in {k \in Unknown(lifecycles) : End(k) # NoDay /\ Dated = {}}}

\* The only identity, if it is open and undated, for the only open lifecycle.
Updates(lifecycles) ==
  {<<i, l.from>> : i \in {k \in Identities : Len(identity) = 1 /\ StillOpen(k) /\ k \notin Dated},
                   l \in {k \in Unknown(lifecycles) :
                            /\ End(k) = NoDay /\ {j \in lifecycles : Conflicting(j)} = {}
                            /\ {j \in lifecycles : j.ends = {}} = {k}}}

PlanReconciliation(o, lifecycles) ==
  /\ task[o] = FreeTask
  /\ Creates(lifecycles) # {} \/ Updates(lifecycles) # {}
  /\ task' = [task EXCEPT ![o] =
       [kind |-> "planned", creates |-> Creates(lifecycles), updates |-> Updates(lifecycles)]]
  /\ UNCHANGED <<identity, linked, naverMapped, kiwoomMapped, file, events, crossed>>

Writing == {o \in Operators : task[o].kind \in {"apply", "map"}}

MutDatesUnchanged(updates) == TRUE

\* An update whose instrument has been dated since the plan raises.
DatesUnchanged(updates) ==
  \A u \in updates : identity[u[1]].from = NoDay /\ identity[u[1]].to = NoDay

BeginReconciliation(o) ==
  /\ task[o].kind = "planned"
  /\ IF DatesUnchanged(task[o].updates)
       THEN /\ task' = [task EXCEPT ![o].kind = "apply"]
            /\ crossed' = (crossed \/ Writing # {})
       ELSE task' = [task EXCEPT ![o] = FreeTask] /\ UNCHANGED crossed
  /\ UNCHANGED <<identity, linked, naverMapped, kiwoomMapped, file, events>>

\* What the plan creates is not looked up again.
CommitReconciliation(o) ==
  /\ task[o].kind = "apply"
  /\ Len(identity) + Cardinality(task[o].creates) <= MaxIdentities
  /\ \E new \in [1..Cardinality(task[o].creates) -> task[o].creates] :
       /\ \A j, k \in DOMAIN new : j < k => new[j].from < new[k].from
       /\ identity' =
            [i \in Identities |->
               LET dates == {u[2] : u \in {v \in task[o].updates : v[1] = i}}
               IN IF dates = {} THEN identity[i]
                  ELSE [identity[i] EXCEPT !.from = CHOOSE day \in dates : TRUE]] \o new
  /\ task' = [task EXCEPT ![o] = FreeTask]
  /\ UNCHANGED <<linked, naverMapped, kiwoomMapped, file, events, crossed>>

-----------------------------------------------------------------------------
(* materialize_kiwoom_current_mappings.py                                  *)

\* Listed, dated, and Naver's symbol of the code belongs to it.
Mappable ==
  {i \in (Dated \cap naverMapped) \ kiwoomMapped : identity[i].status = "listed" /\ linked = i}

PlanMapping(o) ==
  /\ task[o] = FreeTask /\ Mappable # {}
  /\ task' = [task EXCEPT ![o] = [kind |-> "mapping", ids |-> Mappable]]
  /\ UNCHANGED <<identity, linked, naverMapped, kiwoomMapped, file, events, crossed>>

\* Mappings have no end, so any two of different instruments overlap; the
\* transaction is given up, as when the mapping is there already.
BeginMapping(o) ==
  /\ task[o].kind = "mapping"
  /\ IF kiwoomMapped = {}
       THEN /\ task' = [task EXCEPT ![o].kind = "map"]
            /\ crossed' = (crossed \/ Writing # {})
       ELSE task' = [task EXCEPT ![o] = FreeTask] /\ UNCHANGED crossed
  /\ UNCHANGED <<identity, linked, naverMapped, kiwoomMapped, file, events>>

CommitMapping(o) ==
  /\ task[o].kind = "map" /\ task[o].ids \cap kiwoomMapped = {}
  /\ kiwoomMapped' = kiwoomMapped \cup task[o].ids
  /\ task' = [task EXCEPT ![o] = FreeTask]
  /\ UNCHANGED <<identity, linked, naverMapped, file, events, crossed>>

AbandonTask(o) ==   \* the process ends, or the database refuses the write
  /\ task[o] # FreeTask
  /\ task' = [task EXCEPT ![o] = FreeTask]
  /\ UNCHANGED <<identity, linked, naverMapped, kiwoomMapped, file, events, crossed>>

-----------------------------------------------------------------------------
(* prepare_krx_listing_history.py and import_listing_history.py            *)

Claims(lifecycles) ==
  {[type |-> "listed", day |-> l.from] : l \in lifecycles} \cup
  UNION {{[type |-> "delisted", day |-> day] : day \in l.ends} : l \in lifecycles}

Resolve(claim) ==
  {i \in Identities : claim.day =
     IF claim.type = "delisted" THEN identity[i].to ELSE identity[i].from}

\* Claims that no or several instruments answer are left to a reviewer.
Prepared(lifecycles) ==
  UNION {{[id |-> i, type |-> c.type, day |-> c.day] : i \in Resolve(c)} :
           c \in {d \in Claims(lifecycles) : Cardinality(Resolve(d)) = 1}}

PrepareEvents(lifecycles) ==
  /\ file' = Prepared(lifecycles)
  /\ file' # file
  /\ UNCHANGED <<identity, linked, naverMapped, kiwoomMapped, task, events, crossed>>

ImportEvents ==
  /\ events' = events \cup file
  /\ events' # events
  /\ UNCHANGED <<identity, linked, naverMapped, kiwoomMapped, task, file, crossed>>

IdentityNext ==
  \/ \E o \in Operators :
       \/ ObserveKrx(o) \/ MaterializeIdentity(o)
       \/ \E lifecycles \in KrxFiles : PlanReconciliation(o, lifecycles)
       \/ BeginReconciliation(o) \/ CommitReconciliation(o)
       \/ PlanMapping(o) \/ BeginMapping(o) \/ CommitMapping(o) \/ AbandonTask(o)
  \/ \E lifecycles \in KrxFiles : PrepareEvents(lifecycles)
  \/ ImportEvents

IdentitySpec == IdentityInit /\ [][IdentityNext]_identityVars

-----------------------------------------------------------------------------
\* krx_listing_csv.py:81 "merge ... into lifecycle units safe for code reuse":
\* an event stays with an identity that has exactly its date, and providers are
\* asked only for open identities, Kiwoom for one at most - however old the
\* files and plans are, and whatever overlaps, as long as no two transactions
\* that check and write are open together.
IdentitiesStaySeparate ==
  ~crossed =>
    /\ \A e \in events :
         e.day = IF e.type = "delisted" THEN identity[e.id].to ELSE identity[e.id].from
    /\ \A i \in naverMapped \cup kiwoomMapped \cup ({linked} \ {0}) : StillOpen(i)
    /\ Cardinality(kiwoomMapped) <= 1

=============================================================================
