---------------------------- MODULE CompanyArchive ----------------------------
(***************************************************************************)
(* Archive and restore of companies (src/companies/companies.service.ts)   *)
(* and the quota of two metrics they move at once: the company itself and  *)
(* its opportunities, which are not counted while it is archived.          *)
(*                                                                         *)
(* A restore holds both, each under one key per company that later         *)
(* restores use again, writes, and commits both in one transaction; an     *)
(* archive writes and recounts both.  The holds have amounts; the metrics  *)
(* have no periods here, and the marks are those of QuotaLedger.           *)
(*                                                                         *)
(* Opportunities come and go meanwhile, each in one step with its own      *)
(* count, whose interleavings are those of QuotaInventory.                 *)
(***************************************************************************)
EXTENDS Integers, FiniteSets, Functions

CONSTANTS
    Accounts,     \* companies
    Archivists,   \* callers
    NoAccount,
    Limit,        \* effective hard limit of each metric
    MaxDeals,     \* bound on the opportunities of each company
    MaxMishaps    \* bound on failures, overrun holds, keys used again and
                  \* opportunities restored behind a restore's count

ASSUME ArchiveAssumption ==
    /\ IsFiniteSet(Accounts) /\ Accounts # {} /\ NoAccount \notin Accounts
    /\ Limit \in [{"COMPANIES", "OPPORTUNITIES"} -> Nat]
    /\ MaxDeals \in [Accounts -> Nat] /\ MaxMishaps \in Nat

VARIABLES
    archived,  \* Company.archivedAt is set
    deals,     \* its opportunities that are not archived themselves
    usage,     \* usage_counters.currentValue by metric
    held,      \* the reservations of the restores, by company and metric
    archivist, \* the calls in flight
    mishaps    \* history: how many of those there were

archiveVars == <<archived, deals, usage, held, archivist, mishaps>>

Counted == {"COMPANIES", "OPPORTUNITIES"}

CompanyHold == [status : {"NONE", "RESERVED", "COMMITTED", "RELEASED", "EXPIRED"},
                amount : Nat]

\* todo: the metrics yet to be released or recounted
ArchiveCalls == [pc : {"idle", "archive", "recount", "reserve", "count", "deals", "write",
                       "commit", "release"},
                 on : Accounts \cup {NoAccount}, amount : Nat, todo : SUBSET Counted]

NoArchiveCall == [pc |-> "idle", on |-> NoAccount, amount |-> 0, todo |-> {}]

ArchiveTypeOK ==
  /\ archived \in [Accounts -> BOOLEAN]
  /\ deals \in [Accounts -> Nat] /\ \A c \in Accounts : deals[c] <= MaxDeals[c]
  /\ usage \in [Counted -> Nat]
  /\ held \in [Accounts -> [Counted -> CompanyHold]]
  /\ archivist \in [Archivists -> ArchiveCalls]
  /\ mishaps \in 0..MaxMishaps

Live == {c \in Accounts : ~archived[c]}

\* authoritativeInventory
Inventory(m) ==
  IF m = "COMPANIES" THEN Cardinality(Live) ELSE SumFunctionOnSet(deals, Live)

HeldOf(m) ==
  SumFunctionOnSet([c \in Accounts |-> held[c][m].amount],
                   {c \in Accounts : held[c][m].status = "RESERVED"})

ArchiveInit ==
  /\ archived \in [Accounts -> BOOLEAN]
  /\ deals = [c \in Accounts |-> 0]
  /\ usage = [m \in Counted |-> Inventory(m)]
  /\ \A m \in Counted : Inventory(m) <= Limit[m]
  /\ held = [c \in Accounts |-> [m \in Counted |-> [status |-> "NONE", amount |-> 0]]]
  /\ archivist = [a \in Archivists |-> NoArchiveCall]
  /\ mishaps = 0

ArchivistAt(a, pc) == archivist[a].pc = pc
Step(a, pc) == archivist' = [archivist EXCEPT ![a].pc = pc]
Finish(a) == archivist' = [archivist EXCEPT ![a] = NoArchiveCall]
Mishap == mishaps < MaxMishaps /\ mishaps' = mishaps + 1

-----------------------------------------------------------------------------
(* archive                                                                 *)

BeginArchive(a, c) ==
  /\ ArchivistAt(a, "idle") /\ ~archived[c]
  /\ archivist' = [archivist EXCEPT ![a] = [NoArchiveCall EXCEPT !.pc = "archive", !.on = c]]
  /\ UNCHANGED <<archived, deals, usage, held, mishaps>>

\* By id, whatever the company is by now
WriteArchive(a) ==
  /\ ArchivistAt(a, "archive")
  /\ archived' = [archived EXCEPT ![archivist[a].on] = TRUE]
  /\ archivist' = [archivist EXCEPT ![a].pc = "recount", ![a].todo = Counted]
  /\ UNCHANGED <<deals, usage, held, mishaps>>

\* Both recounts run at once, each under the lock of its metric.
Recount(a, m) ==
  /\ ArchivistAt(a, "recount") /\ m \in archivist[a].todo
  /\ usage' = [usage EXCEPT ![m] = Inventory(m)]
  /\ IF archivist[a].todo = {m} THEN Finish(a)
     ELSE archivist' = [archivist EXCEPT ![a].todo = @ \ {m}]
  /\ UNCHANGED <<archived, deals, held, mishaps>>

-----------------------------------------------------------------------------
(* restore                                                                 *)

BeginRestore(a, c) ==
  /\ ArchivistAt(a, "idle") /\ archived[c]
  /\ archivist' = [archivist EXCEPT ![a] = [NoArchiveCall EXCEPT !.pc = "reserve", !.on = c]]
  /\ UNCHANGED <<archived, deals, usage, held, mishaps>>

Fits(m, amount) == usage[m] + HeldOf(m) + amount <= Limit[m]

KeptHold(c, m) == held[c][m].status \in {"RESERVED", "COMMITTED"}

\* A key of another amount throws, whatever became of it.
Mismatch(c, m, amount) == held[c][m].status # "NONE" /\ held[c][m].amount # amount

\* The key of an earlier restore is granted as it is and counts as a mishap.
GrantRestore(c, m, amount) ==
  /\ ~Mismatch(c, m, amount)
  /\ \/ /\ KeptHold(c, m) /\ Mishap
        /\ UNCHANGED held
     \/ /\ ~KeptHold(c, m) /\ Fits(m, amount)
        /\ UNCHANGED mishaps
        /\ held' = [held EXCEPT ![c][m] = [status |-> "RESERVED", amount |-> amount]]

RefusesRestore(c, m, amount) ==
  \/ Mismatch(c, m, amount)
  \/ ~KeptHold(c, m) /\ ~Fits(m, amount)

ReserveCompany(a) ==
  LET c == archivist[a].on IN
  /\ ArchivistAt(a, "reserve")
  /\ \/ GrantRestore(c, "COMPANIES", 1) /\ Step(a, "count")
     \/ /\ RefusesRestore(c, "COMPANIES", 1) /\ Finish(a)
        /\ UNCHANGED <<held, mishaps>>
  /\ UNCHANGED <<archived, deals, usage>>

CountDeals(a) ==
  LET n == deals[archivist[a].on] IN
  /\ ArchivistAt(a, "count")
  /\ archivist' = [archivist EXCEPT ![a].pc = IF n > 0 THEN "deals" ELSE "write",
                                    ![a].amount = n]
  /\ UNCHANGED <<archived, deals, usage, held, mishaps>>

\* The count is outside the try: when it fails the first hold stays.
CountDealsFails(a) ==
  /\ ArchivistAt(a, "count") /\ Mishap /\ Finish(a)
  /\ UNCHANGED <<archived, deals, usage, held>>

\* A refusal gives the company's hold back.
ReserveDeals(a) ==
  LET c == archivist[a].on  n == archivist[a].amount IN
  /\ ArchivistAt(a, "deals")
  /\ \/ GrantRestore(c, "OPPORTUNITIES", n) /\ Step(a, "write")
     \/ /\ RefusesRestore(c, "OPPORTUNITIES", n)
        /\ archivist' = [archivist EXCEPT ![a].pc = "release", ![a].todo = {"COMPANIES"}]
        /\ UNCHANGED <<held, mishaps>>
  /\ UNCHANGED <<archived, deals, usage>>

\* Both holds, or the only one
HeldBy(a) ==
  IF archivist[a].amount > 0 THEN Counted ELSE {"COMPANIES"}

WriteRestore(a) ==
  /\ ArchivistAt(a, "write")
  /\ archived' = [archived EXCEPT ![archivist[a].on] = FALSE]
  /\ Step(a, "commit")
  /\ UNCHANGED <<deals, usage, held, mishaps>>

WriteRestoreFails(a) ==
  /\ ArchivistAt(a, "write") /\ Mishap
  /\ archivist' = [archivist EXCEPT ![a].pc = "release", ![a].todo = HeldBy(a)]
  /\ UNCHANGED <<archived, deals, usage, held>>

\* releaseReservation of each
ReleaseOne(a, m) ==
  LET c == archivist[a].on IN
  /\ ArchivistAt(a, "release") /\ m \in archivist[a].todo
  /\ held' = [held EXCEPT ![c][m].status = IF @ = "RESERVED" THEN "RELEASED" ELSE @]
  /\ IF archivist[a].todo = {m} THEN Finish(a)
     ELSE archivist' = [archivist EXCEPT ![a].todo = @ \ {m}]
  /\ UNCHANGED <<archived, deals, usage, mishaps>>

\* Mutant: a hold counts as one, whatever its amount.
CountsOne(h) == IF h.status = "RESERVED" THEN 1 ELSE 0

\* What the commit of a hold adds to the usage
Counts(h) == IF h.status = "RESERVED" THEN h.amount ELSE 0

\* commitReservations: those that are live, in one transaction
CommitRestore(a) ==
  LET c == archivist[a].on IN
  /\ ArchivistAt(a, "commit") /\ Finish(a)
  /\ usage' = [m \in Counted |-> usage[m] + IF m \in HeldBy(a) THEN Counts(held[c][m]) ELSE 0]
  /\ held' = [held EXCEPT ![c] =
       [m \in Counted |-> IF m \in HeldBy(a) /\ @[m].status = "RESERVED"
                          THEN [@[m] EXCEPT !.status = "COMMITTED"] ELSE @[m]]]
  /\ UNCHANGED <<archived, deals, mishaps>>

-----------------------------------------------------------------------------
(* The rest of the system                                                  *)

\* A hold ends after its time: with nobody left to commit it this is harmless.
OverrunHold(c, m) ==
  /\ held[c][m].status = "RESERVED"
  /\ held' = [held EXCEPT ![c][m].status = "EXPIRED"]
  /\ IF \E a \in Archivists : archivist[a].on = c THEN Mishap ELSE UNCHANGED mishaps
  /\ UNCHANGED <<archived, deals, usage, archivist>>

StopArchivist(a) ==
  /\ ~ArchivistAt(a, "idle") /\ Mishap /\ Finish(a)
  /\ UNCHANGED <<archived, deals, usage, held>>

\* An opportunity is created, or restored whatever its company is: when a
\* restore of that has counted them already, this one is not held.
MoreDeals(c) ==
  /\ deals[c] < MaxDeals[c] /\ Fits("OPPORTUNITIES", 1)
  /\ deals' = [deals EXCEPT ![c] = @ + 1]
  /\ usage' = [usage EXCEPT !["OPPORTUNITIES"] = @ + 1]
  /\ IF \E a \in Archivists : archivist[a].on = c /\ archivist[a].pc \in {"deals", "write"}
     THEN Mishap ELSE UNCHANGED mishaps
  /\ UNCHANGED <<archived, held, archivist>>

\* One is archived, and all are counted anew.
FewerDeals(c) ==
  /\ deals[c] > 0
  /\ deals' = [deals EXCEPT ![c] = @ - 1]
  /\ usage' = [usage EXCEPT !["OPPORTUNITIES"] =
                 Inventory("OPPORTUNITIES") - IF archived[c] THEN 0 ELSE 1]
  /\ UNCHANGED <<archived, held, archivist, mishaps>>

ArchivistStep(a) ==
  \/ WriteArchive(a) \/ ReserveCompany(a) \/ CountDeals(a) \/ CountDealsFails(a)
  \/ ReserveDeals(a) \/ WriteRestore(a) \/ WriteRestoreFails(a) \/ CommitRestore(a)
  \/ StopArchivist(a)
  \/ \E m \in Counted : Recount(a, m) \/ ReleaseOne(a, m)

ArchiveNext ==
  \/ \E a \in Archivists :
       ArchivistStep(a) \/ \E c \in Accounts : BeginArchive(a, c) \/ BeginRestore(a, c)
  \/ \E c \in Accounts : \/ MoreDeals(c) \/ FewerDeals(c)
                         \/ \E m \in Counted : OverrunHold(c, m)

ArchiveSpec == ArchiveInit /\ [][ArchiveNext]_archiveVars

-----------------------------------------------------------------------------
(* Properties                                                              *)

\* With no mishap, what is there is counted or held, of both metrics, however
\* archives, restores, recounts and opportunities interleave
\* (companies.service.ts:794-803, :834-892).
BothCounted ==
  mishaps = 0 => \A m \in Counted : usage[m] + HeldOf(m) >= Inventory(m)

\* Each mishap lets at most one company over the limit, with its opportunities
\* (companies.service.ts:834, :857).
LimitsKept ==
  /\ Inventory("COMPANIES") <= Limit["COMPANIES"] + mishaps
  /\ \E c \in Accounts :
       Inventory("OPPORTUNITIES") <= Limit["OPPORTUNITIES"] + MaxDeals[c] * mishaps

\* A hold of a restore is that of one under way, unless there was a mishap: every
\* refusal and failure that is answered gives back what it held
\* (companies.service.ts:867, :882).
HoldsOwned ==
  \A c \in Accounts, m \in Counted :
    held[c][m].status = "RESERVED" /\ mishaps = 0 =>
      \E a \in Archivists :
        archivist[a].on = c /\ archivist[a].pc \in {"count", "deals", "write", "commit", "release"}

ArchiveInv == ArchiveTypeOK /\ BothCounted /\ LimitsKept /\ HoldsOwned
=============================================================================
