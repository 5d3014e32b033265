------------------------------- MODULE Pipeline -------------------------------
(***************************************************************************)
(* The stages of the sales pipeline and the opportunities that stand in    *)
(* them (src/admin/pipeline/pipeline-config.service.ts and create,         *)
(* changeStage, archive and restore of                                     *)
(* src/opportunities/opportunities.service.ts).                            *)
(*                                                                         *)
(* Every call reads the rows it decides on in statements of their own and  *)
(* writes by id afterwards; no lock or condition connects the two.  An     *)
(* edit writes only the fields it was given, so two edits each of which is *)
(* valid for the row it read can leave a row neither would have allowed.   *)
(***************************************************************************)
EXTENDS Naturals

CONSTANTS Stages, Deals, Clerks, NoStage, NoDeal,
          TerminalTypes,  \* those used; LOST behaves as WON does
          MaxCalls        \* bound of the calls made

ASSUME PipelineAssumption ==
  /\ NoStage \notin Stages /\ NoDeal \notin Deals
  /\ "NONE" \in TerminalTypes /\ TerminalTypes \subseteq {"NONE", "WON", "LOST", "ON_HOLD"}
  /\ MaxCalls \in Nat

VARIABLES stage,    \* PipelineStage
          deal,     \* Opportunity: its stage, wonAt or lostAt, and the archive
          trail,    \* the last OpportunityStageHistory row of each
          clerk,    \* the calls in progress
          calls,    \* how many were made
          torn,     \* history: a stage was written on an outdated reading
          excused   \* history: the deal's stage was changed, with it, or the deal
                    \* put there, by a call that could not know of the other

pipelineVars == <<stage, deal, trail, clerk, calls, torn, excused>>

Rows == [made : BOOLEAN, active : BOOLEAN, terminal : BOOLEAN, type : TerminalTypes,
         default : BOOLEAN]
NoStageRow == [made |-> FALSE, active |-> FALSE, terminal |-> FALSE, type |-> "NONE",
          default |-> FALSE]
\* What an edit may give: each field alone, or the terminal ones together
Edits == [active : BOOLEAN] \cup [default : BOOLEAN] \cup [terminal : BOOLEAN]
           \cup [type : TerminalTypes] \cup [terminal : BOOLEAN, type : TerminalTypes]
EmptyEdit == [active |-> TRUE]

Stamps == {"NONE", "WON", "LOST"}
IdleClerk == [step |-> "idle", op |-> "none", at |-> NoStage, row |-> NoStageRow,
              edit |-> EmptyEdit, to |-> NoStage, toRow |-> NoStageRow,
              deal |-> NoDeal, deals |-> {}]

PipelineTypeOK ==
  /\ stage \in [Stages -> Rows]
  /\ deal \in [Deals -> [stage : Stages \cup {NoStage}, stamp : Stamps, archived : BOOLEAN]]
  /\ trail \in [Deals -> (Stages \cup {NoStage}) \X (Stages \cup {NoStage})]
  /\ clerk \in [Clerks -> [step : {"idle", "looked", "checked"},
                           op : {"none", "update", "deactivate", "move", "open"},
                           at : Stages \cup {NoStage}, row : Rows, edit : Edits,
                           to : Stages \cup {NoStage}, toRow : Rows,
                           deal : Deals \cup {NoDeal}, deals : SUBSET Deals]]
  /\ calls \in 0..MaxCalls /\ torn \in BOOLEAN /\ excused \in [Deals -> BOOLEAN]

IsOpen(r) == r.active /\ ~r.terminal

\* validateTerminal, and the rule for the default stage
ValidRow(r) == /\ r.terminal <=> r.type # "NONE"
               /\ r.default => IsOpen(r)

Made == {s \in Stages : stage[s].made}
OpenStages == {s \in Made : IsOpen(stage[s])}
OpenDeals(s) == {d \in Deals : deal[d].stage = s /\ ~deal[d].archived}

\* The row with the fields given
Merge(r, edit) == [f \in DOMAIN r |-> IF f \in DOMAIN edit THEN edit[f] ELSE r[f]]
Gives(edit, f, v) == f \in DOMAIN edit /\ edit[f] = v
StampOf(type) == IF type \in Stamps THEN type ELSE "NONE"

\* A deal in its stage since it was made, or none
Placed(s, archived) ==
  [stage |-> s, archived |-> archived,
   stamp |-> IF s = NoStage THEN "NONE" ELSE StampOf(stage[s].type)]

\* The stages as configured: one default among valid ones, and the deals in them
PipelineInit ==
  /\ stage \in [Stages -> {NoStageRow} \cup {r \in Rows : r.made /\ ValidRow(r) /\ r.active}]
  /\ \E s \in Stages : \A o \in Stages : stage[o].default <=> o = s
  /\ \E at \in [Deals -> Made \cup {NoStage}], archived \in [Deals -> BOOLEAN] :
       /\ \A d \in Deals : archived[d] => at[d] # NoStage
       /\ deal = [d \in Deals |-> Placed(at[d], archived[d])]
       /\ trail = [d \in Deals |-> <<NoStage, at[d]>>]
  /\ clerk = [c \in Clerks |-> IdleClerk]
  /\ calls = 0 /\ torn = FALSE /\ excused = [d \in Deals |-> FALSE]

SetCall(c, call) == clerk' = [clerk EXCEPT ![c] = call]
BeginCall(c, call) ==
  /\ clerk[c] = IdleClerk /\ calls < MaxCalls /\ calls' = calls + 1
  /\ SetCall(c, call)
  /\ UNCHANGED <<stage, deal, trail, torn, excused>>

\* A call that ends refused, by a rule, the unique index or an error, or
\* with the process.
Drop(c) ==
  /\ clerk[c] # IdleClerk /\ SetCall(c, IdleClerk)
  /\ UNCHANGED <<stage, deal, trail, calls, torn, excused>>

-----------------------------------------------------------------------------
(* Stages                                                                  *)

\* The stages once s is the default one
WithDefault(rows, s) == [o \in Stages |-> [rows[o] EXCEPT !.default = o = s]]

\* createStage: its code is unique, and its transaction reads nothing else
CreateStage(c) ==
  /\ clerk[c] = IdleClerk /\ calls < MaxCalls /\ calls' = calls + 1
  /\ \E s \in Stages \ Made, r \in Rows :
       /\ r.made /\ ValidRow(r)
       /\ stage' = IF r.default THEN WithDefault([stage EXCEPT ![s] = r], s)
                   ELSE [stage EXCEPT ![s] = r]
  /\ UNCHANGED <<deal, trail, clerk, torn, excused>>

\* updateStage: the rules that need only the row it reads first
LookForUpdate(c) ==
  \E s \in Made, edit \in Edits :
    /\ ValidRow(Merge(stage[s], edit))
    /\ ~(stage[s].default /\ Gives(edit, "default", FALSE))
    /\ BeginCall(c, [IdleClerk EXCEPT !.step = "looked", !.op = "update", !.at = s,
                               !.row = stage[s], !.edit = edit])

\* Mutant: the default stage is deactivated like any other.
LookForDeactivationAnyDefault(c) ==
  \E s \in Made, to \in Made \cup {NoStage} :
    /\ to # s
    /\ BeginCall(c, [IdleClerk EXCEPT !.step = "looked", !.op = "deactivate", !.at = s,
                               !.row = stage[s], !.to = to])

\* deactivateStage
LookForDeactivation(c) ==
  \E s \in Made, to \in Made \cup {NoStage} :
    /\ to # s /\ (stage[s].default => to # NoStage)
    /\ BeginCall(c, [IdleClerk EXCEPT !.step = "looked", !.op = "deactivate", !.at = s,
                               !.row = stage[s], !.to = to])

\* assertAnotherActiveNonTerminal, asked when the stage as it was read was
\* active and not terminal
AnotherOpen(c) == IsOpen(clerk[c].row) => OpenStages \ {clerk[c].at} # {}

\* What an edit of the row may not do: leave no open stage, or close one in use
CheckUpdate(c) ==
  LET k == clerk[c] IN
  /\ k.step = "looked" /\ k.op = "update"
  /\ IsOpen(Merge(k.row, k.edit)) \/ AnotherOpen(c)
  /\ Gives(k.edit, "active", FALSE) => OpenDeals(k.at) = {}
  /\ SetCall(c, [k EXCEPT !.step = "checked", !.deals = OpenDeals(k.at)])
  /\ UNCHANGED <<stage, deal, trail, calls, torn, excused>>

\* The deals to move and the replacement
CheckDeactivation(c) ==
  LET k == clerk[c] IN
  /\ k.step = "looked" /\ k.op = "deactivate"
  /\ k.to # NoStage => stage[k.to].active /\ (k.row.default => ~stage[k.to].terminal)
  /\ OpenDeals(k.at) # {} => k.to # NoStage
  /\ AnotherOpen(c)
  /\ SetCall(c, [k EXCEPT !.step = "checked", !.deals = OpenDeals(k.at),
                       !.toRow = IF k.to = NoStage THEN NoStageRow ELSE stage[k.to]])
  /\ UNCHANGED <<stage, deal, trail, calls, torn, excused>>

\* What the call read of the stages is no longer so.
StagesMoved(c) ==
  LET k == clerk[c] IN
  \/ stage[k.at] # k.row
  \/ k.to # NoStage /\ stage[k.to] # k.toRow

\* The deal stays in a stage that is closed: it was archived, or came there
\* after the call had asked.
LeftBehind(c, d) ==
  deal[d].stage = clerk[c].at /\ (deal[d].archived \/ d \notin clerk[c].deals)

\* The fields given, over whatever the row is by now
CommitUpdate(c) ==
  LET k == clerk[c]
      rows == [stage EXCEPT ![k.at] = Merge(@, k.edit)]
      retyped == rows[k.at].type # stage[k.at].type IN
  /\ k.step = "checked" /\ k.op = "update"
  /\ stage' = IF Gives(k.edit, "default", TRUE) THEN WithDefault(rows, k.at) ELSE rows
  /\ torn' = (torn \/ StagesMoved(c))
  /\ excused' = [d \in Deals |-> \/ excused[d]
                                 \/ retyped /\ deal[d].stage = k.at
                                 \/ Gives(k.edit, "active", FALSE) /\ LeftBehind(c, d)]
  /\ SetCall(c, IdleClerk)
  /\ UNCHANGED <<deal, trail, calls>>

\* The deal in a stage as it was read
Moved(d, to, row) == [deal[d] EXCEPT !.stage = to, !.stamp = StampOf(row.type)]

\* The deals listed are moved by id, wherever they are by now.  The unique
\* index refuses a second default.
CommitDeactivation(c) ==
  LET k == clerk[c]
      moved == IF k.to = NoStage THEN {} ELSE k.deals
      closed == [stage EXCEPT ![k.at].active = FALSE, ![k.at].default = FALSE] IN
  /\ k.step = "checked" /\ k.op = "deactivate"
  /\ deal' = [d \in Deals |-> IF d \in moved THEN Moved(d, k.to, k.toRow) ELSE deal[d]]
  /\ trail' = [d \in Deals |-> IF d \in moved THEN <<k.at, k.to>> ELSE trail[d]]
  /\ IF k.row.default /\ k.to # NoStage
     THEN /\ \A o \in Stages \ {k.to} : ~closed[o].default
          /\ stage' = [closed EXCEPT ![k.to].default = TRUE]
     ELSE stage' = closed
  /\ torn' = (torn \/ StagesMoved(c))
  /\ excused' = [d \in Deals |-> IF d \in moved THEN stage[k.to] # k.toRow
                                 ELSE excused[d] \/ LeftBehind(c, d)]
  /\ SetCall(c, IdleClerk)
  /\ UNCHANGED calls

-----------------------------------------------------------------------------
(* Opportunities                                                           *)

\* resolveStage, and assertTransitionAllowed, whose rules may allow any pair
ResolveStage(c) ==
  \E d \in Deals, to \in Made :
    /\ deal[d].stage = NoStage /\ stage[to].active
    /\ BeginCall(c, [IdleClerk EXCEPT !.step = "checked", !.op = "open", !.deal = d,
                               !.to = to, !.toRow = stage[to]])

\* create
CommitOpen(c) ==
  LET k == clerk[c] IN
  /\ k.step = "checked" /\ k.op = "open" /\ deal[k.deal].stage = NoStage
  /\ deal' = [deal EXCEPT ![k.deal] = Moved(k.deal, k.to, k.toRow)]
  /\ trail' = [trail EXCEPT ![k.deal] = <<NoStage, k.to>>]
  /\ excused' = [excused EXCEPT ![k.deal] = stage[k.to] # k.toRow]
  /\ SetCall(c, IdleClerk)
  /\ UNCHANGED <<stage, calls, torn>>

\* changeStage: the opportunity is read,
LookForMove(c) ==
  \E d \in Deals :
    /\ deal[d].stage # NoStage /\ ~deal[d].archived
    /\ BeginCall(c, [IdleClerk EXCEPT !.step = "looked", !.op = "move", !.deal = d,
                               !.at = deal[d].stage])

\* then the stage it is to go to,
CheckMove(c) ==
  LET k == clerk[c] IN
  /\ k.step = "looked" /\ k.op = "move"
  /\ \E to \in Made : /\ stage[to].active
                      /\ SetCall(c, [k EXCEPT !.step = "checked", !.to = to, !.toRow = stage[to]])
  /\ UNCHANGED <<stage, deal, trail, calls, torn, excused>>

\* and both are written, with the history, in one transaction.
CommitMove(c) ==
  LET k == clerk[c] IN
  /\ k.step = "checked" /\ k.op = "move"
  /\ deal' = [deal EXCEPT ![k.deal] = Moved(k.deal, k.to, k.toRow)]
  /\ trail' = [trail EXCEPT ![k.deal] = <<k.at, k.to>>]
  /\ excused' = [excused EXCEPT ![k.deal] = stage[k.to] # k.toRow]
  /\ SetCall(c, IdleClerk)
  /\ UNCHANGED <<stage, calls, torn>>

\* archive and restore: they look at the archive alone.
ToggleArchive(d) ==
  /\ deal[d].stage # NoStage /\ calls < MaxCalls /\ calls' = calls + 1
  /\ deal' = [deal EXCEPT ![d].archived = ~@]
  /\ UNCHANGED <<stage, trail, clerk, torn, excused>>

PipelineNext ==
  \/ \E c \in Clerks :
       \/ CreateStage(c) \/ LookForUpdate(c) \/ CheckUpdate(c) \/ CommitUpdate(c)
       \/ LookForDeactivation(c) \/ CheckDeactivation(c) \/ CommitDeactivation(c)
       \/ ResolveStage(c) \/ CommitOpen(c)
       \/ LookForMove(c) \/ CheckMove(c) \/ CommitMove(c) \/ Drop(c)
  \/ \E d \in Deals : ToggleArchive(d)

PipelineSpec == PipelineInit /\ [][PipelineNext]_pipelineVars

-----------------------------------------------------------------------------
(* Properties                                                              *)

\* There is never a second default stage, whatever overlaps: the two writes
\* of every change of it are one transaction under the partial unique index.
OneDefault == \A s, o \in Stages : stage[s].default /\ stage[o].default => s = o

\* A new opportunity finds a stage: the default one exists, is active and not
\* terminal, and every stage is terminal just when its type says so; unless a
\* change of the stages was decided on rows another change had replaced
\* (pipeline-config.service.ts:45-57, :67-78).
DefaultStands ==
  ~torn => /\ \E s \in Stages : stage[s].default
           /\ \A s \in Made : ValidRow(stage[s])

\* An opportunity that is not archived stands in an active stage, and is won
\* or lost when its stage is, unless it met a change of the stage under way,
\* sat in the archive or saw the type of its stage change.
PlacesHold ==
  \A d \in Deals :
    deal[d].stage # NoStage /\ ~excused[d] =>
      /\ deal[d].stamp = StampOf(stage[deal[d].stage].type)
      /\ ~deal[d].archived => stage[deal[d].stage].active

\* The last row of the history leads to where the opportunity stands, also
\* when two moves overtake each other.
TrailLeadsHere == \A d \in Deals : trail[d][2] = deal[d].stage

PipelineInv == PipelineTypeOK /\ OneDefault /\ DefaultStands /\ PlacesHold /\ TrailLeadsHere
=============================================================================
