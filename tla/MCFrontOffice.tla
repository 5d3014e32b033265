---------------------------- MODULE MCFrontOffice ----------------------------
(***************************************************************************)
(* What sales work with, in one run: the quota opportunities take, the     *)
(* stages they stand in, the prices their lines take over and what the     *)
(* lines add up to; meetings and their reminders; questions asked in a     *)
(* channel and its owners; files.  The parts share no variable (archivedAt *)
(* is modelled twice, for the count and for the stages), so every          *)
(* behaviour is one of a single part, chosen at the start.                 *)
(*                                                                         *)
(* Prices are explored with two callers, and with one at a time beside a   *)
(* line being priced.                                                      *)
(***************************************************************************)
EXTENDS QuotaInventory, Pipeline, PriceList, OpportunityLines, Meetings, Conversations,
        Attachments, TLC

CONSTANTS FirstStage,  \* the default stage at the start; the others are alike
          Creator      \* the owner of the channel at the start; the others are alike

VARIABLE subject

InventoryKeys == {"create", "restore"} \X Opportunities
AllOperations == {"create", "restore", "archive"}

\* A part that is not the subject starts in one way.
NoOpportunities == \A o \in Opportunities : opportunity[o] = "none"
PlainStages == /\ \A s \in Stages \ {FirstStage} : stage[s] = NoStageRow
               /\ \A d \in Deals : deal[d].stage = NoStage
CreatorAlone == \A u \in Members \ {Creator} : role[u] = "NONE"

deskVars == <<meetingVars, conversationVars, attachmentVars>>
saleVars == <<vars, pipelineVars, priceVars, lineVars>>

FrontOfficeInit ==
  /\ subject \in {"quota", "pipeline", "prices", "quotes",
                   "lines", "meetings", "questions", "channel", "files"}
  /\ Init /\ PipelineInit /\ PriceInit /\ LinesInit
  /\ MeetingsInit /\ ConversationsInit /\ AttachmentsInit
  /\ stage[FirstStage].default /\ role[Creator] = "OWNER"
  /\ subject # "quota" => NoOpportunities
  /\ subject # "pipeline" => PlainStages
  /\ subject \notin {"prices", "quotes"} => \A p \in Products : product[p] = NoPrice
  /\ subject # "channel" => CreatorAlone

SalesNext ==
  \/ subject = "quota"    /\ Next /\ UNCHANGED <<pipelineVars, priceVars, lineVars>>
  \/ subject = "pipeline" /\ PipelineNext /\ UNCHANGED <<vars, priceVars, lineVars>>
  \/ /\ subject = "prices" /\ PriceNext
     /\ quoter' = quoter
     /\ UNCHANGED <<vars, pipelineVars, lineVars>>
  \/ /\ subject = "quotes" /\ PriceNext
     /\ \E e \in Pricers : \A o \in Pricers \ {e} : pricer'[o] = IdlePricer
     /\ UNCHANGED <<vars, pipelineVars, lineVars>>
  \/ subject = "lines"    /\ LinesNext /\ UNCHANGED <<vars, pipelineVars, priceVars>>

DeskNext ==
  \/ subject = "meetings" /\ MeetingsNext /\ UNCHANGED <<conversationVars, attachmentVars>>
  \/ /\ subject = "questions" /\ ConversationsNext
     /\ UNCHANGED <<channel, meetingVars, attachmentVars>>
  \/ /\ subject = "channel" /\ ConversationsNext
     /\ UNCHANGED <<asking, meetingVars, attachmentVars>>
  \/ subject = "files" /\ AttachmentsNext /\ UNCHANGED <<meetingVars, conversationVars>>

FrontOfficeNext ==
  /\ UNCHANGED subject
  /\ \/ SalesNext /\ UNCHANGED deskVars
     \/ DeskNext /\ UNCHANGED saleVars

FrontOfficeSpec ==
  FrontOfficeInit /\ [][FrontOfficeNext]_<<subject, saleVars, deskVars>>

\* Callers are interchangeable, and so are the things they call for.
Symmetry == Permutations(Requests) \union Permutations(Opportunities)
=============================================================================
