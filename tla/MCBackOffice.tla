----------------------------- MODULE MCBackOffice -----------------------------
(***************************************************************************)
(* The technical centre and the smaller parts of the back office in one    *)
(* run.  They share no state, so every behaviour is one of a single part,  *)
(* chosen at the start.                                                    *)
(*                                                                         *)
(* The cached answers are explored over three versions, with transitions   *)
(* that nothing overtakes, the subscriptions without answers over all      *)
(* versions.                                                               *)
(***************************************************************************)
EXTENDS Tenders, RequirementGraph, TechnicalRecords, AssistantActions, LinkedCreation,
        Entitlements, TenantLifecycle, NotificationTemplates, TLC

VARIABLE subject

centreVars == <<tenderVars, graphVars, recordVars>>
officeVars == <<assistantVars, linkedVars, tenantVars, templateVars>>
vars == <<subject, centreVars, officeVars, entitlementVars>>

Init ==
  /\ subject \in {"tender", "requirements", "record", "assistant", "linked", "tenant",
                  "templates", "answers", "subscriptions"}
  /\ TenderInit /\ GraphInit /\ RecordsInit
  /\ AssistantInit /\ LinkedInit /\ TenantInit /\ TemplatesInit /\ EntitlementsInit
  /\ subject # "record" => kind = "RELEASE"

CentreNext ==
  \/ subject = "tender"       /\ TenderNext  /\ UNCHANGED <<graphVars, recordVars>>
  \/ subject = "requirements" /\ GraphNext   /\ UNCHANGED <<tenderVars, recordVars>>
  \/ subject = "record"       /\ RecordsNext /\ UNCHANGED <<tenderVars, graphVars>>

OfficeNext ==
  \/ /\ subject = "assistant" /\ AssistantNext
     /\ UNCHANGED <<linkedVars, tenantVars, templateVars>>
  \/ /\ subject = "linked" /\ LinkedNext
     /\ UNCHANGED <<assistantVars, tenantVars, templateVars>>
  \/ /\ subject = "tenant" /\ TenantNext
     /\ UNCHANGED <<assistantVars, linkedVars, templateVars>>
  \/ /\ subject = "templates" /\ TemplatesNext
     /\ UNCHANGED <<assistantVars, linkedVars, tenantVars>>

PlatformNext ==
  \/ /\ subject = "answers" /\ EntitlementsNext
     /\ version' <= 3
     /\ (\E m \in Movers : mover[m] # IdleMover) =>
          \A m \in Movers : mover'[m] = IdleMover
  \/ /\ subject = "subscriptions" /\ EntitlementsNext
     /\ UNCHANGED <<cache, resolver, override, hour, plan>>

Next ==
  /\ UNCHANGED subject
  /\ \/ CentreNext   /\ UNCHANGED <<officeVars, entitlementVars>>
     \/ OfficeNext   /\ UNCHANGED <<centreVars, entitlementVars>>
     \/ PlatformNext /\ UNCHANGED <<centreVars, officeVars>>

Spec == Init /\ [][Next]_vars

\* The callers of every part are the same two, and so are the things they
\* work on: one symmetry serves all the parts.
Symmetry == Permutations(Admins) \cup Permutations(Items)
=============================================================================
