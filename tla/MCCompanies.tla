----------------------------- MODULE MCCompanies ------------------------------
(***************************************************************************)
(* The hierarchy of the companies and their archive, in one run.  They     *)
(* share no variable, so every behaviour is one of the two, chosen at the  *)
(* start.                                                                  *)
(***************************************************************************)
EXTENDS CompanyTree, CompanyArchive, TLC

CONSTANT Account  \* the company that has opportunities; the other has none

VARIABLE subject

\* Room for one company, and for the opportunities of one
CompanyLimits == [m \in {"COMPANIES", "OPPORTUNITIES"} |-> IF m = "COMPANIES" THEN 1 ELSE 2]
AccountDeals == [c \in Accounts |-> IF c = Account THEN 2 ELSE 0]

CompaniesInit ==
  /\ subject \in {"hierarchy", "archive"}
  /\ CompanyTreeInit /\ ArchiveInit
  /\ subject # "archive" => \A c \in Accounts : archived[c]

CompaniesNext ==
  /\ UNCHANGED subject
  /\ \/ subject = "hierarchy" /\ CompanyTreeNext /\ UNCHANGED archiveVars
     \/ subject = "archive" /\ ArchiveNext /\ UNCHANGED treeVars

CompaniesSpec == CompaniesInit /\ [][CompaniesNext]_<<subject, treeVars, archiveVars>>

\* Companies are interchangeable in the hierarchy, and callers everywhere.
Symmetry == Permutations(Companies) \union Permutations(Editors)
=============================================================================
