------------------------------- MODULE MCAccount -------------------------------
(* What a config entry does on its account, checked side by side: the HTTP       *)
(* session, the shutdown of coordinators, the statistics backfill, the commands  *)
(* and the daily anchors.  A behaviour is one component's, chosen at the start,  *)
(* and their product is not explored: a rejected login or a new coordinator is a *)
(* step of each component that it concerns.                                      *)
EXTENDS ApiSession, EntryShutdown, DayBackfill, CommandDispatch, DailyAnchor

CONSTANTS r1, r2, t1, t2, t3, t4, t5, t6, t7, t8, c1, c2, c3, u1, u2, u3, y1, y2, p1
MCRequests     == {r1, r2}
MCRepeating    == {r1}
MCTokens       == {t1, t2, t3, t4, t5, t6, t7, t8}
MCCoordinators == {c1, c2, c3}
MCTasks        == {u1, u2, u3}
MCDays         == {y1, y2}
MCPeriods      == {p1}

VARIABLE part

accountVars == <<part, apiVars, entryVars, bfVars, cdVars, dyVars>>

AccountInit ==
  /\ part \in {"api", "entry", "backfill", "commands", "anchors"}
  /\ ApiInit /\ EntryInit /\ BfInit /\ CdInit /\ DyInit
  /\ part # "entry" => hassRunning

AccountNext ==
  \/ part = "api"      /\ ApiNext   /\ UNCHANGED <<part, entryVars, bfVars, cdVars, dyVars>>
  \/ part = "entry"    /\ EntryNext /\ UNCHANGED <<part, apiVars, bfVars, cdVars, dyVars>>
  \/ part = "backfill" /\ BfNext    /\ UNCHANGED <<part, apiVars, entryVars, cdVars, dyVars>>
  \/ part = "commands" /\ CdNext    /\ UNCHANGED <<part, apiVars, entryVars, bfVars, dyVars>>
  \/ part = "anchors"  /\ DyNext    /\ UNCHANGED <<part, apiVars, entryVars, bfVars, cdVars>>

AccountSpec == AccountInit /\ [][AccountNext]_accountVars

\* The type invariants of the five components, each where it can change.
AccountTypeOK ==
  /\ part = "api" => ApiTypeOK
  /\ part = "entry" => EntryTypeOK
  /\ part = "backfill" => BfTypeOK
  /\ part = "commands" => CdTypeOK
  /\ part = "anchors" => DyTypeOK
================================================================================
