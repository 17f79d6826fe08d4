----------------------------- MODULE MCSessions -----------------------------
(* A small instance of everything around the sessions: what they may send, what   *)
(* they share, log and leave on disk, the boxes they command and how a page keeps *)
(* its connection.  As in MCReadings, the components share no variable and one of *)
(* them moves in each behaviour.                                                  *)
EXTENDS RateLimiter, AuditLog, Persistence, SharedSettings, FrontEndBox, PageLink

CONSTANTS d1, d2   \* device names

VARIABLE active

TwoNames == <<d1, d2>>

noRate     == <<auditVars, storeVars, settingsVars, boxVars, pageVars>>
noAudit    == <<rateVars, storeVars, settingsVars, boxVars, pageVars>>
noStore    == <<rateVars, auditVars, settingsVars, boxVars, pageVars>>
noSettings == <<rateVars, auditVars, storeVars, boxVars, pageVars>>
noBox      == <<rateVars, auditVars, storeVars, settingsVars, pageVars>>
noPage     == <<rateVars, auditVars, storeVars, settingsVars, boxVars>>

Turn(component, others) == active = component /\ UNCHANGED <<active, others>>

SessionsInit ==
  /\ RateInit /\ AuditInit /\ StoreInit /\ SettingsInit /\ BoxInit /\ PageInit
  /\ active \in {"rate", "audit", "store", "settings", "box", "page"}
  /\ active # "box" => speaks = "http"

SessionsNext ==
  \/ Turn("rate", noRate) /\ RateNext
  \/ Turn("audit", noAudit) /\ AuditNext
  \/ Turn("store", noStore) /\ StoreNext
  \/ Turn("settings", noSettings) /\ SettingsNext
  \/ Turn("box", noBox) /\ BoxNext
  \/ Turn("page", noPage) /\ PageNext

sessionsVars == <<active, noRate, rateVars>>

\* The fairness of FairPageSpec.
SessionsFairness ==
  /\ WF_sessionsVars(Turn("page", noPage) /\ Poll)
  /\ WF_sessionsVars(Turn("page", noPage) /\ ConnectEnds)

SessionsSpec == SessionsInit /\ [][SessionsNext]_sessionsVars /\ SessionsFairness

-----------------------------------------------------------------------------
\* Every component keeps its types.
SessionsTypeOK ==
  RateTypeOK /\ AuditTypeOK /\ StoreTypeOK /\ SettingsTypeOK /\ BoxTypeOK /\ PageTypeOK
=============================================================================
