----------------------------- MODULE Moderation -----------------------------
(***************************************************************************)
(* Abuse reports on the names of one account, what follows from them, and  *)
(* the account's trust at the object of one name (edge lib/abuse.ts,       *)
(* api/abuse-routes.ts, lib/moderation.ts, api/admin-routes.ts).  Every D1 *)
(* call is a step and several reports are handled at one time.  The pushes *)
(* of suspensions are TunnelConnect's subject; a push of trust carries no  *)
(* generation and no order.                                                *)
(***************************************************************************)
EXTENDS Naturals, FiniteSets, FiniteSetsExt

CONSTANTS
  Reported,     \* the names of the account
  Reporters,    \* networks that report
  Weight,       \* 2 for a reporter of good standing, else 1
  THRESHOLD,    \* quarantineThreshold
  Handlers,     \* bound: reports handled at one time
  MAX_MODERATION \* bound: reports and what administrators do

ASSUME ModerationAssumption ==
  /\ Reported # {}
  /\ Weight \in [Reporters -> {1, 2}] /\ THRESHOLD \in Nat \ {0} /\ MAX_MODERATION \in Nat

VARIABLES
  reports,     \* abuse_reports of the last 24 hours: the status for each name and network
  suspendedNames, quarantined,  \* the suspended names; those no administrator suspended
  ownerStatus, trust, aged,     \* users: status, trustedHere and trust_revoked, 7 days old
  handler,     \* each report's request: where it is and its name
  trustRows,   \* do_outbox: the values of setTrusted
  trustedHere, connecting,  \* the object: trustedHere, the connect between its awaits
  overtaken,   \* the object's value was pushed after a newer one
  excused,     \* since the last quarantine an administrator pardoned, or D1 failed
  moderated    \* reports and administrators' calls so far

reportVars == <<reports, suspendedNames, quarantined, aged, handler>>
ownerVars == <<ownerStatus, trust, trustRows, excused>>
objectVars == <<trustedHere, connecting, overtaken>>
moderationVars == <<reportVars, ownerVars, objectVars, moderated>>

NoReport == [at |-> "idle", name |-> CHOOSE n \in Reported : TRUE]
Unused(c) == handler[c] = NoReport
HandlerAt == {"idle", "reported", "young", "scored", "suspended", "untrusted", "counted", "upheld"}

ModerationTypeOK ==
  /\ reports \in [Reported -> [Reporters -> {"none", "open", "actioned", "dismissed"}]]
  /\ quarantined \subseteq suspendedNames /\ suspendedNames \subseteq Reported
  /\ ownerStatus \in {"active", "suspended"} /\ trust \in {"none", "trusted", "revoked"}
  /\ handler \in [Handlers -> [at : HandlerAt, name : Reported]]
  /\ trustRows \subseteq BOOLEAN /\ connecting \in {"idle", "reading", "trusted", "not"}
  /\ {aged, trustedHere, overtaken, excused} \subseteq BOOLEAN /\ moderated \in 0 .. MAX_MODERATION

ModerationInit ==
  /\ reports = [n \in Reported |-> [r \in Reporters |-> "none"]]
  /\ suspendedNames = {} /\ quarantined = {}
  /\ ownerStatus = "active" /\ trust = "none" /\ aged = FALSE
  /\ handler = [c \in Handlers |-> NoReport]
  /\ trustRows = {} /\ trustedHere = FALSE /\ connecting = "idle"
  /\ overtaken = FALSE /\ excused = FALSE /\ moderated = 0

Comes(c, at) ==
  handler' = [handler EXCEPT ![c] = IF at = "idle" THEN NoReport ELSE [@ EXCEPT !.at = at]]
Moderated == moderated < MAX_MODERATION /\ moderated' = moderated + 1
Mark(n, r, status) == reports' = [reports EXCEPT ![n][r] = status]

ReportScore(n) ==
  MapThenSumSet(LAMBDA r : Weight[r],
                {r \in Reporters : reports[n][r] \in {"open", "actioned"}})

SetUserTrust(mode) ==
  /\ trust' = (IF mode THEN "trusted" ELSE "revoked")
  /\ trustRows' = trustRows \cup {mode}

---------------------------------------------------------------------------
FileReport(c, n, r) ==
  /\ Unused(c) /\ handler' = [handler EXCEPT ![c] = [at |-> "reported", name |-> n]]
  /\ Mark(n, r, "open") /\ Moderated
  /\ UNCHANGED <<suspendedNames, quarantined, aged, ownerVars, objectVars>>

(* maybeQuarantine, call by call: the owner, the score, ...                *)
ReadOwner(c) ==
  /\ handler[c].at = "reported"
  /\ Comes(c, IF handler[c].name \notin suspendedNames /\ ~aged THEN "young" ELSE "idle")
  /\ UNCHANGED <<reports, suspendedNames, quarantined, aged, ownerVars, objectVars, moderated>>

ReadScore(c) ==
  /\ handler[c].at = "young"
  /\ Comes(c, IF ReportScore(handler[c].name) >= THRESHOLD THEN "scored" ELSE "idle")
  /\ UNCHANGED <<reports, suspendedNames, quarantined, aged, ownerVars, objectVars, moderated>>

Quarantine(c) ==
  LET n == handler[c].name IN
  /\ handler[c].at = "scored" /\ suspendedNames' = suspendedNames \cup {n}
  /\ IF n \in suspendedNames THEN Comes(c, "idle") /\ UNCHANGED <<quarantined, excused>>
     ELSE Comes(c, "suspended") /\ quarantined' = quarantined \cup {n} /\ excused' = FALSE
  /\ UNCHANGED <<reports, aged, ownerStatus, trust, trustRows, objectVars, moderated>>

(* ... the trust, also of an owner whose report was upheld, ...            *)
Untrust(c) ==
  /\ handler[c].at \in {"suspended", "upheld"} /\ SetUserTrust(FALSE)
  /\ Comes(c, IF handler[c].at = "suspended" THEN "untrusted" ELSE "idle")
  /\ UNCHANGED <<reports, suspendedNames, quarantined, aged, ownerStatus, excused,
                 objectVars, moderated>>

TooMany == Cardinality(suspendedNames) >= 2

(* ... and, with two suspended names, the account.                         *)
CountNames(c) ==
  /\ handler[c].at = "untrusted" /\ Comes(c, IF TooMany THEN "counted" ELSE "idle")
  /\ UNCHANGED <<reports, suspendedNames, quarantined, aged, ownerVars, objectVars, moderated>>

SuspendOwner(c) ==
  /\ handler[c].at = "counted" /\ Comes(c, "idle") /\ ownerStatus' = "suspended"
  /\ UNCHANGED <<reports, suspendedNames, quarantined, aged, trust, trustRows, excused,
                 objectVars, moderated>>

(* D1 fails: after the quarantine an email asks the administrator to act.  *)
HandlerFails(c) ==
  /\ ~Unused(c) /\ Comes(c, "idle")
  /\ excused' = (excused \/ handler[c].at \in {"suspended", "untrusted", "counted"})
  /\ UNCHANGED <<reports, suspendedNames, quarantined, aged, ownerStatus, trust, trustRows,
                 objectVars, moderated>>

(* The report is 24 hours old, the account 7 days.                         *)
TimePasses ==
  /\ \/ \E n \in Reported, r \in Reporters : Mark(n, r, "none") /\ UNCHANGED aged
     \/ aged' = TRUE /\ UNCHANGED reports
  /\ UNCHANGED <<suspendedNames, quarantined, handler, ownerVars, objectVars, moderated>>

---------------------------------------------------------------------------
(* Reinstating dismisses the open reports.                                 *)
SetSuspended(n) ==
  IF n \in suspendedNames
  THEN /\ suspendedNames' = suspendedNames \ {n} /\ quarantined' = quarantined \ {n}
       /\ reports' = [reports EXCEPT ![n] =
                        [r \in Reporters |-> IF @[r] = "open" THEN "dismissed" ELSE @[r]]]
  ELSE suspendedNames' = suspendedNames \cup {n} /\ UNCHANGED <<reports, quarantined>>

(* The routes of administrators.                                           *)
Administer ==
  /\ Moderated /\ UNCHANGED <<aged, objectVars>>
  /\ \/ /\ \E n \in Reported : SetSuspended(n)
        /\ UNCHANGED <<handler, ownerVars>>
     \/ /\ ownerStatus' = IF ownerStatus = "active" THEN "suspended" ELSE "active"
        /\ excused' = (excused \/ ownerStatus = "suspended")
        /\ UNCHANGED <<reports, suspendedNames, quarantined, handler, trust, trustRows>>
     \/ \E mode \in BOOLEAN :
        /\ SetUserTrust(mode) /\ excused' = (excused \/ mode)
        /\ UNCHANGED <<reports, suspendedNames, quarantined, handler, ownerStatus>>
     \/ \E c \in Handlers, n \in Reported, r \in Reporters, status \in {"actioned", "dismissed"} :
        /\ Unused(c) /\ reports[n][r] \notin {"none", status} /\ Mark(n, r, status)
        /\ handler' = [handler EXCEPT ![c].at = IF status = "actioned" THEN "upheld" ELSE @]
        /\ UNCHANGED <<suspendedNames, quarantined, ownerVars>>

---------------------------------------------------------------------------
(* connectAuthz.                                                           *)
TrustRead == IF trust # "revoked" /\ (trust = "trusted" \/ aged) THEN "trusted" ELSE "not"

KeepConnect == connecting' = connecting

(* setTrusted bumps controlSeq, which a connect finds changed.             *)
DropConnect == connecting' = "idle"

(* The row stays if the answer is lost.                                    *)
PushTrust(v) ==
  /\ v \in trustRows /\ trustRows' \in {trustRows, trustRows \ {v}}
  /\ trustedHere' = v /\ overtaken' = (v /\ trust = "revoked") /\ DropConnect
  /\ UNCHANGED <<reportVars, ownerStatus, trust, excused, moderated>>

ConnectAgent ==
  /\ \/ connecting = "idle" /\ connecting' = "reading" /\ UNCHANGED <<trustedHere, overtaken>>
     \/ connecting = "reading" /\ connecting' = TrustRead /\ UNCHANGED <<trustedHere, overtaken>>
     \/ connecting \in {"trusted", "not"} /\ connecting' = "idle"
        /\ trustedHere' = (connecting = "trusted") /\ overtaken' = FALSE
  /\ UNCHANGED <<reportVars, ownerVars, moderated>>

ModerationNext ==
  \/ \E c \in Handlers :
       \/ \E n \in Reported, r \in Reporters : FileReport(c, n, r)
       \/ ReadOwner(c) \/ ReadScore(c) \/ Quarantine(c) \/ Untrust(c) \/ CountNames(c)
       \/ SuspendOwner(c) \/ HandlerFails(c)
  \/ TimePasses \/ Administer \/ ConnectAgent \/ \E v \in BOOLEAN : PushTrust(v)

ModerationSpec == ModerationInit /\ [][ModerationNext]_moderationVars
---------------------------------------------------------------------------
(* However reports and administrators overlap: once they are handled, an   *)
(* account with a quarantined name has lost its trust and one with two is  *)
(* suspended, unless an administrator pardoned it or D1 failed since; and  *)
(* no connect that read D1 before a revocation brings the trust back, for  *)
(* the revocation is yet to be pushed, or an older push overtook it.       *)
ModerationSettles ==
  /\ (\A c \in Handlers : Unused(c)) /\ ~excused =>
       /\ quarantined # {} => trust = "revoked"
       /\ Cardinality(quarantined) >= 2 => ownerStatus = "suspended"
  /\ trustedHere /\ trust = "revoked" => FALSE \in trustRows \/ overtaken
=============================================================================
