------------------------------ MODULE NameRepo ------------------------------
(***************************************************************************)
(* The control plane's tables of names (edge lib/name-repo.ts, and what    *)
(* lib/moderation.ts and api/account-routes.ts do to them): reservations,  *)
(* the default name of each user, and the holds on names that were         *)
(* released, with the hint that leads an agent to the new name.  A D1      *)
(* batch is one step; what a call reads before its batch is kept in calls. *)
(* A hold that ran out is as good as gone.  The outbox is TunnelConnect's  *)
(* subject.                                                                *)
(***************************************************************************)
EXTENDS Naturals, FiniteSets

CONSTANTS
  Users, Names,
  Nobody, NoName,  \* no user, no name
  Blocked,         \* "__blocked__", for whom a name is held for good
  MAX_NAMES,       \* max_names of every user
  MAX_HOLDS,       \* active holds per user
  MAX_CALLS        \* bound: calls between their read and their batch

ASSUME RepoAssumption ==
  /\ {Nobody, Blocked} \cap Users = {} /\ NoName \notin Names
  /\ {MAX_NAMES, MAX_HOLDS, MAX_CALLS} \subseteq Nat

VARIABLES
  owner,     \* reservations: the user of each name
  defaults,  \* the names with is_default
  suspended, \* the names whose status is suspended
  heldFor,      \* released_names: for whom each name is held
  hint,      \* renamed_to
  deleted,   \* the deleted accounts
  calls,     \* the calls between their read and their batch
  orphaned   \* users whose default was blocked by a call that had read another owner

repoVars == <<owner, defaults, suspended, heldFor, hint, deleted, calls, orphaned>>
holdVars == <<heldFor, hint>>

(* noHold is what remove read; fresh, that the row rename read is still    *)
(* there with the same gen.                                                *)
Call == [op : {"rename", "remove", "block"}, user : Users \cup {Nobody}, name : Names,
         to : Names, noHold : BOOLEAN, fresh : BOOLEAN]

RepoTypeOK ==
  /\ owner \in [Names -> Users \cup {Nobody}] /\ defaults \subseteq Names
  /\ suspended \subseteq Names /\ heldFor \in [Names -> Users \cup {Nobody, Blocked}]
  /\ hint \in [Names -> Names \cup {NoName}] /\ deleted \subseteq Users
  /\ calls \subseteq Call /\ orphaned \subseteq Users

RepoInit ==
  /\ owner = [n \in Names |-> Nobody] /\ defaults = {} /\ suspended = {}
  /\ heldFor = [n \in Names |-> Nobody] /\ hint = [n \in Names |-> NoName]
  /\ deleted = {} /\ calls = {} /\ orphaned = {}

NamesOf(u) == {n \in Names : owner[n] = u}
HoldsOf(u) == {n \in Names : heldFor[n] = u}

(* The hint of the name's hold is gone with the hold.                      *)
Hold(n, u) == heldFor' = [heldFor EXCEPT ![n] = u] /\ hint' = [hint EXCEPT ![n] = NoName]

Outdated(ns, cs) == {IF c.name \in ns THEN [c EXCEPT !.fresh = FALSE] ELSE c : c \in cs}

(* is_default of u's oldest name, unless u has a default.                  *)
Promote(u) ==
  LET mine == {n \in Names : owner'[n] = u}
      left == {n \in defaults : owner'[n] # Nobody}
  IN IF u = Nobody \/ mine = {} \/ left \cap mine # {} THEN defaults' = left
     ELSE \E n \in mine : defaults' = left \cup {n}

---------------------------------------------------------------------------
Reserved(u, n) ==
  /\ owner' = [owner EXCEPT ![n] = u]
  /\ defaults' = IF NamesOf(u) = {} THEN defaults \cup {n} ELSE defaults
  /\ Hold(n, Nobody)
  /\ UNCHANGED <<suspended, deleted, calls, orphaned>>

Reserve(u, n) ==
  /\ u \notin deleted /\ owner[n] = Nobody /\ heldFor[n] \in {Nobody, u}
  /\ Cardinality(NamesOf(u)) < MAX_NAMES
  /\ Reserved(u, n)

(* An admin's: whatever the quota, the hold and the user's status are.     *)
ReserveForUser(u, n) == owner[n] = Nobody /\ Reserved(u, n)

StartCall(op, u, n, to, noHold) ==
  /\ Cardinality(calls) < MAX_CALLS
  /\ calls' = calls \cup {[op |-> op, user |-> u, name |-> n, to |-> to,
                           noHold |-> noHold, fresh |-> TRUE]}
  /\ UNCHANGED <<owner, defaults, suspended, holdVars, deleted, orphaned>>

RenameRead(u, n, m) ==
  /\ owner[n] = u /\ n \notin suspended /\ u \notin deleted /\ n # m
  /\ StartCall("rename", u, n, m, FALSE)

RemoveRead(u, n) ==
  /\ u \notin deleted
  /\ StartCall("remove", u, n, n, Cardinality(HoldsOf(u) \ {n}) >= MAX_HOLDS)

BlockRead(n) == StartCall("block", owner[n], n, n, FALSE)

HintStays(u, n, m) == [hint EXCEPT ![n] = m, ![m] = NoName]

(* The caller's older hints that said n now say m.                         *)
HintMoves(u, n, m) ==
  [x \in Names |-> CASE x = n -> m [] x = m -> NoName
                     [] OTHER -> IF hint[x] = n /\ heldFor[x] = u THEN m ELSE hint[x]]

CanRename(c) ==
  /\ c.fresh /\ c.name \notin suspended /\ c.user \notin deleted
  /\ owner[c.to] = Nobody /\ heldFor[c.to] \in {Nobody, c.user}
  /\ Cardinality(HoldsOf(c.user) \ {c.name}) < MAX_HOLDS

Rename(c) ==
  /\ c.op = "rename" /\ CanRename(c)
  /\ owner' = [owner EXCEPT ![c.name] = Nobody, ![c.to] = c.user]
  /\ defaults' = IF c.name \in defaults THEN (defaults \ {c.name}) \cup {c.to} ELSE defaults
  /\ heldFor' = [heldFor EXCEPT ![c.name] = c.user, ![c.to] = Nobody]
  /\ hint' = HintMoves(c.user, c.name, c.to)
  /\ calls' = Outdated({c.name}, calls \ {c})
  /\ UNCHANGED <<suspended, deleted, orphaned>>

(* Above the cap the name goes without a hold if that was read before; if  *)
(* it only happened since, nothing is removed.                             *)
CanRemove(c) ==
  /\ owner[c.name] = c.user /\ c.name \notin suspended
  /\ c.noHold \/ Cardinality(HoldsOf(c.user) \ {c.name}) < MAX_HOLDS

Remove(c) ==
  /\ c.op = "remove" /\ CanRemove(c)
  /\ owner' = [owner EXCEPT ![c.name] = Nobody]
  /\ IF c.noHold THEN UNCHANGED holdVars ELSE Hold(c.name, c.user)
  /\ Promote(c.user)
  /\ calls' = Outdated({c.name}, calls \ {c})
  /\ UNCHANGED <<suspended, deleted, orphaned>>

RenameRefused(c) ==
  /\ c.op = "rename" /\ ~CanRename(c) /\ calls' = calls \ {c}
  /\ UNCHANGED <<owner, defaults, suspended, holdVars, deleted, orphaned>>

(* The promotion is not gated.                                             *)
RemoveRefused(c) ==
  /\ c.op = "remove" /\ ~CanRemove(c) /\ calls' = calls \ {c}
  /\ UNCHANGED <<owner, suspended, holdVars, deleted, orphaned>>
  /\ Promote(c.user)

(* The default of the owner that was read is promoted.                     *)
Block(c) ==
  /\ c.op = "block"
  /\ owner' = [owner EXCEPT ![c.name] = Nobody] /\ suspended' = suspended \ {c.name}
  /\ Hold(c.name, Blocked) /\ Promote(c.user)
  /\ orphaned' = IF c.name \in defaults /\ owner[c.name] # c.user
                 THEN orphaned \cup {owner[c.name]} ELSE orphaned
  /\ calls' = Outdated({c.name}, calls \ {c})
  /\ UNCHANGED deleted

SetDefault(u, n) ==
  /\ owner[n] = u /\ u \notin deleted
  /\ defaults' = (defaults \ NamesOf(u)) \cup {n}
  /\ UNCHANGED <<owner, suspended, holdVars, deleted, calls, orphaned>>

DeleteAccount(u) ==
  /\ u \notin deleted /\ deleted' = deleted \cup {u}
  /\ owner' = [n \in Names |-> IF owner[n] = u THEN Nobody ELSE owner[n]]
  /\ heldFor' = [n \in Names |-> IF owner[n] # u THEN heldFor[n]
                              ELSE IF n \in suspended THEN Blocked ELSE u]
  /\ hint' = [n \in Names |-> IF owner[n] = u THEN NoName ELSE hint[n]]
  /\ defaults' = defaults \ NamesOf(u) /\ suspended' = suspended \ NamesOf(u)
  /\ calls' = Outdated(NamesOf(u), calls)
  /\ UNCHANGED orphaned

SetNameSuspended(n) ==
  /\ owner[n] # Nobody
  /\ suspended' = IF n \in suspended THEN suspended \ {n} ELSE suspended \cup {n}
  /\ UNCHANGED <<owner, defaults, holdVars, deleted, calls, orphaned>>

ReleaseName(n) ==
  /\ heldFor[n] # Nobody /\ Hold(n, Nobody)
  /\ UNCHANGED <<owner, defaults, suspended, deleted, calls, orphaned>>

HoldRunsOut(n) == heldFor[n] \in Users /\ ReleaseName(n)

RepoNext ==
  \/ \E u \in Users, n \in Names :
       \/ Reserve(u, n) \/ ReserveForUser(u, n) \/ RemoveRead(u, n) \/ SetDefault(u, n)
       \/ \E m \in Names : RenameRead(u, n, m)
  \/ \E u \in Users : DeleteAccount(u)
  \/ \E n \in Names : BlockRead(n) \/ SetNameSuspended(n) \/ ReleaseName(n) \/ HoldRunsOut(n)
  \/ \E c \in calls : Rename(c) \/ Remove(c) \/ Block(c)
                      \/ RenameRefused(c) \/ RemoveRefused(c)

RepoSpec == RepoInit /\ [][RepoNext]_repoVars

---------------------------------------------------------------------------
(* connectAuthz: what an agent of u that connects for n is told.           *)
ConnectAuthz(u, n) ==
  IF owner[n] = u THEN (IF n \in suspended THEN "suspended" ELSE "ok")
  ELSE IF heldFor[n] # u THEN "not_reserved"
  ELSE IF hint[n] = NoName THEN "released" ELSE "renamed"

(* A user with names has one default, unless an admin's block met a name   *)
(* that had changed hands since the block looked; nobody hoards more names *)
(* than the cap by removing and renaming; and a hint never leads to        *)
(* another hint, so an agent that follows renames arrives or is told off   *)
(* at its next connect.                                                    *)
NamesSettled ==
  /\ \A u \in Users \ deleted :
       /\ Cardinality(NamesOf(u) \cap defaults) <= 1
       /\ NamesOf(u) # {} /\ u \notin orphaned => NamesOf(u) \cap defaults # {}
       /\ Cardinality(HoldsOf(u)) <= MAX_HOLDS
  /\ \A u \in Users, n \in Names :
       ConnectAuthz(u, n) = "renamed" => ConnectAuthz(u, hint[n]) # "renamed"
=============================================================================
